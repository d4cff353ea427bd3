------------------------------ MODULE ScanProofs ------------------------------
(***************************************************************************)
(* Proofs about Scan, for any change requests, activities, commits on the  *)
(* target branch, and any clocks, the platform's own among them.           *)
(*                                                                         *)
(* What is behind its snapshot has changed since the last successful scan  *)
(* began, but for the lag of the platform's dates (SeenInv): a scan lists  *)
(* all that its watermark lets through, saves the snapshot of what it      *)
(* lists, and what it does not list it has no need to.  That takes the     *)
(* overlap to be as long as a scan and the lag together (ShortScans) and a *)
(* list that is not cut (NoneCut).  TargetFresh rests on TargetInv and on  *)
(* a history that only grows (StateStays).                                 *)
(*                                                                         *)
(* That a head is announced once, and that the changes are announced,      *)
(* rests on what the replay of activities comes to (ReplayIs): the view    *)
(* after some of them is that of the last commit and of the last turn      *)
(* among them.  HistoryInv, PlaceInv, TargetsInv and EventInv place        *)
(* cursors, snapshots, the list and the events in the history;             *)
(* AnnouncedInv says which event tells each turn that a cursor has passed. *)
(***************************************************************************)
EXTENDS Scan, FiniteSetTheorems, SequenceTheorems, WellFoundedInduction, TLAPS

\* A scan ends before the overlap is over, whatever the platform's dates lag behind.
ShortScans == MaxScan + Lag <= Overlap

\* The repository has no more change requests than a list may hold.
NoneCut == IsFiniteSet(CRs) /\ Cardinality(CRs) <= MaxItems

Activities == [kind : Kinds, at : Int]
Heads      == Nat \cup {NoHead}
Times      == Nat \cup {Never}

PlatformType ==
    /\ remote \in [CRs -> Seq(Activities)]
    /\ provider \in Providers /\ target \in Nat /\ clock \in Nat
    /\ \A c \in Created : remote[c][1].kind = "opened"
StoredType ==
    /\ snap \in [CRs -> Nat] /\ snapTarget \in [CRs -> Heads]
    /\ watermark \in [started : Times, completed : Times]
ScanType ==
    scan \in [phase : {"idle", "started", "listed"}, started : Times, seen : [CRs -> Nat],
              left : SUBSET CRs, target : Heads]
Types == PlatformType /\ StoredType /\ ScanType

\* The state after the first n activities of a history.
TurnsIn(history, n) == {k \in 1 .. n : history[k].kind # "committed"}
Latest(turns) == CHOOSE k \in turns : \A j \in turns : j <= k
StateIn(history, n) == StateAfter(history[Latest(TurnsIn(history, n))].kind)

\* A scan begins after the last successful one did, and takes no longer than it may.
ClockInv ==
    /\ scan.started <= clock /\ watermark.started <= scan.started
    /\ scan.phase # "idle" => scan.started # Never /\ clock <= scan.started + MaxScan
    /\ watermark.started = Never <=> watermark.completed = Never
    /\ watermark.started # Never => watermark.completed <= watermark.started + MaxScan

\* Snapshots are of the history, and so is what a list has shown.
PrefixInv == \A c \in CRs :
    /\ snap[c] <= Now(c)
    /\ scan.phase = "listed" => scan.seen[c] <= Now(c) /\ (c \in scan.left => scan.seen[c] # 0)

\* Without a head of the target branch there is nothing open; with one, what has been
\* processed was compared with it.
TargetInv == scan.phase = "listed" => \A c \in CRs :
    /\ scan.target = NoHead =>
          /\ snap[c] # 0 => StateIn(remote[c], snap[c]) # "opened"
          /\ scan.seen[c] # 0 => StateIn(remote[c], scan.seen[c]) # "opened"
    /\ scan.target # NoHead /\ scan.seen[c] # 0 /\ c \notin scan.left =>
          snapTarget[c] = scan.target

Base == Types /\ ClockInv /\ PrefixInv

\* Since `time' something has happened to c; it was created since; as far as the
\* platform's dates tell.
ChangedSince(c, time) == UpdatedAt(c) >= time - Lag
NewSince(c, time) == remote[c][1].at >= time - Lag

\* What differs from its snapshot has changed since the last successful scan began,
\* and, once this scan is through with it, since this one began.
SeenInv == \A c \in Created :
    /\ watermark.started # Never =>
        /\ snap[c] # Now(c) => ChangedSince(c, watermark.started)
        /\ snap[c] = 0 => NewSince(c, watermark.started)
    /\ scan.phase = "listed" =>
        /\ scan.seen[c] = 0 =>
            /\ snap[c] # Now(c) => ChangedSince(c, scan.started)
            /\ snap[c] = 0 => NewSince(c, scan.started)
        /\ scan.seen[c] # 0 /\ scan.seen[c] # Now(c) => ChangedSince(c, scan.started)
        /\ scan.seen[c] # 0 /\ c \notin scan.left => snap[c] = scan.seen[c]

-----------------------------------------------------------------------------
(* Lemmas about the steps.                                                  *)

\* What is dated now is not dated earlier than the lag allows.
LEMMA DateIs == Types => Dated \in Int /\ Dated >= clock - Lag
<1> SUFFICES ASSUME Types PROVE Dated \in Int /\ Dated >= clock - Lag
    OBVIOUS
<1> DEFINE g == Grain[provider]
           t == clock + Skew[provider]
<1>1. clock \in Nat /\ provider \in Providers
    BY DEF Types, PlatformType
<1>2. g \in Nat \ {0} /\ Skew[provider] \in Int /\ Lag \in Nat /\ g - Skew[provider] <= Lag + 1
    BY <1>1, ScanAssumption
<1>3. t % g \in 0 .. g - 1
    BY <1>1, <1>2
<1>4. Dated = t - (t % g)
    BY DEF Dated
<1> QED
    BY <1>1, <1>2, <1>3, <1>4

\* The platform's dates do not go back.
LEMMA DatesGrow ==
    ASSUME Types, Types', provider' = provider, clock <= clock'
    PROVE  Dated' \in Int /\ Dated <= Dated'
<1> DEFINE g == Grain[provider]
           t == clock + Skew[provider]
           u == clock' + Skew[provider]
<1>1. clock \in Nat /\ clock' \in Nat /\ provider \in Providers
    BY DEF Types, PlatformType
<1>2. g \in Nat \ {0} /\ Skew[provider] \in Int
    BY <1>1, ScanAssumption
<1>3. t \in Int /\ u \in Int /\ t <= u
    BY <1>1, <1>2
<1>4. Dated = t - (t % g) /\ Dated' = u - (u % g)
    BY DEF Dated
<1> HIDE DEF g, t, u
<1>5. u % g \in Int /\ t - (t % g) <= u - (u % g)
    BY <1>2, <1>3
<1> QED
    BY <1>3, <1>4, <1>5

\* What people do to a change request makes its history longer.
LEMMA HistoryGrows ==
    ASSUME Types, NEW c \in CRs, NEW kind \in Kinds, Act(c, kind)
    PROVE  /\ remote' \in [CRs -> Seq(Activities)]
           /\ Now(c) \in Nat /\ Now(c)' = Now(c) + 1
           /\ remote'[c][Now(c) + 1] = [kind |-> kind, at |-> Dated]
           /\ \A k \in 1 .. Now(c) : remote'[c][k] = remote[c][k]
           /\ \A d \in CRs : d # c => remote'[d] = remote[d]
<1> DEFINE a == [kind |-> kind, at |-> Dated]
<1>1. remote[c] \in Seq(Activities) /\ a \in Activities
    BY DateIs DEF Types, PlatformType, Activities
<1>2. remote' = [remote EXCEPT ![c] = Append(remote[c], a)]
    BY DEF Act
<1>3. /\ Append(remote[c], a) \in Seq(Activities) /\ Len(remote[c]) \in Nat
      /\ Len(Append(remote[c], a)) = Len(remote[c]) + 1
      /\ Append(remote[c], a)[Len(remote[c]) + 1] = a
      /\ \A k \in 1 .. Len(remote[c]) : Append(remote[c], a)[k] = remote[c][k]
    BY <1>1, AppendProperties
<1> QED
    BY <1>2, <1>3 DEF Types, PlatformType, Now

\* The steps, those of people as one.
LEMMA Steps ==
    ASSUME [Next]_vars
    PROVE  \/ \E c \in CRs : \E kind \in Kinds :
                Act(c, kind) /\ (remote[c] = <<>> => kind = "opened")
           \/ MoveTarget \/ Tick \/ Begin \/ List \/ Complete \/ Fail
           \/ \E c \in CRs : Rebaseline(c) \/ Process(c) \/ ProcessUnread(c) \/ TargetPass(c)
           \/ UNCHANGED vars
<1>1. ASSUME NEW c \in CRs, Create(c) \/ Commit(c) \/ Close(c) \/ Reopen(c)
      PROVE  \E kind \in Kinds : Act(c, kind) /\ (remote[c] = <<>> => kind = "opened")
    BY <1>1, SMTT(30) DEF Create, Commit, Close, Reopen, Created, Kinds
<1> QED
    BY <1>1 DEF Next

\* A change request that is processed is saved as it was listed, and announced
\* when it is new.
LEMMA Saves ==
    ASSUME NEW c \in CRs, Process(c) \/ ProcessUnread(c)
    PROVE  /\ scan.phase = "listed" /\ c \in scan.left
           /\ \E new : /\ Save(c, new)
                       /\ snap[c] = 0 /\ remote[c][1].at >= Window => OpenedEvent(c) \in new
           /\ scan' = [scan EXCEPT !.left = @ \ {c}]
           /\ UNCHANGED <<platform, watermark>>
<1>1. \A dated, read :
        snap[c] = 0 /\ remote[c][1].at >= Window => OpenedEvent(c) \in FirstSeen(c, dated, read)
    BY DEF FirstSeen
<1>2. CASE Process(c)
    BY <1>1, <1>2 DEF Process
<1>3. CASE ProcessUnread(c)
    BY <1>1, <1>3 DEF ProcessUnread
<1> QED
    BY <1>2, <1>3

\* A list that is not cut has everything the watermark lets through.
LEMMA ListsAll ==
    ASSUME NoneCut, ScanType, List
    PROVE  /\ scan'.phase = "listed" /\ scan'.started = scan.started
           /\ \A c \in CRs : scan'.seen[c] = IF c \in Candidates THEN Now(c) ELSE 0
           /\ scan'.left = Candidates
           /\ UNCHANGED <<platform, stored>>
<1>1. PICK listed \in SUBSET Candidates :
        /\ listed = Candidates \/ Cardinality(listed) = MaxItems
        /\ scan' = [scan EXCEPT
                        !.phase = "listed",
                        !.seen = [c \in CRs |-> IF c \in listed THEN Now(c) ELSE 0],
                        !.left = listed,
                        !.target = IF \/ OpenStored # {}
                                      \/ \E c \in listed : State(c, Now(c)) = "opened"
                                   THEN target ELSE NoHead]
    BY DEF List
<1>2. Candidates \subseteq CRs
    BY DEF Candidates, Created
<1>3. listed = Candidates
  <2>1. CASE Cardinality(listed) = MaxItems
    <3>1. listed \subseteq CRs /\ IsFiniteSet(CRs)
      BY <1>2 DEF NoneCut
    <3>2. /\ Cardinality(listed) \in Nat /\ Cardinality(CRs) \in Nat
          /\ Cardinality(listed) <= Cardinality(CRs)
          /\ Cardinality(listed) = Cardinality(CRs) => listed = CRs
      BY <3>1, FS_Subset, FS_CardinalityType
    <3>3. MaxItems \in Nat /\ Cardinality(CRs) <= MaxItems
      BY ScanAssumption DEF NoneCut
    <3>4. listed = CRs
      BY <2>1, <3>2, <3>3
    <3> QED
      BY <1>2, <3>4
  <2> QED
    BY <1>1, <2>1
<1>4. scan \in [phase : {"idle", "started", "listed"}, started : Times, seen : [CRs -> Nat],
                left : SUBSET CRs, target : Heads]
    BY DEF ScanType
<1>5. UNCHANGED <<platform, stored>>
    BY DEF List
<1> QED
    BY <1>1, <1>3, <1>4, <1>5

-----------------------------------------------------------------------------
(* The state of a change request after a prefix of its history.             *)

\* A set of finite sets has a smallest one.
LEMMA SmallestSet ==
    ASSUME NEW X, NEW F, F \subseteq FiniteSubsetsOf(X), F # {}
    PROVE  \E s \in F : \A t \in F : ~(t \subseteq s /\ t # s)
<1>1. IsWellFoundedOn(StrictSubsetOrdering(X), FiniteSubsetsOf(X))
    BY FS_StrictSubsetOrderingWellFounded
<1>2. PICK s \in F : \A t \in F : ~(<<t, s>> \in StrictSubsetOrdering(X))
    BY <1>1, WFMin
<1>3. \A t \in F : t \in SUBSET X
    BY DEF FiniteSubsetsOf
<1> QED
    BY <1>2, <1>3 DEF StrictSubsetOrdering

\* A set of numbers up to n has a largest one.
LEMMA Largest ==
    ASSUME NEW n \in Nat, NEW T \in SUBSET (1 .. n), T # {}
    PROVE  \E k \in T : \A j \in T : j <= k
<1> DEFINE F == {k .. n : k \in T}
<1>1. F \subseteq FiniteSubsetsOf(1 .. n) /\ F # {}
  <2>1. \A k \in T : k .. n \in SUBSET (1 .. n)
    OBVIOUS
  <2>2. \A k \in T : IsFiniteSet(k .. n)
    <3> SUFFICES ASSUME NEW k \in T PROVE IsFiniteSet(k .. n)
      OBVIOUS
    <3>1. k \in Int /\ n \in Int
      OBVIOUS
    <3> QED
      BY <3>1, FS_Interval
  <2>3. \A k \in T : k .. n \in FiniteSubsetsOf(1 .. n)
    BY <2>1, <2>2 DEF FiniteSubsetsOf
  <2> QED
    BY <2>3
<1>2. PICK s \in F : \A t \in F : ~(t \subseteq s /\ t # s)
  <2> HIDE DEF F
  <2> QED
    BY <1>1, SmallestSet
<1>3. PICK k \in T : s = k .. n
    BY <1>2
<1>4. \A j \in T : j <= k
  <2> SUFFICES ASSUME NEW j \in T, j > k PROVE FALSE
    OBVIOUS
  <2>1. j .. n \subseteq k .. n /\ j .. n # k .. n
    <3>1. k \in k .. n /\ k \notin j .. n
      OBVIOUS
    <3> QED
      BY <3>1
  <2> QED
    BY <1>2, <1>3, <2>1
<1> QED
    BY <1>4
\* The history says it.
LEMMA StateIsIn == \A c, n : State(c, n) = StateIn(remote[c], n)
BY DEF State, StateIn, TurnsIn, Latest

\* There is a latest turn, for the creation is one.
LEMMA LatestTurn ==
    ASSUME PlatformType, NEW c \in CRs, NEW n \in 1 .. Now(c)
    PROVE  Latest(TurnsIn(remote[c], n)) \in 1 .. n
<1> DEFINE turns == TurnsIn(remote[c], n)
<1>1. n \in Nat /\ n >= 1
    BY DEF PlatformType, Now
<1>2. 1 \in turns /\ turns \in SUBSET (1 .. n)
    BY <1>1 DEF PlatformType, Created, TurnsIn, Now
<1>3. \E k \in turns : \A j \in turns : j <= k
  <2> HIDE DEF turns
  <2> QED
    BY <1>1, <1>2, Largest
<1>4. Latest(turns) \in turns
    BY <1>3 DEF Latest
<1> QED
    BY <1>2, <1>4

\* What happened once stays: a longer history has the same states before.
LEMMA StateStays ==
    ASSUME Types, NEW d \in CRs, NEW kind \in Kinds, Act(d, kind),
           NEW c \in CRs, NEW n \in 1 .. Now(c)
    PROVE  StateIn(remote'[c], n) = StateIn(remote[c], n)
<1>1. Now(c) \in Nat
    BY DEF Types, PlatformType, Now
<1>2. \A k \in 1 .. n : remote'[c][k] = remote[c][k]
  <2>1. CASE c = d
    <3>1. \A k \in 1 .. Now(c) : remote'[c][k] = remote[c][k]
      BY <2>1, HistoryGrows
    <3>2. 1 .. n \subseteq 1 .. Now(c)
      BY <1>1
    <3> QED
      BY <3>1, <3>2
  <2>2. CASE c # d
    <3>1. remote'[c] = remote[c]
      BY <2>2, HistoryGrows
    <3> QED
      BY <3>1
  <2> QED
    BY <2>1, <2>2
<1>3. TurnsIn(remote'[c], n) = TurnsIn(remote[c], n)
    BY <1>2 DEF TurnsIn
<1>4. Latest(TurnsIn(remote[c], n)) \in 1 .. n
    BY LatestTurn DEF Types
<1> QED
    BY <1>2, <1>3, <1>4 DEF StateIn

-----------------------------------------------------------------------------
(* The steps keep the invariants.                                           *)

\* Each step keeps the types of the platform.
LEMMA NextPlatform == Types /\ [Next]_vars => PlatformType'
<1> SUFFICES ASSUME Types, [Next]_vars PROVE PlatformType'
    OBVIOUS
<1> USE DEF Types, platform
<1>1. ASSUME NEW c \in CRs, NEW kind \in Kinds, Act(c, kind),
             remote[c] = <<>> => kind = "opened"
      PROVE  PlatformType'
  <2>1. /\ remote' \in [CRs -> Seq(Activities)]
        /\ Now(c) \in Nat /\ remote'[c][Now(c) + 1] = [kind |-> kind, at |-> Dated]
        /\ \A k \in 1 .. Now(c) : remote'[c][k] = remote[c][k]
        /\ \A d \in CRs : d # c => remote'[d] = remote[d]
    BY <1>1, HistoryGrows
  <2>2. remote'[c][1].kind = "opened"
    <3>1. CASE remote[c] = <<>>
      <4>1. Now(c) = 0 /\ kind = "opened"
        BY <1>1, <3>1 DEF Now
      <4> QED
        BY <2>1, <4>1
    <3>2. CASE remote[c] # <<>>
      <4>1. remote[c] \in Seq(Activities)
        BY DEF PlatformType
      <4>2. Now(c) >= 1
        BY <2>1, <3>2, <4>1, EmptySeq DEF Now
      <4>3. remote'[c][1] = remote[c][1]
        BY <2>1, <4>2
      <4> QED
        BY <3>2, <4>3 DEF PlatformType, Created
    <3> QED
      BY <3>1, <3>2
  <2>3. \A d \in Created' : remote'[d][1].kind = "opened"
    BY <2>1, <2>2 DEF PlatformType, Created
  <2> QED
    BY <1>1, <2>1, <2>3 DEF Act, PlatformType
<1>2. CASE MoveTarget
    BY <1>2 DEF MoveTarget, PlatformType, Created
<1>3. CASE Tick
    BY <1>3 DEF Tick, PlatformType, Created
<1>4. CASE Begin \/ List \/ Complete \/ Fail
    BY <1>4 DEF Begin, List, Complete, Fail, PlatformType, Created
<1>5. ASSUME NEW c \in CRs, Rebaseline(c) \/ Process(c) \/ ProcessUnread(c) \/ TargetPass(c)
      PROVE  PlatformType'
    BY <1>5 DEF Rebaseline, Process, ProcessUnread, TargetPass, PlatformType, Created
<1>6. CASE UNCHANGED vars
    BY <1>6 DEF vars, PlatformType, Created
<1> QED
    BY <1>1, <1>2, <1>3, <1>4, <1>5, <1>6, Steps

\* Each step keeps the types of what is stored.
LEMMA NextStored == Types /\ [Next]_vars => StoredType'
<1> SUFFICES ASSUME Types, [Next]_vars PROVE StoredType'
    OBVIOUS
<1> USE DEF Types, stored
<1>1. ASSUME NEW c \in CRs, NEW kind \in Kinds, Act(c, kind) PROVE StoredType'
    BY <1>1 DEF Act, StoredType
<1>2. CASE MoveTarget \/ Tick \/ Begin \/ List \/ Fail
    BY <1>2 DEF MoveTarget, Tick, Begin, List, Fail, StoredType
<1>3. CASE Complete
    BY <1>3 DEF Complete, StoredType, ScanType, PlatformType, Times
<1>4. ASSUME NEW c \in CRs, Process(c) \/ ProcessUnread(c) PROVE StoredType'
  <2>1. PICK new : Save(c, new)
    BY <1>4, Saves
  <2>2. watermark' = watermark
    BY <1>4, Saves
  <2>3. scan.seen[c] \in Nat /\ scan.target \in Heads
    BY DEF ScanType
  <2> QED
    BY <2>1, <2>2, <2>3 DEF Save, StoredType
<1>5. ASSUME NEW c \in CRs, Rebaseline(c) \/ TargetPass(c) PROVE StoredType'
    BY <1>5 DEF Rebaseline, TargetPass, StoredType, ScanType
<1>6. CASE UNCHANGED vars
    BY <1>6 DEF vars, StoredType
<1> QED
    BY <1>1, <1>2, <1>3, <1>4, <1>5, <1>6, Steps

\* Each step keeps the types of the scan.
LEMMA NextScan == Types /\ [Next]_vars => ScanType'
<1> SUFFICES ASSUME Types, [Next]_vars PROVE ScanType'
    OBVIOUS
<1> USE DEF Types
<1>1. ASSUME NEW c \in CRs, NEW kind \in Kinds, Act(c, kind) PROVE ScanType'
    BY <1>1 DEF Act, ScanType
<1>2. CASE MoveTarget \/ Tick
    BY <1>2 DEF MoveTarget, Tick, ScanType
<1>3. CASE Begin
    BY <1>3 DEF Begin, ScanType, PlatformType, Times
<1>4. CASE List
  <2>1. \A c \in CRs : Now(c) \in Nat
    BY DEF PlatformType, Now
  <2>2. Candidates \subseteq CRs
    BY DEF Candidates, Created
  <2>3. PICK listed \in SUBSET Candidates, head \in {target, NoHead} :
          scan' = [scan EXCEPT !.phase = "listed",
                       !.seen = [c \in CRs |-> IF c \in listed THEN Now(c) ELSE 0],
                       !.left = listed, !.target = head]
    BY <1>4 DEF List
  <2>4. [c \in CRs |-> IF c \in listed THEN Now(c) ELSE 0] \in [CRs -> Nat]
    BY <2>1
  <2> QED
    BY <2>2, <2>3, <2>4 DEF ScanType, PlatformType, Heads
<1>5. CASE Complete \/ Fail
  <2>1. PICK left \in SUBSET CRs :
          scan' = [scan EXCEPT !.phase = "idle", !.seen = [c \in CRs |-> 0],
                               !.left = left, !.target = NoHead]
    BY ZenonT(30), <1>5 DEF Complete, Fail, ScanType
  <2> QED
    BY <2>1 DEF ScanType, Heads
<1>6. ASSUME NEW c \in CRs, Process(c) \/ ProcessUnread(c) PROVE ScanType'
    BY <1>6, Saves DEF ScanType
<1>7. ASSUME NEW c \in CRs, Rebaseline(c) \/ TargetPass(c) PROVE ScanType'
    BY <1>7 DEF Rebaseline, TargetPass, ScanType
<1>8. CASE UNCHANGED vars
    BY <1>8 DEF vars, ScanType
<1> QED
    BY <1>1, <1>2, <1>3, <1>4, <1>5, <1>6, <1>7, <1>8, Steps

\* Each step keeps the times of the scans.
LEMMA NextClock == Types /\ ClockInv /\ [Next]_vars => ClockInv'
<1> SUFFICES ASSUME Types, ClockInv, [Next]_vars PROVE ClockInv'
    OBVIOUS
<1>a. /\ clock \in Nat /\ scan.started \in Times
      /\ watermark.started \in Times /\ watermark.completed \in Times
    BY DEF Types, PlatformType, ScanType, StoredType
<1>b. MaxScan \in Nat
    BY ScanAssumption
<1>1. ASSUME NEW c \in CRs, NEW kind \in Kinds, Act(c, kind) PROVE ClockInv'
    BY <1>1 DEF Act, stored, ClockInv
<1>2. CASE MoveTarget
    BY <1>2 DEF MoveTarget, stored, ClockInv
<1>3. CASE Tick
    BY <1>3, <1>a, <1>b DEF Tick, stored, ClockInv, Times, Never
<1>4. CASE Begin
  <2>1. /\ scan'.started = clock /\ clock' = clock /\ watermark' = watermark
    BY <1>4 DEF Begin, platform, stored, Types, ScanType
  <2> QED
    BY <2>1, <1>a, <1>b DEF ClockInv, Times, Never
<1>5. CASE List \/ Fail
  <2>1. /\ scan'.started = scan.started /\ scan.phase # "idle"
        /\ clock' = clock /\ watermark' = watermark
    BY <1>5 DEF List, Fail, platform, stored, Types, ScanType
  <2> QED
    BY <2>1 DEF ClockInv
<1>6. CASE Complete
  <2>1. /\ scan'.started = scan.started /\ scan'.phase = "idle" /\ scan.phase # "idle"
        /\ clock' = clock
        /\ watermark' = [started |-> scan.started, completed |-> clock]
    BY <1>6 DEF Complete, platform, Types, ScanType
  <2> QED
    BY <2>1, <1>a, <1>b DEF ClockInv, Times, Never
<1>7. ASSUME NEW c \in CRs, Process(c) \/ ProcessUnread(c) PROVE ClockInv'
  <2>1. scan' = [scan EXCEPT !.left = @ \ {c}] /\ UNCHANGED <<clock, watermark>>
    BY <1>7, Saves DEF platform
  <2> QED
    BY <2>1 DEF ClockInv, Types, ScanType
<1>8. ASSUME NEW c \in CRs, Rebaseline(c) \/ TargetPass(c) PROVE ClockInv'
    BY <1>8 DEF Rebaseline, TargetPass, platform, ClockInv
<1>9. CASE UNCHANGED vars
    BY <1>9 DEF vars, platform, stored, ClockInv
<1> QED
    BY <1>1, <1>2, <1>3, <1>4, <1>5, <1>6, <1>7, <1>8, <1>9, Steps

\* Each step keeps what is stored and listed within the history.
LEMMA NextPrefix == Types /\ PrefixInv /\ [Next]_vars => PrefixInv'
<1> SUFFICES ASSUME Types, PrefixInv, [Next]_vars PROVE PrefixInv'
    OBVIOUS
<1>a. /\ snap \in [CRs -> Nat] /\ scan.seen \in [CRs -> Nat]
      /\ \A c \in CRs : Now(c) \in Nat /\ (c \in Created => Now(c) # 0)
    BY EmptySeq DEF Types, PlatformType, StoredType, ScanType, Now, Created
<1>1. ASSUME NEW c \in CRs, NEW kind \in Kinds, Act(c, kind) PROVE PrefixInv'
  <2>1. Now(c)' = Now(c) + 1 /\ \A d \in CRs : d # c => Now(d)' = Now(d)
    BY <1>1, HistoryGrows DEF Now
  <2>2. \A d \in CRs : Now(d) <= Now(d)' /\ Now(d)' \in Nat
    BY <2>1, <1>a
  <2> QED
    BY <1>1, <1>a, <2>2 DEF Act, stored, PrefixInv
<1>2. CASE MoveTarget \/ Tick
    BY <1>2 DEF MoveTarget, Tick, stored, PrefixInv, Now
<1>3. CASE Begin
    BY <1>3 DEF Begin, platform, stored, PrefixInv, Now, Types, ScanType
<1>4. CASE List
  <2>1. PICK listed \in SUBSET Candidates :
          /\ scan'.seen = [c \in CRs |-> IF c \in listed THEN Now(c) ELSE 0]
          /\ scan'.left = listed
    BY <1>4 DEF List, Types, ScanType
  <2>2. remote' = remote /\ snap' = snap
    BY <1>4 DEF List, platform, stored
  <2>3. \A c \in listed : c \in Created
    BY DEF Candidates
  <2> QED
    BY <2>1, <2>2, <2>3, <1>a DEF PrefixInv, Now
<1>5. CASE Complete \/ Fail
    BY <1>5 DEF Complete, Fail, platform, stored, PrefixInv, Now, Types, ScanType
<1>6. ASSUME NEW c \in CRs, Process(c) \/ ProcessUnread(c) PROVE PrefixInv'
  <2>1. /\ scan.phase = "listed" /\ scan' = [scan EXCEPT !.left = @ \ {c}]
        /\ remote' = remote
    BY <1>6, Saves DEF platform
  <2>2. snap' = [snap EXCEPT ![c] = scan.seen[c]]
    BY <1>6, Saves DEF Save
  <2> QED
    BY <2>1, <2>2 DEF PrefixInv, Now, Types, ScanType, StoredType
<1>7. ASSUME NEW c \in CRs, Rebaseline(c) \/ TargetPass(c) PROVE PrefixInv'
    BY <1>7 DEF Rebaseline, TargetPass, platform, PrefixInv, Now
<1>8. CASE UNCHANGED vars
    BY <1>8 DEF vars, platform, stored, PrefixInv, Now
<1> QED
    BY <1>1, <1>2, <1>3, <1>4, <1>5, <1>6, <1>7, <1>8, Steps

\* Each step keeps what is known of the target branch.
LEMMA NextTarget == Base /\ TargetInv /\ [Next]_vars => TargetInv'
<1> SUFFICES ASSUME Base, TargetInv, [Next]_vars PROVE TargetInv'
    OBVIOUS
<1> USE DEF Base
<1>a. /\ snap \in [CRs -> Nat] /\ scan.seen \in [CRs -> Nat]
      /\ snapTarget \in [CRs -> Heads] /\ \A c \in CRs : Now(c) \in Nat
    BY DEF Types, PlatformType, StoredType, ScanType, Now
<1>1. ASSUME NEW d \in CRs, NEW kind \in Kinds, Act(d, kind) PROVE TargetInv'
  <2>1. UNCHANGED <<snap, snapTarget, scan>>
    BY <1>1 DEF Act, stored
  <2>2. ASSUME NEW c \in CRs, NEW n \in 1 .. Now(c)
        PROVE  StateIn(remote'[c], n) = StateIn(remote[c], n)
    BY <1>1, <2>2, StateStays
  <2> SUFFICES ASSUME scan.phase = "listed", NEW c \in CRs
               PROVE  /\ scan.target = NoHead =>
                         /\ snap[c] # 0 => StateIn(remote'[c], snap[c]) # "opened"
                         /\ scan.seen[c] # 0 => StateIn(remote'[c], scan.seen[c]) # "opened"
                      /\ scan.target # NoHead /\ scan.seen[c] # 0 /\ c \notin scan.left =>
                         snapTarget[c] = scan.target
    BY <2>1 DEF TargetInv
  <2>3. snap[c] # 0 => snap[c] \in 1 .. Now(c)
    BY <1>a DEF PrefixInv
  <2>4. scan.seen[c] # 0 => scan.seen[c] \in 1 .. Now(c)
    BY <1>a DEF PrefixInv
  <2> QED
    BY <2>1, <2>2, <2>3, <2>4 DEF TargetInv

<1>2. CASE MoveTarget \/ Tick
    BY <1>2 DEF MoveTarget, Tick, stored, TargetInv
<1>3. CASE Begin
    BY <1>3 DEF Begin, TargetInv, Types, ScanType
<1>4. CASE List
  <2>1. PICK listed \in SUBSET Candidates :
          scan' = [scan EXCEPT
                       !.phase = "listed",
                       !.seen = [c \in CRs |-> IF c \in listed THEN Now(c) ELSE 0],
                       !.left = listed,
                       !.target = IF \/ OpenStored # {}
                                     \/ \E c \in listed : State(c, Now(c)) = "opened"
                                  THEN target ELSE NoHead]
    BY <1>4 DEF List
  <2>2. remote' = remote /\ snap' = snap
    BY <1>4 DEF List, platform, stored
  <2>3. target # NoHead
    BY DEF Types, PlatformType, NoHead
  <2>4. /\ scan'.left = listed
        /\ \A c \in CRs : scan'.seen[c] = IF c \in listed THEN Now(c) ELSE 0
        /\ scan'.target = NoHead => /\ OpenStored = {}
                                    /\ \A c \in listed : StateIn(remote[c], Now(c)) # "opened"
    BY <2>1, <2>3, StateIsIn DEF Types, ScanType
  <2>5. \A c \in CRs : snap[c] # 0 /\ OpenStored = {} => StateIn(remote[c], snap[c]) # "opened"
    BY StateIsIn DEF OpenStored, Stored
  <2> SUFFICES ASSUME NEW c \in CRs
               PROVE  /\ scan'.target = NoHead =>
                         /\ snap[c] # 0 => StateIn(remote[c], snap[c]) # "opened"
                         /\ scan'.seen[c] # 0 => StateIn(remote[c], scan'.seen[c]) # "opened"
                      /\ scan'.seen[c] # 0 => c \in scan'.left
    BY <2>2 DEF TargetInv
  <2> QED
    BY <2>4, <2>5
<1>5. CASE Complete \/ Fail
    BY <1>5 DEF Complete, Fail, TargetInv, Types, ScanType
<1>6. ASSUME NEW d \in CRs, Process(d) \/ ProcessUnread(d) PROVE TargetInv'
  <2>1. /\ scan.phase = "listed" /\ d \in scan.left /\ remote' = remote
        /\ scan'.phase = "listed" /\ scan'.seen = scan.seen /\ scan'.target = scan.target
        /\ scan'.left = scan.left \ {d}
    BY <1>6, Saves DEF platform, Types, ScanType
  <2>2. PICK new : Save(d, new)
    BY <1>6, Saves
  <2>3. /\ snap' = [snap EXCEPT ![d] = scan.seen[d]]
        /\ scan.target # NoHead => snapTarget' = [snapTarget EXCEPT ![d] = scan.target]
    BY <2>2 DEF Save
  <2> SUFFICES ASSUME NEW c \in CRs
               PROVE  /\ scan.target = NoHead =>
                         /\ snap'[c] # 0 => StateIn(remote[c], snap'[c]) # "opened"
                         /\ scan.seen[c] # 0 => StateIn(remote[c], scan.seen[c]) # "opened"
                      /\ scan.target # NoHead /\ scan.seen[c] # 0 /\ c \notin scan'.left =>
                         snapTarget'[c] = scan.target
    BY <2>1 DEF TargetInv
  <2>4. CASE c = d
    BY <1>a, <2>1, <2>3, <2>4 DEF TargetInv
  <2>5. CASE c # d
    BY <1>a, <2>1, <2>3, <2>5 DEF TargetInv
  <2> QED
    BY <2>4, <2>5
<1>7. ASSUME NEW d \in CRs, Rebaseline(d) PROVE TargetInv'
    BY <1>7 DEF Rebaseline, platform, TargetInv
<1>8. ASSUME NEW d \in CRs, TargetPass(d) PROVE TargetInv'
  <2>1. /\ remote' = remote /\ UNCHANGED <<snap, scan>>
        /\ snapTarget' = [snapTarget EXCEPT ![d] = scan.target]
    BY <1>8 DEF TargetPass, platform
  <2> QED
    BY <1>a, <2>1 DEF TargetInv
<1>9. CASE UNCHANGED vars
    BY <1>9 DEF vars, platform, stored, TargetInv
<1> QED
    BY <1>1, <1>2, <1>3, <1>4, <1>5, <1>6, <1>7, <1>8, <1>9, Steps

\* Each step keeps what is behind its snapshot in reach of the next scan.
LEMMA NextSeen ==
    ASSUME ShortScans, NoneCut, Base, SeenInv, [Next]_vars
    PROVE  SeenInv'
<1> USE DEF Base
<1>a. /\ snap \in [CRs -> Nat] /\ scan.seen \in [CRs -> Nat]
      /\ clock \in Nat /\ scan.started \in Times
      /\ watermark.started \in Times /\ watermark.completed \in Times
    BY DEF Types, PlatformType, StoredType, ScanType
<1>b. /\ MaxScan \in Nat /\ Overlap \in Nat /\ Lag \in Nat /\ MaxScan + Lag <= Overlap
      /\ Dated \in Int /\ Dated >= clock - Lag
    BY ScanAssumption, DateIs DEF ShortScans
<1>c. scan.started <= clock /\ watermark.started <= scan.started
    BY DEF ClockInv
<1>d. \A c \in Created : c \in CRs /\ Now(c) \in Nat /\ Now(c) # 0 /\ UpdatedAt(c) \in Int
  <2> SUFFICES ASSUME NEW c \in Created
               PROVE  c \in CRs /\ Now(c) \in Nat /\ Now(c) # 0 /\ UpdatedAt(c) \in Int
    OBVIOUS
  <2>1. c \in CRs /\ remote[c] \in Seq(Activities) /\ remote[c] # <<>>
    BY DEF Created, Types, PlatformType
  <2>2. Now(c) \in Nat /\ Now(c) # 0
    BY <2>1, EmptySeq DEF Now
  <2>3. remote[c][Now(c)] \in Activities
    BY <2>1, <2>2, ElementOfSeq DEF Now
  <2> QED
    BY <2>1, <2>2, <2>3 DEF UpdatedAt, Activities
<1>1. ASSUME NEW d \in CRs, NEW kind \in Kinds, Act(d, kind) PROVE SeenInv'
  <2>1. UNCHANGED <<snap, watermark, scan>>
    BY <1>1 DEF Act, stored
  <2>2. /\ Now(d) \in Nat /\ Now(d)' = Now(d) + 1
        /\ remote'[d][Now(d) + 1] = [kind |-> kind, at |-> Dated]
        /\ \A k \in 1 .. Now(d) : remote'[d][k] = remote[d][k]
        /\ \A c \in CRs : c # d => remote'[c] = remote[c]
    BY <1>1, HistoryGrows
  <2>3. UpdatedAt(d)' = Dated
    BY <2>2 DEF UpdatedAt
  <2>4. remote'[d][1].at = IF d \in Created THEN remote[d][1].at ELSE Dated
    <3>1. CASE d \in Created
      <4>1. 1 \in 1 .. Now(d)
        BY <1>d, <3>1
      <4> QED
        BY <2>2, <3>1, <4>1
    <3>2. CASE d \notin Created
      <4>1. Now(d) = 0
        BY <3>2 DEF Created, Now
      <4> QED
        BY <2>2, <3>2, <4>1
    <3> QED
      BY <3>1, <3>2
  <2>5. snap[d] <= Now(d) /\ (scan.phase = "listed" => scan.seen[d] <= Now(d))
    BY DEF PrefixInv
  <2>6. scan.phase = "listed" /\ scan.seen[d] # 0 => d \in Created
    BY <2>5, <1>a DEF Created, Now
  <2> SUFFICES ASSUME NEW c \in Created' PROVE
        /\ watermark.started # Never =>
            /\ snap[c] # Now(c)' => ChangedSince(c, watermark.started)'
            /\ snap[c] = 0 => NewSince(c, watermark.started)'
        /\ scan.phase = "listed" =>
            /\ scan.seen[c] = 0 =>
                /\ snap[c] # Now(c)' => ChangedSince(c, scan.started)'
                /\ snap[c] = 0 => NewSince(c, scan.started)'
            /\ scan.seen[c] # 0 /\ scan.seen[c] # Now(c)' => ChangedSince(c, scan.started)'
            /\ scan.seen[c] # 0 /\ c \notin scan.left => snap[c] = scan.seen[c]
    BY <2>1 DEF SeenInv
  <2>7. CASE c = d
    <3>1. ChangedSince(c, watermark.started)' /\ ChangedSince(c, scan.started)'
      BY <2>1, <2>3, <2>7, <1>a, <1>b, <1>c DEF ChangedSince, Times, Never
    <3>2. c \notin Created => NewSince(c, watermark.started)' /\ NewSince(c, scan.started)'
      BY <2>1, <2>4, <2>7, <1>a, <1>b, <1>c DEF NewSince, Times, Never
    <3>3. c \in Created /\ watermark.started # Never /\ snap[c] = 0
              => NewSince(c, watermark.started)'
      BY <2>1, <2>4, <2>7 DEF SeenInv, NewSince
    <3>4. c \in Created /\ scan.phase = "listed" /\ scan.seen[c] = 0 /\ snap[c] = 0
              => NewSince(c, scan.started)'
      BY <2>1, <2>4, <2>7 DEF SeenInv, NewSince
    <3>5. scan.phase = "listed" /\ scan.seen[c] # 0 /\ c \notin scan.left
              => snap[c] = scan.seen[c]
      BY <2>6, <2>7 DEF SeenInv
    <3> QED
      BY <3>1, <3>2, <3>3, <3>4, <3>5
  <2>8. CASE c # d
    <3>1. c \in CRs /\ remote'[c] = remote[c]
      BY <2>2, <2>8 DEF Created
    <3>2. c \in Created
      BY <3>1 DEF Created
    <3>3. /\ Now(c)' = Now(c)
          /\ ChangedSince(c, watermark.started)' <=> ChangedSince(c, watermark.started)
          /\ ChangedSince(c, scan.started)' <=> ChangedSince(c, scan.started)
          /\ NewSince(c, watermark.started)' <=> NewSince(c, watermark.started)
          /\ NewSince(c, scan.started)' <=> NewSince(c, scan.started)
      BY <2>1, <3>1 DEF Now, ChangedSince, NewSince, UpdatedAt
    <3> QED
      BY <3>2, <3>3 DEF SeenInv
  <2> QED
    BY <2>7, <2>8
<1>2. CASE MoveTarget \/ Tick
    BY <1>2 DEF MoveTarget, Tick, stored, SeenInv, Created, ChangedSince, NewSince,
        UpdatedAt,
        Now
<1>3. CASE Begin
  <2>1. scan'.phase = "started" /\ UNCHANGED <<remote, snap, watermark>>
    BY <1>3 DEF Begin, platform, stored, Types, ScanType
  <2> QED
    BY <2>1 DEF SeenInv, Created, ChangedSince, NewSince, UpdatedAt, Now
<1>4. CASE List
  <2>1. /\ scan'.started = scan.started /\ scan'.left = Candidates
        /\ \A c \in CRs : scan'.seen[c] = IF c \in Candidates THEN Now(c) ELSE 0
        /\ UNCHANGED <<remote, snap, watermark>>
    BY <1>4, ListsAll DEF Types, platform, stored
  <2>2. ASSUME NEW c \in Created, c \notin Candidates
        PROVE  snap[c] = Now(c) /\ snap[c] # 0
    <3>1. /\ watermark.completed # Never
          /\ ~(UpdatedAt(c) >= watermark.completed - Overlap)
      BY <2>2 DEF Candidates
    <3>2. /\ watermark.started # Never
          /\ watermark.completed <= watermark.started + MaxScan
      BY <3>1 DEF ClockInv
    <3>3. watermark.started \in Nat /\ watermark.completed \in Nat
      BY <1>a, <3>1, <3>2 DEF Times
    <3>4. UpdatedAt(c) < watermark.started - Lag
      BY <1>b, <1>d, <3>1, <3>2, <3>3
    <3>5. snap[c] = Now(c)
      BY <1>b, <1>d, <3>2, <3>3, <3>4 DEF SeenInv, ChangedSince
    <3> QED
      BY <1>d, <3>5
  <2> QED
    BY <2>1, <2>2, <1>d DEF SeenInv, Created, ChangedSince, NewSince, UpdatedAt, Now
<1>5. CASE Complete
  <2>1. /\ scan.phase = "listed" /\ scan.left = {} /\ scan'.phase = "idle"
        /\ watermark'.started = scan.started /\ UNCHANGED <<remote, snap>>
    BY <1>5 DEF Complete, platform, Types, ScanType
  <2>2. ASSUME NEW c \in Created
        PROVE  /\ snap[c] # Now(c) => ChangedSince(c, scan.started)
               /\ snap[c] = 0 => NewSince(c, scan.started)
    BY <2>1, <2>2 DEF SeenInv
  <2>3. Created' = Created
    BY <2>1 DEF Created
  <2> QED
    BY <2>1, <2>2, <2>3 DEF SeenInv, ChangedSince, NewSince, UpdatedAt, Now
<1>6. CASE Fail
  <2>1. scan'.phase = "idle" /\ UNCHANGED <<remote, snap, watermark>>
    BY <1>6 DEF Fail, platform, stored, Types, ScanType
  <2> QED
    BY <2>1 DEF SeenInv, Created, ChangedSince, NewSince, UpdatedAt, Now
<1>7. ASSUME NEW d \in CRs, Process(d) \/ ProcessUnread(d) PROVE SeenInv'
  <2>1. /\ scan.phase = "listed" /\ d \in scan.left
        /\ scan'.phase = "listed" /\ scan'.seen = scan.seen /\ scan'.started = scan.started
        /\ scan'.left = scan.left \ {d} /\ UNCHANGED <<remote, watermark>>
    BY <1>7, Saves DEF platform, Types, ScanType
  <2>2. snap' = [snap EXCEPT ![d] = scan.seen[d]]
    BY <1>7, Saves DEF Save
  <2>3. scan.seen[d] # 0 /\ scan.seen[d] <= Now(d)
    BY <2>1 DEF PrefixInv
  <2>4. ASSUME d \in Created, ChangedSince(d, scan.started), watermark.started # Never
        PROVE  ChangedSince(d, watermark.started)
    BY <2>4, <1>a, <1>b, <1>c, <1>d DEF ChangedSince, Times, Never
  <2> SUFFICES ASSUME NEW c \in Created PROVE
        /\ watermark.started # Never =>
            /\ snap'[c] # Now(c) => ChangedSince(c, watermark.started)
            /\ snap'[c] = 0 => NewSince(c, watermark.started)
        /\ scan.seen[c] = 0 =>
            /\ snap'[c] # Now(c) => ChangedSince(c, scan.started)
            /\ snap'[c] = 0 => NewSince(c, scan.started)
        /\ scan.seen[c] # 0 /\ scan.seen[c] # Now(c) => ChangedSince(c, scan.started)
        /\ scan.seen[c] # 0 /\ c \notin scan'.left => snap'[c] = scan.seen[c]
    BY <2>1 DEF SeenInv, Created, ChangedSince, NewSince, UpdatedAt, Now
  <2>5. CASE c = d
    BY <1>a, <1>d, <2>1, <2>2, <2>3, <2>4, <2>5 DEF SeenInv
  <2>6. CASE c # d
    BY <1>a, <1>d, <2>1, <2>2, <2>6 DEF SeenInv
  <2> QED
    BY <2>5, <2>6
<1>8. ASSUME NEW d \in CRs, Rebaseline(d) \/ TargetPass(d) PROVE SeenInv'
  <2>1. UNCHANGED <<remote, snap, watermark, scan>>
    BY <1>8 DEF Rebaseline, TargetPass, platform
  <2> QED
    BY <2>1 DEF SeenInv, Created, ChangedSince, NewSince, UpdatedAt, Now
<1>9. CASE UNCHANGED vars
  <2>1. UNCHANGED <<remote, snap, watermark, scan>>
    BY <1>9 DEF vars, platform, stored
  <2> QED
    BY <2>1 DEF SeenInv, Created, ChangedSince, NewSince, UpdatedAt, Now
<1> QED
    BY <1>1, <1>2, <1>3, <1>4, <1>5, <1>6, <1>7, <1>8, <1>9, Steps

-----------------------------------------------------------------------------
(* The theorems.                                                            *)

\* All parts of the invariant hold at first.
LEMMA InitAll == Init => Base /\ TargetInv /\ SeenInv
<1> SUFFICES ASSUME Init PROVE Base /\ TargetInv /\ SeenInv
    OBVIOUS
<1>1. MaxScan \in Nat
    BY ScanAssumption
<1>2. Created = {} /\ \A c \in CRs : Now(c) = 0
    BY DEF Init, Created, Now
<1>3. /\ scan = [phase |-> "idle", started |-> Never, seen |-> [c \in CRs |-> 0],
                 left |-> {}, target |-> NoHead]
      /\ watermark = [started |-> Never, completed |-> Never] /\ clock = 0
    BY DEF Init
<1>4. PlatformType /\ StoredType /\ ScanType
    BY <1>2, <1>3 DEF Init, PlatformType, StoredType, ScanType, Heads, Times
<1>5. ClockInv /\ PrefixInv /\ TargetInv /\ SeenInv
    BY <1>1, <1>2, <1>3 DEF Init, ClockInv, PrefixInv, TargetInv, SeenInv, Never
<1> QED
    BY <1>4, <1>5 DEF Base, Types

\* The types and the order of times and prefixes hold in every state.
LEMMA BaseHolds == Spec => [](Base /\ TargetInv)
<1>1. Init => Base /\ TargetInv
    BY InitAll
<1>2. Base /\ TargetInv /\ [Next]_vars => (Base /\ TargetInv)'
    BY NextPlatform, NextStored, NextScan, NextClock, NextPrefix, NextTarget DEF Base, Types
<1> QED
    BY <1>1, <1>2, PTL DEF Spec

\* With short scans and a list that is not cut, what is behind its snapshot is in reach
\* in every state.
LEMMA SeenHolds == ASSUME ShortScans, NoneCut PROVE Spec => []SeenInv
<1>1. Init => SeenInv
    BY InitAll
<1>2. Base /\ SeenInv /\ [Next]_vars => SeenInv'
    BY NextSeen
<1> QED
    BY <1>1, <1>2, BaseHolds, PTL DEF Spec

\* Nothing that changed is left behind the watermark.
THEOREM MissesNothing == ASSUME ShortScans, NoneCut PROVE Spec => []NothingMissed
<1>1. Base /\ SeenInv => NothingMissed
  <2> SUFFICES ASSUME Base, SeenInv, NEW c \in Created,
                      snap[c] = 0 \/ View(c, snap[c]) # View(c, Now(c)),
                      watermark.completed # Never
               PROVE  UpdatedAt(c) >= watermark.completed - Overlap
    BY DEF NothingMissed, Candidates
  <2>1. c \in CRs /\ remote[c] \in Seq(Activities) /\ remote[c] # <<>>
    BY DEF Created, Base, Types, PlatformType
  <2>2. Now(c) \in Nat /\ Now(c) # 0
    BY <2>1, EmptySeq DEF Now
  <2>3. UpdatedAt(c) \in Int
    <3>1. remote[c][Now(c)] \in Activities
      BY <2>1, <2>2, ElementOfSeq DEF Now
    <3> QED
      BY <3>1 DEF UpdatedAt, Activities
  <2>4. snap[c] # Now(c)
    BY <2>2
  <2>5. /\ watermark.started # Never
        /\ watermark.completed <= watermark.started + MaxScan
    BY DEF Base, ClockInv
  <2>6. watermark.started \in Nat /\ watermark.completed \in Nat
    BY <2>5 DEF Base, Types, StoredType, Times
  <2>7. UpdatedAt(c) >= watermark.started - Lag
    BY <2>4, <2>5 DEF SeenInv, ChangedSince
  <2>8. MaxScan \in Nat /\ Overlap \in Nat /\ Lag \in Nat /\ MaxScan + Lag <= Overlap
    BY ScanAssumption DEF ShortScans
  <2> QED
    BY <2>3, <2>5, <2>6, <2>7, <2>8
<1> QED
    BY <1>1, BaseHolds, SeenHolds, PTL

\* A change request that appears after a successful scan is announced, unless the
\* platform's clock dates it before that scan.
THEOREM AnnouncesCreations == ASSUME ShortScans, NoneCut PROVE Spec => CreationAnnounced
<1>1. ASSUME Base, SeenInv, [Next]_vars, NEW c \in CRs, Appears(c)
      PROVE  AnnouncedOpen(c) \/ watermark.started - remote[c][1].at \in 1 .. Lag
  <2>1. PICK d \in CRs : Process(d) \/ ProcessUnread(d)
    <3> SUFFICES ASSUME \A d \in CRs : ~(Process(d) \/ ProcessUnread(d)) PROVE snap' = snap
      BY <1>1 DEF Appears
    <3> QED
      BY <1>1, Steps DEF Act, MoveTarget, Tick, Begin, List, Complete, Fail, Rebaseline,
          TargetPass, vars, stored
  <2>2. PICK new : /\ Save(d, new)
                   /\ snap[d] = 0 /\ remote[d][1].at >= Window => OpenedEvent(d) \in new
    BY <2>1, Saves
  <2>3. d = c
    BY <1>1, <2>2 DEF Appears, Save, Base, Types, StoredType
  <2>4. c \in Created
    <3>1. scan.phase = "listed" /\ c \in scan.left
      BY <2>1, <2>3, Saves
    <3>2. scan.seen[c] # 0 /\ scan.seen[c] <= Now(c) /\ scan.seen[c] \in Nat
      BY <1>1, <3>1 DEF Base, PrefixInv, Types, ScanType
    <3> QED
      BY <3>2 DEF Created, Now
  <2>5. /\ watermark.started \in Nat /\ Window = watermark.started
        /\ remote[c][1].at >= watermark.started - Lag
    BY <1>1, <2>4 DEF Appears, SeenInv, NewSince, Window, Base, Types, StoredType, Times
  <2>6. remote[c][1].at \in Int /\ Lag \in Nat
    <3>1. remote[c] \in Seq(Activities) /\ remote[c] # <<>>
      BY <1>1, <2>4 DEF Created, Base, Types, PlatformType
    <3>2. Len(remote[c]) \in Nat /\ Len(remote[c]) # 0
      BY <3>1, EmptySeq
    <3>3. remote[c][1] \in Activities
      BY <3>1, <3>2, ElementOfSeq
    <3> QED
      BY <3>3, ScanAssumption DEF Activities
  <2>7. CASE remote[c][1].at >= Window
    <3>1. OpenedEvent(c) \in new
      BY <1>1, <2>2, <2>3, <2>7 DEF Appears
    <3>2. PICK all : new \subseteq all /\ events' = Inserted(all)
      BY <2>2 DEF Save
    <3>3. CASE OpenedEvent(c) \in events'
      BY <3>3 DEF AnnouncedOpen, OpenedEvent
    <3>4. CASE OpenedEvent(c) \notin events'
      <4>1. PICK f \in events : SameId(OpenedEvent(c), f)
        BY <3>1, <3>2, <3>4 DEF Inserted
      <4>2. f.cr = c /\ f.type = "opened"
        BY <4>1 DEF SameId, OpenedEvent
      <4> QED
        BY <3>2, <4>1, <4>2 DEF Inserted, AnnouncedOpen
    <3> QED
      BY <3>3, <3>4
  <2>8. CASE ~(remote[c][1].at >= Window)
    BY <2>5, <2>6, <2>8
  <2> QED
    BY <2>7, <2>8
<1>2. Base /\ SeenInv /\ [Next]_vars =>
        [\A c \in CRs : Appears(c) =>
            \/ AnnouncedOpen(c)
            \/ watermark.started - remote[c][1].at \in 1 .. Lag]_vars
    BY <1>1
<1> QED
    BY <1>2, BaseHolds, SeenHolds, PTL DEF Spec, CreationAnnounced

\* A scan that counts as successful has compared all that is open with the target.
THEOREM ComparesTargets == Spec => TargetFresh
<1>1. ASSUME Base, TargetInv, [Next]_vars, watermark' # watermark, NEW c \in OpenStored
      PROVE  scan.target = snapTarget[c]
  <2>1. Complete
    <3>1. ASSUME NEW d \in CRs, Process(d) \/ ProcessUnread(d) PROVE watermark' = watermark
      BY <3>1, Saves
    <3> QED
      BY <1>1, <3>1, Steps DEF Act, MoveTarget, Tick, Begin, List, Fail, Rebaseline,
          TargetPass, vars, stored
  <2>2. scan.phase = "listed" /\ scan.left = {} /\ Lagging = {}
    BY <2>1 DEF Complete
  <2>3. c \in CRs /\ snap[c] # 0 /\ State(c, snap[c]) = "opened"
    BY DEF OpenStored, Stored
  <2>4. scan.target # NoHead
    BY <1>1, <2>2, <2>3, StateIsIn DEF TargetInv
  <2>5. CASE scan.seen[c] = 0
    BY <2>2, <2>4, <2>5 DEF Lagging
  <2>6. CASE scan.seen[c] # 0
    BY <1>1, <2>2, <2>3, <2>4, <2>6 DEF TargetInv
  <2> QED
    BY <2>5, <2>6
<1>2. Base /\ TargetInv /\ [Next]_vars =>
        [watermark' # watermark => \A c \in OpenStored : scan.target = snapTarget[c]]_vars
    BY <1>1
<1> QED
    BY <1>2, BaseHolds, PTL DEF Spec, TargetFresh

-----------------------------------------------------------------------------
(* Numbers, and what a replay of activities comes to.                       *)

\* A set of numbers has a smallest one.
LEMMA Smallest ==
    ASSUME NEW T, T \subseteq Nat, T # {}
    PROVE  \E x \in T : \A y \in T : x <= y
<1>1. PICK x \in T : \A y \in T : <<y, x>> \notin OpToRel(<, Nat)
    BY WFMin, NatLessThanWellFounded, Zenon
<1>2. \A y \in T : ~(y < x)
    BY <1>1 DEF OpToRel
<1> QED
    BY <1>2, SMT

\* A property of 0 that goes on from each number up to n holds up to n.
LEMMA UpTo ==
    ASSUME NEW n \in Nat, NEW C, 0 \in C, \A k \in 1 .. n : k - 1 \in C => k \in C
    PROVE  \A k \in 0 .. n : k \in C
<1> DEFINE T == {k \in 0 .. n : k \notin C}
<1>1. ASSUME T # {} PROVE FALSE
    <2>1. T \subseteq Nat
        OBVIOUS
    <2>2. PICK k \in T : \A y \in T : k <= y
        BY <1>1, <2>1, Smallest, Zenon
    <2>3. k \in 1 .. n /\ k - 1 \in 0 .. n /\ ~(k <= k - 1)
        OBVIOUS
    <2>4. k - 1 \notin T
        BY <2>2, <2>3
    <2> QED
        BY <2>3, <2>4
<1> QED
    BY <1>1

-----------------------------------------------------------------------------
(* Histories.                                                               *)

Sha(h, n) == Cardinality({k \in 1 .. n : h[k].kind = "committed"})

\* The commits of a prefix, counted.
LEMMA ShaSteps ==
    ASSUME NEW h
    PROVE  /\ Sha(h, 0) = 0
           /\ \A n \in Nat : Sha(h, n) \in Nat
           /\ \A n \in Nat : Sha(h, n + 1) = Sha(h, n) + IF h[n + 1].kind = "committed" THEN 1 ELSE 0
<1> DEFINE S(n) == {k \in 1 .. n : h[k].kind = "committed"}
<1>1. S(0) = {}
    OBVIOUS
<1>2. ASSUME NEW n \in Nat PROVE IsFiniteSet(S(n))
    <2>1. IsFiniteSet(1 .. n)
        BY FS_Interval
    <2>2. S(n) \subseteq 1 .. n
        OBVIOUS
    <2> QED
        BY <2>1, <2>2, FS_Subset
<1>3. ASSUME NEW n \in Nat
      PROVE  /\ S(n + 1) = (IF h[n + 1].kind = "committed" THEN S(n) \cup {n + 1} ELSE S(n))
             /\ n + 1 \notin S(n)
    <2>1. \A k : k \in 1 .. n + 1 <=> k \in 1 .. n \/ k = n + 1
        OBVIOUS
    <2> QED
        BY <2>1
<1> HIDE DEF S
<1>4. \A n \in Nat : Sha(h, n) = Cardinality(S(n))
    BY DEF Sha, S
<1>5. Cardinality(S(0)) = 0
    BY <1>1, FS_EmptySet
<1>6. \A n \in Nat : Cardinality(S(n)) \in Nat
    BY <1>2, FS_CardinalityType
<1>7. ASSUME NEW n \in Nat
      PROVE  Cardinality(S(n + 1)) = Cardinality(S(n)) + IF h[n + 1].kind = "committed" THEN 1 ELSE 0
    <2>1. Cardinality(S(n) \cup {n + 1}) = Cardinality(S(n)) + 1
        BY <1>2, <1>3, FS_AddElement
    <2>2. CASE h[n + 1].kind = "committed"
        BY <1>3, <2>1, <2>2
    <2>3. CASE h[n + 1].kind # "committed"
        <3>1. S(n + 1) = S(n) /\ Cardinality(S(n)) \in Nat
            BY <1>3, <1>6, <2>3
        <3> QED
            BY <2>3, <3>1
    <2> QED
        BY <2>2, <2>3
<1> QED
    BY <1>4, <1>5, <1>6, <1>7

\* Longer prefixes have no fewer commits, as many without one between, each count in
\* between at one of them.
LEMMA ShaBetween ==
    ASSUME NEW h, NEW m \in Nat, NEW n \in Nat, m <= n
    PROVE  /\ Sha(h, m) <= Sha(h, n) /\ Sha(h, n) <= Sha(h, m) + (n - m)
           /\ (\A k \in m + 1 .. n : h[k].kind # "committed") => Sha(h, n) = Sha(h, m)
           /\ \A k \in m + 1 .. n : h[k].kind = "committed" => Sha(h, m) < Sha(h, k)
           /\ \A s \in Sha(h, m) + 1 .. Sha(h, n) :
                 \E k \in m + 1 .. n : h[k].kind = "committed" /\ Sha(h, k) = s
<1> DEFINE a(k) == Sha(h, k)
           c(k) == h[k].kind = "committed"
<1>1. /\ \A k \in Nat : a(k) \in Nat
      /\ \A k \in Nat : a(k + 1) = a(k) + IF c(k + 1) THEN 1 ELSE 0
    BY ShaSteps
<1> HIDE DEF a, c
<1>2. ASSUME NEW k \in Nat PROVE a(k) <= a(k + 1) /\ a(k + 1) <= a(k) + 1
    BY <1>1
<1> DEFINE G == {d \in Nat : /\ a(m) <= a(m + d) /\ a(m + d) <= a(m) + d
                             /\ (\A k \in m + 1 .. m + d : ~c(k)) => a(m + d) = a(m)
                             /\ \A s \in a(m) + 1 .. a(m + d) :
                                   \E k \in m + 1 .. m + d : c(k) /\ a(k) = s}
<1>3. 0 \in G
    <2>1. a(m) \in Nat /\ m + 0 = m
        BY <1>1
    <2> QED
        BY <2>1
<1>4. ASSUME NEW d \in 1 .. n - m, d - 1 \in G PROVE d \in G
    <2> DEFINE e == m + (d - 1)
    <2>1. e \in Nat /\ e + 1 = m + d /\ m + d \in Nat /\ d \in Nat /\ d - 1 \in Nat
        OBVIOUS
    <2>2. a(m) \in Nat /\ a(e) \in Nat /\ a(m + d) \in Nat
          /\ a(m + d) = a(e) + (IF c(m + d) THEN 1 ELSE 0)
        BY <1>1, <2>1
    <2>3. /\ a(m) <= a(e) /\ a(e) <= a(m) + (d - 1)
          /\ (\A k \in m + 1 .. e : ~c(k)) => a(e) = a(m)
          /\ \A s \in a(m) + 1 .. a(e) : \E k \in m + 1 .. e : c(k) /\ a(k) = s
        BY <1>4
    <2>4. m + d \in m + 1 .. m + d /\ \A k \in m + 1 .. e : k \in m + 1 .. m + d
        BY <2>1
    <2> HIDE DEF e
    <2>5. a(m) <= a(m + d) /\ a(m + d) <= a(m) + d
        BY <2>1, <2>2, <2>3
    <2>6. (\A k \in m + 1 .. m + d : ~c(k)) => a(m + d) = a(m)
        BY <2>2, <2>3, <2>4
    <2>7. ASSUME NEW s \in a(m) + 1 .. a(m + d)
          PROVE  \E k \in m + 1 .. m + d : c(k) /\ a(k) = s
        <3>1. CASE s \in a(m) + 1 .. a(e)
            BY <2>3, <2>4, <3>1
        <3>2. CASE s \notin a(m) + 1 .. a(e)
            <4>1. c(m + d) /\ s = a(m + d)
                BY <2>2, <3>2
            <4> QED
                BY <2>4, <4>1
        <3> QED
            BY <3>1, <3>2
    <2> QED
        BY <2>1, <2>5, <2>6, <2>7
<1>5. \A d \in 0 .. n - m : d \in G
    <2>1. n - m \in Nat
        OBVIOUS
    <2> HIDE DEF G
    <2> QED
        BY <1>3, <1>4, <2>1, UpTo
<1>6. n - m \in 0 .. n - m /\ m + (n - m) = n
    OBVIOUS
<1>7. /\ a(m) <= a(n) /\ a(n) <= a(m) + (n - m)
      /\ (\A k \in m + 1 .. n : ~c(k)) => a(n) = a(m)
      /\ \A s \in a(m) + 1 .. a(n) : \E k \in m + 1 .. n : c(k) /\ a(k) = s
    <2>1. n - m \in G
        BY <1>5, <1>6
    <2> QED
        BY <1>6, <2>1
<1>8. ASSUME NEW k \in m + 1 .. n, c(k) PROVE a(m) < a(k)
    <2>1. k - 1 \in Nat /\ (k - 1) + 1 = k /\ (k - 1) - m \in 0 .. n - m /\ m + ((k - 1) - m) = k - 1
        OBVIOUS
    <2>2. (k - 1) - m \in G
        BY <1>5, <2>1
    <2>3. a(m) <= a(k - 1)
        BY <2>1, <2>2
    <2>4. a(k) = a(k - 1) + 1 /\ a(k - 1) \in Nat /\ a(m) \in Nat
        BY <1>1, <1>8, <2>1
    <2> QED
        BY <2>3, <2>4
<1> QED
    BY <1>7, <1>8 DEF a, c

\* The latest of some numbers.
LEMMA LatestIs ==
    ASSUME NEW T, T \subseteq Nat, NEW k \in T, \A j \in T : j <= k
    PROVE  Latest(T) = k
<1>1. Latest(T) \in T /\ \A j \in T : j <= Latest(T)
    BY DEF Latest
<1>2. Latest(T) <= k /\ k <= Latest(T) /\ k \in Nat /\ Latest(T) \in Nat
    BY <1>1
<1> QED
    BY <1>2

\* The state is that after the latest turn; without one it stays.
LEMMA StateSteps ==
    ASSUME NEW h, NEW m \in Nat \ {0}, NEW n \in Nat, m <= n
    PROVE  /\ (\A k \in m + 1 .. n : h[k].kind = "committed") => StateIn(h, n) = StateIn(h, m)
           /\ \A k \in 1 .. n : h[k].kind # "committed" /\ (\A j \in k + 1 .. n : h[j].kind = "committed")
                => StateIn(h, n) = StateAfter(h[k].kind)
<1>1. ASSUME \A k \in m + 1 .. n : h[k].kind = "committed"
      PROVE  StateIn(h, n) = StateIn(h, m)
    <2>1. TurnsIn(h, n) = TurnsIn(h, m)
        <3>1. \A k \in 1 .. n : k \in 1 .. m \/ k \in m + 1 .. n
            OBVIOUS
        <3>2. \A k \in 1 .. m : k \in 1 .. n
            OBVIOUS
        <3> QED
            BY <1>1, <3>1, <3>2 DEF TurnsIn
    <2> QED
        BY <2>1 DEF StateIn
<1>2. ASSUME NEW k \in 1 .. n, h[k].kind # "committed", \A j \in k + 1 .. n : h[j].kind = "committed"
      PROVE  StateIn(h, n) = StateAfter(h[k].kind)
    <2>1. k \in TurnsIn(h, n) /\ TurnsIn(h, n) \subseteq Nat
        BY <1>2 DEF TurnsIn
    <2>2. ASSUME NEW j \in TurnsIn(h, n) PROVE j <= k
        <3>1. j \in 1 .. n /\ h[j].kind # "committed"
            BY DEF TurnsIn
        <3>2. j \notin k + 1 .. n
            BY <1>2, <3>1
        <3> QED
            BY <3>1, <3>2
    <2>3. Latest(TurnsIn(h, n)) = k
        BY <2>1, <2>2, LatestIs
    <2> QED
        BY <2>3 DEF StateIn
<1> QED
    BY <1>1, <1>2

-----------------------------------------------------------------------------
(* What a replay shows and reports.                                         *)

CommitsOf(c, acts, k) == {j \in acts : j <= k /\ remote[c][j].kind = "committed"}
TurnsOf(c, acts, k) == {j \in acts : j <= k /\ remote[c][j].kind # "committed"}

\* The view after the activities up to k, and the events of them.
ViewAfter(c, old, acts, k) ==
    [head |-> IF CommitsOf(c, acts, k) = {} THEN old.head
              ELSE ShaAt(c, Latest(CommitsOf(c, acts, k))),
     state |-> IF TurnsOf(c, acts, k) = {} THEN old.state
               ELSE StateAfter(remote[c][Latest(TurnsOf(c, acts, k))].kind)]
Unchanged(c, old, acts, k) ==
    provider = "gitlab" /\ ViewAfter(c, old, acts, k) = ViewAfter(c, old, acts, k - 1)
ActEvent(c, old, acts, read, k) ==
    Event(c, remote[c][k].kind, ViewAfter(c, old, acts, k - 1), ViewAfter(c, old, acts, k),
          IF k <= read THEN "activity" ELSE "detail", k)
ActEvents(c, old, acts, read, k) ==
    {ActEvent(c, old, acts, read, j) : j \in {i \in acts : i <= k /\ ~Unchanged(c, old, acts, i)}}

\* A replay, activity by activity: f[k] is what it has come to after those up to k.
Replays(f, c, old, acts, read) ==
    f = [k \in 0 .. Now(c) |->
            IF k = 0 THEN [view |-> old, events |-> {}]
            ELSE IF k \in acts
                 THEN LET after == Applied(c, f[k - 1].view, k)
                          e == Event(c, remote[c][k].kind, f[k - 1].view, after,
                                     IF k <= read THEN "activity" ELSE "detail", k)
                      IN  IF provider = "gitlab" /\ after = f[k - 1].view THEN f[k - 1]
                          ELSE [view |-> after, events |-> f[k - 1].events \union {e}]
                 ELSE f[k - 1]]

\* The view after some of the activities, one more at a time.
LEMMA ViewSteps ==
    ASSUME NEW c, Now(c) \in Nat, NEW acts \in SUBSET (1 .. Now(c)),
           NEW old, old = [head |-> old.head, state |-> old.state], NEW k \in 1 .. Now(c)
    PROVE  /\ k \notin acts => ViewAfter(c, old, acts, k) = ViewAfter(c, old, acts, k - 1)
           /\ k \in acts => ViewAfter(c, old, acts, k) = Applied(c, ViewAfter(c, old, acts, k - 1), k)
           /\ ViewAfter(c, old, acts, 0) = old
<1> DEFINE C(i) == CommitsOf(c, acts, i)
           T(i) == TurnsOf(c, acts, i)
<1>1. C(0) = {} /\ T(0) = {}
  <2>1. \A j \in acts : ~(j <= 0)
    OBVIOUS
  <2> QED
    BY <2>1, Zenon DEF CommitsOf, TurnsOf
<1>2. \A j \in acts : j <= k <=> j <= k - 1 \/ j = k
    OBVIOUS
<1>3. k \notin acts => C(k) = C(k - 1) /\ T(k) = T(k - 1)
    BY <1>2 DEF CommitsOf, TurnsOf
<1>4. k \in acts /\ remote[c][k].kind = "committed" => k \in C(k) /\ T(k) = T(k - 1)
    BY <1>2 DEF CommitsOf, TurnsOf
<1>5. k \in acts /\ remote[c][k].kind # "committed" => C(k) = C(k - 1) /\ k \in T(k)
    BY <1>2 DEF CommitsOf, TurnsOf
<1>6. /\ C(k) \subseteq Nat /\ T(k) \subseteq Nat
      /\ (\A j \in C(k) : j <= k) /\ (\A j \in T(k) : j <= k)
  <2>1. \A j \in acts : j \in Nat
    OBVIOUS
  <2> QED
    BY <2>1, Zenon DEF CommitsOf, TurnsOf
<1>7. \A i : ViewAfter(c, old, acts, i) =
        [head |-> IF C(i) = {} THEN old.head ELSE ShaAt(c, Latest(C(i))),
         state |-> IF T(i) = {} THEN old.state ELSE StateAfter(remote[c][Latest(T(i))].kind)]
    BY DEF ViewAfter
<1> HIDE DEF C, T
<1>8. k \in C(k) => Latest(C(k)) = k
    BY <1>6, LatestIs
<1>9. k \in T(k) => Latest(T(k)) = k
    BY <1>6, LatestIs
<1>10. CASE k \notin acts
    BY <1>1, <1>3, <1>7, <1>10
<1>11. CASE k \in acts /\ remote[c][k].kind = "committed"
    <2>1. k \in C(k) /\ T(k) = T(k - 1) /\ Latest(C(k)) = k
        BY <1>4, <1>8, <1>11
    <2> QED
        BY <1>1, <1>7, <1>11, <2>1 DEF Applied
<1>12. CASE k \in acts /\ remote[c][k].kind # "committed"
    <2>1. k \in T(k) /\ C(k) = C(k - 1) /\ Latest(T(k)) = k
        BY <1>5, <1>9, <1>12
    <2> QED
        BY <1>1, <1>7, <1>12, <2>1 DEF Applied
<1> QED
    BY <1>10, <1>11, <1>12

\* The events of some of the activities, one more at a time.
LEMMA ActEventsSteps ==
    ASSUME NEW c, Now(c) \in Nat, NEW acts \in SUBSET (1 .. Now(c)), NEW old, NEW read, NEW k \in 1 .. Now(c)
    PROVE  /\ ActEvents(c, old, acts, read, 0) = {}
           /\ k \notin acts \/ Unchanged(c, old, acts, k) =>
                ActEvents(c, old, acts, read, k) = ActEvents(c, old, acts, read, k - 1)
           /\ k \in acts /\ ~Unchanged(c, old, acts, k) =>
                ActEvents(c, old, acts, read, k) =
                    ActEvents(c, old, acts, read, k - 1) \union {ActEvent(c, old, acts, read, k)}
<1> DEFINE D(i) == {j \in acts : j <= i /\ ~Unchanged(c, old, acts, j)}
<1>1. D(0) = {}
    <2>1. \A j \in acts : ~(j <= 0)
        OBVIOUS
    <2> QED
        BY <2>1, Zenon
<1>2. \A j \in acts : j <= k <=> j <= k - 1 \/ j = k
    OBVIOUS
<1>3. k \notin acts \/ Unchanged(c, old, acts, k) => D(k) = D(k - 1)
    BY <1>2
<1>4. k \in acts /\ ~Unchanged(c, old, acts, k) => D(k) = D(k - 1) \cup {k}
    BY <1>2
<1>5. \A i : ActEvents(c, old, acts, read, i) = {ActEvent(c, old, acts, read, j) : j \in D(i)}
    BY DEF ActEvents
<1> HIDE DEF D
<1> QED
    BY <1>1, <1>3, <1>4, <1>5

\* The recursion comes to that.
LEMMA ReplayIs ==
    ASSUME NEW c, Now(c) \in Nat, NEW acts \in SUBSET (1 .. Now(c)), NEW read, NEW new, NEW at,
           NEW H, NEW S, NEW old \in [head : H, state : S]
    PROVE  Replay(c, old, new, acts, read, at) =
             ActEvents(c, old, acts, read, Now(c))
                 \union Differences(c, ViewAfter(c, old, acts, Now(c)), new, at)
<1>a. old = [head |-> old.head, state |-> old.state]
    OBVIOUS
<1>0. ASSUME NEW k \in 1 .. Now(c)
      PROVE  /\ k \notin acts => ViewAfter(c, old, acts, k) = ViewAfter(c, old, acts, k - 1)
             /\ k \in acts => ViewAfter(c, old, acts, k) = Applied(c, ViewAfter(c, old, acts, k - 1), k)
    BY <1>a, ViewSteps
<1> DEFINE V(k) == ViewAfter(c, old, acts, k)
           E(k) == ActEvents(c, old, acts, read, k)
           W(k) == [view |-> V(k), events |-> E(k)]
           w == [k \in 0 .. Now(c) |-> W(k)]
           g == CHOOSE f : Replays(f, c, old, acts, read)
           Via(k) == IF k <= read THEN "activity" ELSE "detail"
<1>1. /\ \A k \in 1 .. Now(c) : k \notin acts => V(k) = V(k - 1)
      /\ \A k \in 1 .. Now(c) : k \in acts => V(k) = Applied(c, V(k - 1), k)
    BY <1>0, Zenon
<1>2. W(0) = [view |-> old, events |-> {}]
    <2>1. CommitsOf(c, acts, 0) = {} /\ TurnsOf(c, acts, 0) = {}
        <3>1. \A j \in acts : ~(j <= 0)
            OBVIOUS
        <3> QED
            BY <3>1, Zenon DEF CommitsOf, TurnsOf
    <2>2. V(0) = old
        BY <2>1 DEF ViewAfter
    <2>3. E(0) = {}
        BY DEF ActEvents
    <2> QED
        BY <2>2, <2>3
<1>3. /\ \A k \in 1 .. Now(c) : k \notin acts \/ (provider = "gitlab" /\ V(k) = V(k - 1)) => E(k) = E(k - 1)
      /\ \A k \in 1 .. Now(c) : k \in acts /\ ~(provider = "gitlab" /\ V(k) = V(k - 1)) =>
            E(k) = E(k - 1) \union {Event(c, remote[c][k].kind, V(k - 1), V(k), Via(k), k)}
    BY ActEventsSteps DEF Unchanged, ActEvent
<1> HIDE DEF V, E
<1>4. ASSUME NEW k \in 1 .. Now(c)
      PROVE  W(k) = IF k \in acts
                    THEN LET after == Applied(c, W(k - 1).view, k)
                             e == Event(c, remote[c][k].kind, W(k - 1).view, after, Via(k), k)
                         IN  IF provider = "gitlab" /\ after = W(k - 1).view THEN W(k - 1)
                             ELSE [view |-> after, events |-> W(k - 1).events \union {e}]
                    ELSE W(k - 1)
    BY <1>1, <1>3
<1> HIDE DEF W
<1>5. Replays(w, c, old, acts, read)
    <2>1. \A k \in 1 .. Now(c) : k - 1 \in 0 .. Now(c) /\ k \in 0 .. Now(c) /\ k # 0
        OBVIOUS
    <2>2. \A k \in 0 .. Now(c) : w[k] = W(k)
        OBVIOUS
    <2>3. \A k \in 0 .. Now(c) : k = 0 \/ k \in 1 .. Now(c)
        OBVIOUS
    <2>4. ASSUME NEW k \in 0 .. Now(c)
          PROVE  W(k) = IF k = 0 THEN [view |-> old, events |-> {}]
            ELSE IF k \in acts
                 THEN LET after == Applied(c, w[k - 1].view, k)
                          e == Event(c, remote[c][k].kind, w[k - 1].view, after,
                                     IF k <= read THEN "activity" ELSE "detail", k)
                      IN  IF provider = "gitlab" /\ after = w[k - 1].view THEN w[k - 1]
                          ELSE [view |-> after, events |-> w[k - 1].events \union {e}]
                 ELSE w[k - 1]
        <3>1. CASE k = 0
            BY <1>2, <3>1
        <3>2. CASE k \in 1 .. Now(c)
            <4>1. w[k - 1] = W(k - 1) /\ k # 0
                BY <2>1, <2>2, <3>2
            <4> HIDE DEF w
            <4> QED
                BY <1>4, <3>2, <4>1
        <3> QED
            BY <2>3, <3>1, <3>2
    <2> QED
        BY <2>4, Zenon DEF Replays
<1>6. Replays(g, c, old, acts, read)
    BY <1>5, Zenon
<1>7. Replay(c, old, new, acts, read, at) =
        g[Now(c)].events \union Differences(c, g[Now(c)].view, new, at)
    BY Zenon DEF Replay, Replays
<1> HIDE DEF w, g
<1> DEFINE G == {k \in 0 .. Now(c) : g[k] = W(k)}
<1>8. 0 \in G
    BY <1>2, <1>6 DEF Replays
<1>9. ASSUME NEW k \in 1 .. Now(c), k - 1 \in G PROVE k \in G
    <2>1. k \in 0 .. Now(c) /\ k # 0 /\ g[k - 1] = W(k - 1)
        BY <1>9
    <2>2. g[k] = IF k \in acts
                 THEN LET after == Applied(c, g[k - 1].view, k)
                          e == Event(c, remote[c][k].kind, g[k - 1].view, after,
                                     IF k <= read THEN "activity" ELSE "detail", k)
                      IN  IF provider = "gitlab" /\ after = g[k - 1].view THEN g[k - 1]
                          ELSE [view |-> after, events |-> g[k - 1].events \union {e}]
                 ELSE g[k - 1]
        BY <1>6, <2>1 DEF Replays
    <2>3. g[k] = W(k)
        BY <1>4, <2>1, <2>2
    <2> QED
        BY <2>1, <2>3
<1>10. Now(c) \in G
    <2>1. Now(c) \in 0 .. Now(c)
        OBVIOUS
    <2> HIDE DEF G
    <2> QED
        BY <1>8, <1>9, <2>1, UpTo
<1> QED
    BY <1>7, <1>10 DEF W, V, E

-----------------------------------------------------------------------------
(* What a look, an event and a difference hold.                             *)

\* What is reported of activities, what a snapshot keeps, and the turn that leads to a state.
Reports == {"committed", "closed", "reopened"}
Looks == [head : Shas, state : States]
Toward(state) == IF state = "closed" THEN "closed" ELSE "reopened"

\* What an event keeps of a view.
LEMMA FieldIs ==
    ASSUME NEW H, NEW S, NEW view \in [head : H, state : S]
    PROVE  /\ Field("committed", view) = [head |-> view.head, state |-> "any"]
           /\ \A type \in {"closed", "reopened"} :
                Field(type, view) = [head |-> NoHead, state |-> view.state]
BY DEF Field

\* The differences of two views: one of the state and one of the head.
LEMMA DifferencesAre ==
    ASSUME NEW c, NEW H, NEW S, NEW old \in [head : H, state : S], NEW new \in [head : H, state : S], NEW at
    PROVE  Differences(c, old, new, at) =
             (IF old.state # new.state THEN {Event(c, Toward(new.state), old, new, "diff", at)} ELSE {})
             \union (IF old.head # new.head THEN {Event(c, "committed", old, new, "diff", at)} ELSE {})
<1> DEFINE type == IF new.state = "closed" THEN "closed" ELSE "reopened"
           Of(t) == Event(c, t, old, new, "diff", at)
<1>1. Differences(c, old, new, at) =
        {Of(t) : t \in (IF old.state # new.state THEN {type} ELSE {})
                       \union (IF old.head # new.head THEN {"committed"} ELSE {})}
    BY Zenon DEF Differences
<1>2. type = Toward(new.state)
    BY DEF Toward
<1> HIDE DEF Of, type
<1>3. Differences(c, old, new, at) =
             (IF old.state # new.state THEN {Of(type)} ELSE {})
             \union (IF old.head # new.head THEN {Of("committed")} ELSE {})
    BY <1>1
<1> QED
    BY <1>2, <1>3 DEF Of

\* A look at a history of one activity at least.
LEMMA ViewOk ==
    ASSUME Types, NEW c \in CRs, Now(c) <= MaxActs, NEW n \in 1 .. Now(c)
    PROVE  /\ View(c, n) \in Looks
           /\ View(c, n).head = Sha(remote[c], n) /\ View(c, n).state = StateIn(remote[c], n)
<1>1. Now(c) \in Nat /\ n \in Nat /\ MaxActs \in Nat
    BY ScanAssumption DEF Types, PlatformType, Now
<1>2. /\ Sha(remote[c], 0) = 0 /\ Sha(remote[c], 0) <= Sha(remote[c], n)
      /\ Sha(remote[c], n) <= Sha(remote[c], 0) + (n - 0)
    BY <1>1, ShaSteps, ShaBetween
<1>3. Sha(remote[c], n) \in Nat
    BY <1>1, ShaSteps
<1>4. Sha(remote[c], n) \in Shas
    BY <1>1, <1>2, <1>3 DEF Shas, NoHead
<1>5. ShaAt(c, n) = Sha(remote[c], n)
    BY Zenon DEF Sha, ShaAt
<1>6. StateIn(remote[c], n) \in States
    BY DEF StateIn, StateAfter, States
<1> QED
    BY <1>4, <1>5, <1>6, StateIsIn DEF View, Looks

\* The views of a replay are looks.
LEMMA ViewAfterOk ==
    ASSUME Types, NEW c \in CRs, Now(c) <= MaxActs, NEW acts \in SUBSET (1 .. Now(c)),
           NEW old \in Looks, NEW k \in Nat
    PROVE  ViewAfter(c, old, acts, k) \in Looks
<1>1. Now(c) \in Nat /\ MaxActs \in Nat
    BY ScanAssumption DEF Types, PlatformType, Now
<1>2. ASSUME CommitsOf(c, acts, k) # {}
      PROVE  ShaAt(c, Latest(CommitsOf(c, acts, k))) \in Shas
    <2>1. CommitsOf(c, acts, k) \in SUBSET (1 .. Now(c))
        BY DEF CommitsOf
    <2>2. \E j \in CommitsOf(c, acts, k) : \A i \in CommitsOf(c, acts, k) : i <= j
        BY <1>1, <1>2, <2>1, Largest
    <2>3. Latest(CommitsOf(c, acts, k)) \in CommitsOf(c, acts, k)
        BY <2>2, Zenon DEF Latest
    <2> DEFINE n == Latest(CommitsOf(c, acts, k))
    <2>4. n \in 1 .. Now(c)
        BY <2>1, <2>3
    <2> HIDE DEF n
    <2>5. View(c, n).head \in Shas
        BY <2>4, ViewOk DEF Looks
    <2> QED
        BY <2>5 DEF n, View
<1>3. old.head \in Shas /\ old.state \in States /\ \A kind : StateAfter(kind) \in States
    BY DEF Looks, StateAfter, States
<1> QED
    BY <1>2, <1>3 DEF ViewAfter, Looks

\* The events of a replay: those of activities that are not skipped, and differences.
LEMMA ReplayHas ==
    ASSUME Types, NEW c \in CRs, Now(c) <= MaxActs, NEW acts \in SUBSET (1 .. Now(c)), NEW read,
           NEW old \in Looks, NEW new, NEW at
    PROVE  LET R == Replay(c, old, new, acts, read, at)
               last == ViewAfter(c, old, acts, Now(c))
           IN  /\ \A e \in R : \/ \E k \in acts : e = ActEvent(c, old, acts, read, k)
                               \/ e \in Differences(c, last, new, at)
               /\ \A k \in acts : ~Unchanged(c, old, acts, k) => ActEvent(c, old, acts, read, k) \in R
               /\ Differences(c, last, new, at) \subseteq R
<1>1. Now(c) \in Nat
    BY DEF Types, PlatformType, Now
<1>2. Replay(c, old, new, acts, read, at) =
             ActEvents(c, old, acts, read, Now(c))
                 \union Differences(c, ViewAfter(c, old, acts, Now(c)), new, at)
    <2>1. old \in [head : Shas, state : States]
        BY DEF Looks
    <2> QED
        BY <1>1, <2>1, ReplayIs
<1>3. ActEvents(c, old, acts, read, Now(c)) =
        {ActEvent(c, old, acts, read, j) : j \in {i \in acts : ~Unchanged(c, old, acts, i)}}
    <2>1. \A i \in acts : i <= Now(c)
        BY <1>1
    <2>2. {i \in acts : i <= Now(c) /\ ~Unchanged(c, old, acts, i)} =
            {i \in acts : ~Unchanged(c, old, acts, i)}
        BY <2>1
    <2> QED
        BY <2>2 DEF ActEvents
<1> DEFINE E == ActEvents(c, old, acts, read, Now(c))
           D == Differences(c, ViewAfter(c, old, acts, Now(c)), new, at)
<1>4. /\ \A e \in E : \E k \in acts : e = ActEvent(c, old, acts, read, k)
      /\ \A k \in acts : ~Unchanged(c, old, acts, k) => ActEvent(c, old, acts, read, k) \in E
    BY <1>3, Zenon
<1> HIDE DEF E, D
<1>5. Replay(c, old, new, acts, read, at) = E \union D
    BY <1>2, Zenon DEF E, D
<1>6. /\ \A e \in E \union D : (\E k \in acts : e = ActEvent(c, old, acts, read, k)) \/ e \in D
      /\ \A k \in acts : ~Unchanged(c, old, acts, k) => ActEvent(c, old, acts, read, k) \in E \union D
      /\ D \subseteq E \union D
    BY <1>4
<1> QED
    BY <1>5, <1>6, Zenon DEF D

-----------------------------------------------------------------------------
(* The heads that a replay reports.                                         *)

\* An event keeps one field of a look.
LEMMA FieldOk ==
    ASSUME NEW view \in Looks, NEW type \in Reports
    PROVE  /\ Field(type, view) \in Views
           /\ type = "committed" => Field(type, view) = [head |-> view.head, state |-> "any"]
<1>1. view \in [head : Shas, state : States] /\ view.head \in Shas /\ view.state \in States
    BY DEF Looks
<1>2. /\ Field("committed", view) = [head |-> view.head, state |-> "any"]
      /\ \A t \in {"closed", "reopened"} : Field(t, view) = [head |-> NoHead, state |-> view.state]
    BY <1>1, FieldIs
<1>3. NoHead \in Shas
    BY ScanAssumption DEF Shas, NoHead
<1>4. CASE type = "committed"
    BY <1>1, <1>2, <1>4 DEF Views
<1>5. CASE type # "committed"
    <2>1. Field(type, view) = [head |-> NoHead, state |-> view.state]
        BY <1>2, <1>5 DEF Reports
    <2> QED
        BY <1>1, <1>3, <1>5, <2>1 DEF Views
<1> QED
    BY <1>4, <1>5

\* The event of an activity.
LEMMA ActEventIs ==
    ASSUME Types, NEW c \in CRs, Now(c) <= MaxActs, NEW acts \in SUBSET (1 .. Now(c)), NEW read,
           NEW old \in Looks, NEW k \in acts, remote[c][k].kind \in Reports
    PROVE  LET e == ActEvent(c, old, acts, read, k)
           IN  /\ e \in EventType /\ e.cr = c /\ e.type = remote[c][k].kind /\ e.key = k
               /\ e.via = (IF k <= read THEN "activity" ELSE "detail")
               /\ e.type = "committed" => e.new = [head |-> Sha(remote[c], k), state |-> "any"]
<1> DEFINE kind == remote[c][k].kind
           u == ViewAfter(c, old, acts, k - 1)
           v == ViewAfter(c, old, acts, k)
           via == IF k <= read THEN "activity" ELSE "detail"
<1>1. Now(c) \in Nat /\ k \in Nat /\ k - 1 \in Nat /\ k \in 1 .. Now(c) /\ kind \in Reports
    BY DEF Types, PlatformType, Now
<1>2. u \in Looks /\ v \in Looks
    BY <1>1, ViewAfterOk
<1>3. kind = "committed" => v.head = Sha(remote[c], k)
    <2>1. ASSUME kind = "committed" PROVE v = [u EXCEPT !.head = ShaAt(c, k)]
        <3>1. old = [head |-> old.head, state |-> old.state]
            BY DEF Looks
        <3>2. v = Applied(c, u, k)
            BY <1>1, <3>1, ViewSteps
        <3> QED
            BY <2>1, <3>2 DEF Applied
    <2>2. ShaAt(c, k) = Sha(remote[c], k)
        BY Zenon DEF Sha, ShaAt
    <2> QED
        BY <1>2, <2>1, <2>2 DEF Looks
<1>4. ActEvent(c, old, acts, read, k) = Event(c, kind, u, v, via, k)
    BY DEF ActEvent
<1> HIDE DEF u, v
<1>5. /\ Field(kind, u) \in Views /\ Field(kind, v) \in Views
      /\ kind = "committed" => Field(kind, v) = [head |-> v.head, state |-> "any"]
    BY <1>1, <1>2, FieldOk
<1> HIDE DEF kind
<1>6. via \in {"activity", "detail"}
    OBVIOUS
<1> HIDE DEF via
<1>7. Event(c, kind, u, v, via, k) \in EventType
    BY <1>1, <1>5, <1>6 DEF Event, EventType, Reports
<1> QED
    BY <1>1, <1>3, <1>4, <1>5, <1>7 DEF Event, kind, via

\* The events of a difference.
LEMMA DifferenceIs ==
    ASSUME NEW c \in CRs, NEW old \in Looks, NEW new \in Looks, NEW at \in Int
    PROVE  LET D == Differences(c, old, new, at)
           IN  /\ \A e \in D :
                    /\ e \in EventType /\ e.cr = c /\ e.via = "diff" /\ e.key = at
                    /\ \/ /\ e.type = "committed" /\ old.head # new.head
                          /\ e = Event(c, "committed", old, new, "diff", at)
                          /\ e.new = [head |-> new.head, state |-> "any"]
                       \/ e.type = Toward(new.state) /\ old.state # new.state
               /\ old.state # new.state =>
                    \E e \in D : e.cr = c /\ e.type = Toward(new.state) /\ e.via = "diff" /\ e.key = at
               /\ old.head # new.head => Event(c, "committed", old, new, "diff", at) \in D
<1> DEFINE D == Differences(c, old, new, at)
           turn == Event(c, Toward(new.state), old, new, "diff", at)
           commit == Event(c, "committed", old, new, "diff", at)
<1>1. D = (IF old.state # new.state THEN {turn} ELSE {})
          \union (IF old.head # new.head THEN {commit} ELSE {})
    BY DifferencesAre DEF Looks
<1>2. \A type \in Reports : /\ Field(type, old) \in Views /\ Field(type, new) \in Views
                            /\ type = "committed" => Field(type, new) = [head |-> new.head, state |-> "any"]
    BY FieldOk
<1>3. Toward(new.state) \in {"closed", "reopened"}
    BY DEF Toward
<1>4. /\ turn \in EventType /\ turn.cr = c /\ turn.type = Toward(new.state)
      /\ turn.via = "diff" /\ turn.key = at
      /\ commit \in EventType /\ commit.cr = c /\ commit.type = "committed"
      /\ commit.via = "diff" /\ commit.key = at
      /\ commit.new = [head |-> new.head, state |-> "any"]
    BY <1>2, <1>3 DEF Event, EventType, Reports
<1> HIDE DEF D, turn, commit
<1> QED
    BY <1>1, <1>4 DEF D, commit

\* What a replay must be given for its heads to come out new, one by one: the commits lie
\* between a head and that of the snapshot, the last of them is there, and without any
\* the replay begins at one of the two.
HeadsFit(c, old, acts, low, s) ==
    LET commits == {k \in acts : remote[c][k].kind = "committed"}
        top == Sha(remote[c], s)
    IN  /\ \A k \in commits : /\ low < Sha(remote[c], k) /\ Sha(remote[c], k) <= top
                              /\ old.head < Sha(remote[c], k)
        /\ commits # {} => \E k \in commits : Sha(remote[c], k) = top
        /\ commits = {} => old.head = top \/ (old.head = low /\ low <= top)

\* A later commit has a larger number.
LEMMA ShaLater ==
    ASSUME NEW h, NEW j \in Nat, NEW k \in Nat, j < k, h[k].kind = "committed"
    PROVE  Sha(h, j) < Sha(h, k)
<1>1. k \in j + 1 .. k /\ j <= k
    OBVIOUS
<1> QED
    BY <1>1, ShaBetween

\* Such a replay reports each of its commits, each by its number and no number twice.
LEMMA HeadsReported ==
    ASSUME Types, NEW c \in CRs, Now(c) <= MaxActs, NEW acts \in SUBSET (1 .. Now(c)), NEW read,
           NEW old \in Looks, NEW s \in 1 .. Now(c), NEW low \in Nat, NEW at \in Int,
           \A k \in acts : remote[c][k].kind \in Reports, HeadsFit(c, old, acts, low, s)
    PROVE  LET R == Replay(c, old, View(c, s), acts, read, at)
               h == remote[c]
           IN  /\ \A e \in R : e.type = "committed" =>
                    /\ e.new.head \in low + 1 .. Sha(h, s)
                    /\ e.via # "diff" => e.key \in 1 .. Now(c) /\ e.new.head = Sha(h, e.key)
               /\ \A e, f \in R : e.type = "committed" /\ f.type = "committed" /\ e.new = f.new => e = f
               /\ \A k \in acts : h[k].kind = "committed" =>
                    \E e \in R : e.cr = c /\ e.type = "committed" /\ e.via # "diff" /\ e.key = k
<1> DEFINE h == remote[c]
           new == View(c, s)
           last == ViewAfter(c, old, acts, Now(c))
           R == Replay(c, old, new, acts, read, at)
           A(k) == ActEvent(c, old, acts, read, k)
           D == Differences(c, last, new, at)
           commits == {k \in acts : h[k].kind = "committed"}
           top == Sha(h, s)
<1>1. Now(c) \in Nat /\ \A k \in acts : k \in Nat /\ k - 1 \in Nat /\ k \in 1 .. Now(c)
    BY DEF Types, PlatformType, Now
<1>2. new \in Looks /\ new.head = top /\ last \in Looks
    BY <1>1, ViewOk, ViewAfterOk
<1>3. top \in Nat /\ \A k \in acts : Sha(h, k) \in Nat
    <2>1. \A n \in Nat : Sha(h, n) \in Nat
        BY ShaSteps
    <2>2. s \in Nat
        BY <1>1
    <2> HIDE DEF h
    <2> QED
        BY <1>1, <2>1, <2>2
<1>4. old.head \in Int
    BY DEF Looks, Shas, NoHead
<1>5. /\ \A k \in commits : low < Sha(h, k) /\ Sha(h, k) <= top /\ old.head < Sha(h, k)
      /\ commits # {} => \E k \in commits : Sha(h, k) = top
      /\ commits = {} => old.head = top \/ (old.head = low /\ low <= top)
    BY Zenon DEF HeadsFit
<1>6. ASSUME NEW k \in acts
      PROVE  /\ A(k).cr = c /\ A(k).type = h[k].kind /\ A(k).key = k /\ A(k).via # "diff"
             /\ h[k].kind = "committed" => A(k).new = [head |-> Sha(h, k), state |-> "any"]
    <2>1. h[k].kind \in Reports
        OBVIOUS
    <2>2. /\ A(k).cr = c /\ A(k).type = h[k].kind /\ A(k).key = k
          /\ A(k).via = (IF k <= read THEN "activity" ELSE "detail")
          /\ A(k).type = "committed" => A(k).new = [head |-> Sha(h, k), state |-> "any"]
        BY <2>1, ActEventIs
    <2> HIDE DEF A, h
    <2> QED
        BY <2>2
<1>7. /\ \A e \in R : (\E k \in acts : e = A(k)) \/ e \in D
      /\ \A k \in acts : ~Unchanged(c, old, acts, k) => A(k) \in R
    BY ReplayHas
<1>8. ASSUME NEW e \in D, e.type = "committed"
      PROVE  e = Event(c, "committed", last, new, "diff", at) /\ e.via = "diff" /\ last.head # top
             /\ e.new = [head |-> top, state |-> "any"]
    <2>1. Toward(new.state) # "committed"
        BY DEF Toward
    <2> HIDE DEF last, new
    <2> QED
        BY <1>2, <1>8, <2>1, DifferenceIs
<1>a. CommitsOf(c, acts, Now(c)) = commits
    <2>1. \A j \in acts : j <= Now(c)
        BY <1>1
    <2> QED
        BY <2>1 DEF CommitsOf
\* The head that the replay comes to.
<1>9. commits # {} => last.head = top
    <2> SUFFICES ASSUME commits # {} PROVE last.head = top
        OBVIOUS
    <2>1. PICK k \in commits : Sha(h, k) = top
        BY <1>5
    <2>3. ASSUME NEW j \in commits PROVE j <= k
        <3>1. j \in Nat /\ k \in Nat /\ Sha(h, j) \in Nat /\ Sha(h, j) <= Sha(h, k) /\ h[j].kind = "committed"
            BY <1>1, <1>3, <1>5, <2>1
        <3>2. k < j => Sha(h, k) < Sha(h, j)
            BY <3>1, ShaLater
        <3> QED
            BY <1>3, <3>1, <3>2
    <2>4. Latest(commits) = k
        <3>1. commits \subseteq Nat
            BY <1>1
        <3> HIDE DEF commits
        <3> QED
            BY <2>1, <2>3, <3>1, LatestIs
    <2>5. last.head = ShaAt(c, Latest(commits))
        BY <1>a DEF ViewAfter
    <2>6. ShaAt(c, k) = Sha(h, k)
        BY Zenon DEF Sha, ShaAt
    <2> QED
        BY <2>1, <2>4, <2>5, <2>6
<1>10. commits = {} => last.head = old.head
    BY <1>a DEF ViewAfter
<1> HIDE DEF h, new, last, R, A, D, commits, top
\* No commit is skipped.
<1>11. ASSUME NEW k \in commits PROVE k \in acts /\ A(k) \in R /\ A(k).type = "committed"
    <2>1. k \in acts /\ h[k].kind = "committed"
        BY DEF commits
    <2>2. ViewAfter(c, old, acts, k).head = Sha(h, k)
        <3>1. old \in [head : Shas, state : States] /\ ViewAfter(c, old, acts, k - 1) \in Looks
            BY <1>1, <2>1, ViewAfterOk DEF Looks
        <3>2. ViewAfter(c, old, acts, k) = Applied(c, ViewAfter(c, old, acts, k - 1), k)
            BY <1>1, <2>1, <3>1, ViewSteps
        <3>3. ShaAt(c, k) = Sha(h, k)
            BY Zenon DEF Sha, ShaAt, h
        <3> QED
            BY <2>1, <3>1, <3>2, <3>3 DEF Applied, h, Looks
    <2>3. ViewAfter(c, old, acts, k - 1).head # Sha(h, k)
        <3> DEFINE C == CommitsOf(c, acts, k - 1)
        <3>1. CASE C = {}
            <4>1. ViewAfter(c, old, acts, k - 1).head = old.head
                BY <3>1 DEF ViewAfter
            <4> QED
                BY <1>3, <1>4, <1>5, <2>1, <4>1
        <3>2. CASE C # {}
            <4>1. C \in SUBSET (1 .. Now(c)) /\ \A j \in C : j \in acts /\ j <= k - 1
                BY DEF CommitsOf
            <4>2. \E j \in C : \A i \in C : i <= j
                BY <1>1, <3>2, <4>1, Largest
            <4>3. Latest(C) \in C
                BY <4>2, Zenon DEF Latest
            <4> DEFINE j == Latest(C)
            <4>4. ViewAfter(c, old, acts, k - 1).head = Sha(h, j)
                <5>1. ViewAfter(c, old, acts, k - 1).head = ShaAt(c, j)
                    BY <3>2 DEF ViewAfter
                <5> QED
                    BY <5>1, Zenon DEF Sha, ShaAt, h
            <4> HIDE DEF j, C
            <4>5. j \in acts /\ j <= k - 1
                BY <4>1, <4>3 DEF j
            <4>6. j \in Nat /\ k \in Nat /\ j < k
                BY <1>1, <2>1, <4>5
            <4>7. Sha(h, j) < Sha(h, k)
                BY <2>1, <4>6, ShaLater
            <4> QED
                BY <1>3, <2>1, <4>4, <4>5, <4>7
        <3> QED
            BY <3>1, <3>2
    <2>4. ~Unchanged(c, old, acts, k)
        BY <2>2, <2>3 DEF Unchanged
    <2> QED
        BY <1>6, <1>7, <2>1, <2>4
<1>12. ASSUME NEW e \in R, e.type = "committed"
       PROVE  \/ \E k \in commits : e = A(k)
              \/ /\ commits = {} /\ e = Event(c, "committed", last, new, "diff", at) /\ e.via = "diff"
                 /\ e.new = [head |-> top, state |-> "any"] /\ old.head # top
    <2>1. CASE e \in D
        BY <1>8, <1>9, <1>10, <1>12, <2>1
    <2>2. ASSUME NEW k \in acts, e = A(k) PROVE k \in commits
        BY <1>6, <1>12, <2>2 DEF commits
    <2> QED
        BY <1>7, <2>1, <2>2
<1>13. \A k \in commits : k \in acts /\ h[k].kind = "committed"
    BY DEF commits
<1>14. ASSUME NEW e \in R, e.type = "committed"
       PROVE  /\ e.new.head \in low + 1 .. top
              /\ e.via # "diff" => e.key \in 1 .. Now(c) /\ e.new.head = Sha(h, e.key)
    <2>1. ASSUME NEW k \in commits, e = A(k)
          PROVE  /\ e.new.head \in low + 1 .. top
                 /\ e.key \in 1 .. Now(c) /\ e.new.head = Sha(h, e.key)
        <3>1. k \in acts /\ k \in 1 .. Now(c) /\ h[k].kind = "committed"
            BY <1>1, <1>13
        <3>0. e.key = k /\ e.new = [head |-> Sha(h, k), state |-> "any"]
            BY <1>6, <2>1, <3>1
        <3>2. Sha(h, k) \in low + 1 .. top
            <4>1. Sha(h, k) \in Nat /\ low < Sha(h, k) /\ Sha(h, k) <= top
                BY <1>3, <1>5, <3>1
            <4> QED
                BY <1>3, <4>1
        <3> QED
            BY <3>0, <3>1, <3>2
    <2>2. CASE commits = {} /\ e.via = "diff" /\ e.new = [head |-> top, state |-> "any"] /\ old.head # top
        <3>1. low < top /\ e.new.head = top
            BY <1>3, <1>5, <2>2
        <3> QED
            BY <1>3, <2>2, <3>1
    <2> QED
        BY <1>12, <1>14, <2>1, <2>2
<1>15. ASSUME NEW e \in R, NEW f \in R, e.type = "committed", f.type = "committed", e.new = f.new
       PROVE  e = f
    <2>1. CASE commits = {}
        BY <1>12, <1>15, <2>1
    <2>2. ASSUME NEW i \in commits, NEW j \in commits, e = A(i), f = A(j) PROVE e = f
        <3>1. Sha(h, i) = Sha(h, j)
            <4>1. /\ e.new = [head |-> Sha(h, i), state |-> "any"]
                  /\ f.new = [head |-> Sha(h, j), state |-> "any"]
                BY <1>6, <1>13, <2>2
            <4>2. e.new.head = Sha(h, i) /\ f.new.head = Sha(h, j)
                BY <4>1
            <4> QED
                BY <1>15, <4>2, Zenon
        <3>2. i \in Nat /\ j \in Nat /\ h[i].kind = "committed" /\ h[j].kind = "committed"
            BY <1>1, <1>13
        <3>3. ~(i < j) /\ ~(j < i)
            BY <1>3, <1>13, <3>1, <3>2, ShaLater
        <3> QED
            BY <2>2, <3>2, <3>3
    <2> QED
        BY <1>12, <1>15, <2>1, <2>2
<1>16. ASSUME NEW k \in acts, h[k].kind = "committed"
       PROVE  \E e \in R : e.cr = c /\ e.type = "committed" /\ e.via # "diff" /\ e.key = k
    <2>1. k \in commits
        BY <1>16 DEF commits
    <2> QED
        BY <1>6, <1>11, <2>1
<1> QED
    BY <1>14, <1>15, <1>16, Zenon DEF R, h, top, new

-----------------------------------------------------------------------------
(* The turns that a replay reports.                                         *)

\* Activity k closes, reopens or creates its change request.
Turned(c, k) == remote[c][k].kind # "committed"

\* After its creation a change request is closed and reopened in turn.
Alternates(c) == \A k \in 2 .. Now(c) :
    /\ remote[c][k].kind \in Reports
    /\ Turned(c, k) => StateIn(remote[c], k - 1) # StateAfter(remote[c][k].kind)

\* The activities hold the turns after t up to q, and no others up to there.
TurnsFrom(c, acts, t, q) ==
    \A k \in 1 .. q : Turned(c, k) => (k \in acts <=> t < k)

\* Beyond q they hold the last close that the details up to d show, if any.
TurnsBeyond(c, acts, q, d) ==
    \A k \in acts : Turned(c, k) /\ q < k =>
        /\ k <= d /\ remote[c][k].kind = "closed"
        /\ StateIn(remote[c], d) = "closed"
        /\ \A j \in 1 .. d : remote[c][j].kind = "closed" => j <= k

\* The state a replay shows: that of the history once it has met a turn, or if it began so.
LEMMA ViewState ==
    ASSUME NEW c, Now(c) \in Nat, NEW acts \in SUBSET (1 .. Now(c)), NEW old,
           NEW t \in Nat \ {0}, NEW q \in Nat, NEW n \in Nat, t <= n, n <= q, q <= Now(c),
           TurnsFrom(c, acts, t, q)
    PROVE  /\ (\A j \in t + 1 .. n : ~Turned(c, j)) =>
                  /\ ViewAfter(c, old, acts, n).state = old.state
                  /\ StateIn(remote[c], n) = StateIn(remote[c], t)
           /\ (\E j \in t + 1 .. n : Turned(c, j)) \/ old.state = StateIn(remote[c], t) =>
                  ViewAfter(c, old, acts, n).state = StateIn(remote[c], n)
<1> DEFINE T == TurnsOf(c, acts, n)
           h == remote[c]
<1>1. T \in SUBSET (1 .. Now(c)) /\ \A j \in T : j \in acts /\ j <= n /\ Turned(c, j)
    BY DEF TurnsOf, Turned
<1>2. \A j \in t + 1 .. n : Turned(c, j) => j \in T
    <2>1. \A j \in t + 1 .. n : j \in 1 .. q /\ t < j /\ j <= n
        OBVIOUS
    <2> QED
        BY <2>1 DEF TurnsFrom, TurnsOf, Turned
<1>3. \A j \in T : j \in t + 1 .. n
    <2> SUFFICES ASSUME NEW j \in T PROVE j \in t + 1 .. n
        OBVIOUS
    <2>1. j \in acts /\ j <= n /\ Turned(c, j) /\ j \in 1 .. Now(c)
        BY <1>1
    <2>2. j \in 1 .. q
        BY <2>1
    <2>3. t < j
        BY <2>1, <2>2 DEF TurnsFrom
    <2> QED
        BY <2>1, <2>3
<1>4. ViewAfter(c, old, acts, n).state = IF T = {} THEN old.state ELSE StateAfter(h[Latest(T)].kind)
    BY DEF ViewAfter
<1>5. (\A j \in t + 1 .. n : ~Turned(c, j)) => StateIn(h, n) = StateIn(h, t)
    BY StateSteps DEF Turned
<1> HIDE DEF T
<1>6. CASE T = {}
    <2>1. \A j \in t + 1 .. n : ~Turned(c, j)
        BY <1>2, <1>6
    <2> QED
        BY <1>4, <1>5, <1>6, <2>1
<1>7. CASE T # {}
    <2>1. \E j \in T : \A i \in T : i <= j
        BY <1>1, <1>7, Largest
    <2> DEFINE j == Latest(T)
    <2>2. j \in T /\ \A i \in T : i <= j
        BY <2>1, Zenon DEF Latest
    <2> HIDE DEF j
    <2>3. j \in t + 1 .. n /\ Turned(c, j) /\ j \in 1 .. n
        BY <1>1, <1>3, <2>2
    <2>4. ASSUME NEW i \in j + 1 .. n PROVE h[i].kind = "committed"
        <3>1. i \in t + 1 .. n /\ ~(i <= j)
            BY <2>3
        <3>2. i \notin T
            BY <2>2, <3>1
        <3> QED
            BY <1>2, <3>1, <3>2 DEF Turned
    <2>5. StateIn(h, n) = StateAfter(h[j].kind)
        <3>1. n \in Nat \ {0} /\ n <= n
            OBVIOUS
        <3> QED
            BY <2>3, <2>4, <3>1, StateSteps DEF Turned
    <2> QED
        BY <1>4, <1>7, <2>3, <2>5 DEF j
<1> QED
    BY <1>6, <1>7

\* A difference of the states is reported.
LEMMA DifferenceTold ==
    ASSUME NEW c \in CRs, NEW old \in Looks, NEW new \in Looks, NEW at \in Int, old.state # new.state
    PROVE  \E e \in Differences(c, old, new, at) :
               e.cr = c /\ e.type = Toward(new.state) /\ e.via = "diff" /\ e.key = at
<1> DEFINE turn == Event(c, Toward(new.state), old, new, "diff", at)
<1>1. turn \in Differences(c, old, new, at)
    BY DifferencesAre DEF Looks
<1>2. turn.cr = c /\ turn.type = Toward(new.state) /\ turn.via = "diff" /\ turn.key = at
    BY DEF Event
<1> QED
    BY <1>1, <1>2, Zenon

\* What a replay of turns tells: each turn, but that the first may be one the snapshot had
\* already, and a state of the snapshot that differs from what was read.
LEMMA TurnsReported ==
    ASSUME Types, NEW c \in CRs, Now(c) <= MaxActs, Alternates(c),
           NEW acts \in SUBSET (1 .. Now(c)), NEW old \in Looks, NEW at \in Int,
           NEW t \in 1 .. Now(c), NEW s \in 1 .. Now(c), NEW q \in 1 .. Now(c), NEW d \in 1 .. Now(c),
           t <= s, s <= q, s <= d, \A k \in acts : remote[c][k].kind \in Reports,
           TurnsFrom(c, acts, t, q), TurnsBeyond(c, acts, q, d),
           StateIn(remote[c], d) = StateIn(remote[c], s)
    PROVE  LET R == Replay(c, old, View(c, s), acts, q, at)
               h == remote[c]
           IN  /\ \A k \in t + 1 .. q :
                    /\ Turned(c, k)
                    /\ \/ provider # "gitlab" \/ old.state = StateIn(h, t)
                       \/ \E j \in t + 1 .. k - 1 : Turned(c, j)
                    => \E e \in R : e.cr = c /\ e.type = h[k].kind /\ e.via = "activity" /\ e.key = k
               /\ StateIn(h, s) # StateIn(h, q) =>
                    \/ \E e \in R : e.cr = c /\ e.type = Toward(StateIn(h, s)) /\ e.via = "diff" /\ e.key = at
                    \/ /\ StateIn(h, s) = "closed"
                       /\ \E k \in q + 1 .. Now(c) :
                            /\ h[k].kind = "closed"
                            /\ \E e \in R : e.cr = c /\ e.type = "closed" /\ e.via = "detail" /\ e.key = k
<1> DEFINE h == remote[c]
           new == View(c, s)
           V(k) == ViewAfter(c, old, acts, k)
           R == Replay(c, old, new, acts, q, at)
           A(k) == ActEvent(c, old, acts, q, k)
<1>1. Now(c) \in Nat /\ \A k \in acts : k \in Nat /\ k - 1 \in Nat /\ k \in 1 .. Now(c)
    BY DEF Types, PlatformType, Now
<1>2. new \in Looks /\ new.state = StateIn(h, s) /\ V(Now(c)) \in Looks
    BY <1>1, ViewOk, ViewAfterOk
<1>3. ASSUME NEW k \in acts
      PROVE  /\ A(k).cr = c /\ A(k).type = h[k].kind /\ A(k).key = k
             /\ A(k).via = (IF k <= q THEN "activity" ELSE "detail")
    <2>1. h[k].kind \in Reports
        OBVIOUS
    <2>2. /\ A(k).cr = c /\ A(k).type = h[k].kind /\ A(k).key = k
          /\ A(k).via = (IF k <= q THEN "activity" ELSE "detail")
          /\ A(k).type = "committed" => A(k).new = [head |-> Sha(h, k), state |-> "any"]
        BY <2>1, ActEventIs
    <2> HIDE DEF A, h
    <2> QED
        BY <2>2
<1>4. /\ \A k \in acts : ~Unchanged(c, old, acts, k) => A(k) \in R
      /\ Differences(c, V(Now(c)), new, at) \subseteq R
    BY ReplayHas
<1>5. ASSUME NEW k \in acts, Turned(c, k) PROVE V(k).state = StateAfter(h[k].kind)
    <2>1. old \in [head : Shas, state : States] /\ V(k - 1) \in Looks
        BY <1>1, ViewAfterOk DEF Looks
    <2>2. V(k) = Applied(c, V(k - 1), k)
        BY <1>1, <2>1, ViewSteps
    <2> HIDE DEF V
    <2> QED
        BY <1>5, <2>1, <2>2 DEF Applied, Turned, Looks
<1>6. ASSUME NEW n \in Nat, t <= n, n <= q
      PROVE  /\ (\A j \in t + 1 .. n : ~Turned(c, j)) =>
                   V(n).state = old.state /\ StateIn(h, n) = StateIn(h, t)
             /\ (\E j \in t + 1 .. n : Turned(c, j)) \/ old.state = StateIn(h, t) =>
                   V(n).state = StateIn(h, n)
    <2>1. t \in Nat \ {0} /\ q \in Nat /\ q <= Now(c)
        BY <1>1
    <2> QED
        BY <1>1, <1>6, <2>1, ViewState
<1>7. \A k \in acts : Unchanged(c, old, acts, k) => provider = "gitlab" /\ V(k) = V(k - 1)
    BY DEF Unchanged
<1>8. V(Now(c)).state # new.state =>
        \E e \in R : e.cr = c /\ e.type = Toward(new.state) /\ e.via = "diff" /\ e.key = at
    <2> HIDE DEF V, new, R
    <2>1. V(Now(c)).state # new.state =>
            \E e \in Differences(c, V(Now(c)), new, at) :
                e.cr = c /\ e.type = Toward(new.state) /\ e.via = "diff" /\ e.key = at
        BY <1>2, DifferenceTold
    <2> QED
        BY <1>4, <2>1
<1>9. ASSUME \A k \in acts : Turned(c, k) => k <= q
      PROVE  V(Now(c)).state = V(q).state
    <2>1. TurnsOf(c, acts, Now(c)) = TurnsOf(c, acts, q)
        <3>1. \A k \in acts : k <= Now(c)
            BY <1>1
        <3> QED
            BY <1>9, <3>1 DEF TurnsOf, Turned
    <2> QED
        BY <2>1 DEF ViewAfter
<1>10. ASSUME NEW k \in acts, Turned(c, k), q < k
       PROVE  V(k - 1).state = V(q).state /\ h[k].kind = "closed" /\ StateIn(h, d) = "closed"
    <2>1. ASSUME NEW j \in acts, Turned(c, j), j <= k - 1, q < j PROVE FALSE
        <3>1. k <= d /\ h[k].kind = "closed" /\ \A i \in 1 .. d : h[i].kind = "closed" => i <= j
            BY <1>10, <2>1 DEF TurnsBeyond
        <3> QED
            BY <1>1, <2>1, <3>1
    <2>2. \A j \in acts : q < k => (j <= q => j <= k - 1)
        BY <1>1
    <2>3. \A j \in acts : j <= q \/ q < j
        BY <1>1
    <2>4. TurnsOf(c, acts, k - 1) = TurnsOf(c, acts, q)
        BY <1>10, <2>1, <2>2, <2>3 DEF TurnsOf, Turned
    <2> QED
        BY <1>10, <2>4 DEF ViewAfter, TurnsBeyond
<1> HIDE DEF V, A, R, new
<1>11. ASSUME NEW k \in t + 1 .. q, Turned(c, k),
              \/ provider # "gitlab" \/ old.state = StateIn(h, t)
              \/ \E j \in t + 1 .. k - 1 : Turned(c, j)
       PROVE  \E e \in R : e.cr = c /\ e.type = h[k].kind /\ e.via = "activity" /\ e.key = k
    <2>1. k \in 1 .. q /\ t < k /\ k <= q /\ k \in 2 .. Now(c) /\ k - 1 \in Nat /\ t <= k - 1 /\ k - 1 <= q
        BY <1>1
    <2>2. k \in acts
        BY <1>11, <2>1 DEF TurnsFrom
    <2>3. ~Unchanged(c, old, acts, k)
        <3> SUFFICES ASSUME provider = "gitlab" PROVE V(k).state # V(k - 1).state
            BY <1>7, <2>2
        <3>1. V(k - 1).state = StateIn(h, k - 1)
            BY <1>6, <1>11, <2>1
        <3>2. StateIn(h, k - 1) # StateAfter(h[k].kind)
            BY <1>11, <2>1 DEF Alternates
        <3> QED
            BY <1>5, <1>11, <2>2, <3>1, <3>2
    <2> QED
        BY <1>3, <1>4, <2>1, <2>2, <2>3
<1>12. ASSUME StateIn(h, s) # StateIn(h, q)
       PROVE  \/ \E e \in R : e.cr = c /\ e.type = Toward(StateIn(h, s)) /\ e.via = "diff" /\ e.key = at
              \/ /\ StateIn(h, s) = "closed"
                 /\ \E k \in q + 1 .. Now(c) :
                      /\ h[k].kind = "closed"
                      /\ \E e \in R : e.cr = c /\ e.type = "closed" /\ e.via = "detail" /\ e.key = k
    <2>1. V(q).state = StateIn(h, q)
        <3>1. \E j \in t + 1 .. q : Turned(c, j)
            <4> SUFFICES ASSUME \A j \in t + 1 .. q : ~Turned(c, j) PROVE FALSE
                OBVIOUS
            <4>1. \A j \in t + 1 .. s : j \in t + 1 .. q
                OBVIOUS
            <4>2. StateIn(h, q) = StateIn(h, t) /\ StateIn(h, s) = StateIn(h, t)
                BY <1>6, <4>1
            <4> QED
                BY <1>12, <4>2
        <3> QED
            BY <1>6, <3>1
    <2>2. CASE V(Now(c)).state # new.state
        BY <1>2, <1>8, <2>2
    <2>3. CASE V(Now(c)).state = new.state
        <3>1. ~(\A k \in acts : Turned(c, k) => k <= q)
            BY <1>2, <1>9, <1>12, <2>1, <2>3
        <3>2. PICK k \in acts : Turned(c, k) /\ q < k
            BY <1>1, <3>1
        <3>3. V(k - 1).state = StateIn(h, q) /\ h[k].kind = "closed" /\ StateIn(h, s) = "closed"
            BY <1>10, <2>1, <3>2
        <3>4. V(k).state = "closed"
            BY <1>5, <3>2, <3>3 DEF StateAfter
        <3>5. ~Unchanged(c, old, acts, k)
            BY <1>7, <1>12, <3>3, <3>4
        <3>6. k \in q + 1 .. Now(c) /\ ~(k <= q)
            BY <1>1, <3>2
        <3> QED
            BY <1>3, <1>4, <3>3, <3>5, <3>6
    <2> QED
        BY <2>2, <2>3
<1> QED
    BY <1>11, <1>12 DEF R, new

-----------------------------------------------------------------------------
(* Histories, in their order.                                               *)

\* Histories are in the order of their times.
HistoryInv ==
    /\ provider \in Providers /\ target <= MaxMoves /\ clock <= MaxTime
    /\ \A c \in CRs :
        /\ Now(c) <= MaxActs /\ Alternates(c)
        /\ \A k \in 1 .. Now(c) : remote[c][k].at <= Dated
        /\ \A j, k \in 1 .. Now(c) : j <= k => remote[c][j].at <= remote[c][k].at

\* Where cursors, snapshots and the list stand to one another.
PlaceInv ==
    /\ cursor \in [CRs -> [state : Nat, version : Nat]]
    /\ rebase \subseteq unread /\ unread \subseteq Stored
    /\ provider = "github" => unread = {}
    /\ \A c \in CRs :
        /\ cursor[c].state <= Now(c) /\ cursor[c].version <= Now(c)
        /\ scan.phase # "listed" => scan.seen[c] = 0
        /\ scan.phase = "listed" /\ c \in scan.left =>
              /\ snap[c] <= scan.seen[c]
              /\ cursor[c].state <= scan.seen[c] /\ cursor[c].version <= scan.seen[c]
        /\ c \notin rebase => snap[c] <= cursor[c].state /\ snap[c] <= cursor[c].version
        /\ snap[c] = 0 => cursor[c].state = 0 /\ cursor[c].version = 0

\* What may happen next to a change request.
Fits(c, kind) ==
    /\ remote[c] = <<>> => kind = "opened"
    /\ remote[c] # <<>> =>
          kind \in Reports /\ (kind # "committed" => StateIn(remote[c], Now(c)) # StateAfter(kind))

\* The steps, with what may happen.
LEMMA Happens ==
    ASSUME [Next]_vars
    PROVE  \/ \E c \in CRs : \E kind \in Kinds : Act(c, kind) /\ Fits(c, kind)
           \/ MoveTarget \/ Tick \/ Begin \/ List \/ Complete \/ Fail
           \/ \E c \in CRs : Rebaseline(c) \/ Process(c) \/ ProcessUnread(c) \/ TargetPass(c)
           \/ UNCHANGED vars
<1>1. ASSUME NEW c \in CRs, Create(c) \/ Commit(c) \/ Close(c) \/ Reopen(c)
      PROVE  \E kind \in Kinds : Act(c, kind) /\ Fits(c, kind)
    <2>1. CASE Create(c)
        BY <2>1 DEF Create, Kinds, Fits
    <2>2. CASE Commit(c)
        BY <2>2 DEF Commit, Created, Kinds, Fits, Reports
    <2>3. CASE Close(c)
        BY <2>3, StateIsIn DEF Close, Created, Kinds, Fits, Reports, StateAfter
    <2>4. CASE Reopen(c)
        BY <2>4, StateIsIn DEF Reopen, Created, Kinds, Fits, Reports, StateAfter
    <2> QED
        BY <1>1, <2>1, <2>2, <2>3, <2>4
<1> QED
    BY <1>1 DEF Next

\* Whatever happens, what a history says of its prefixes stays.
LEMMA Stays ==
    ASSUME Types, [Next]_vars, NEW c \in CRs
    PROVE  /\ Now(c) \in Nat /\ Now(c)' \in Nat /\ Now(c) <= Now(c)'
           /\ \A k \in 1 .. Now(c) : remote'[c][k] = remote[c][k]
           /\ \A n \in 1 .. Now(c) : StateIn(remote'[c], n) = StateIn(remote[c], n)
           /\ \A n \in 0 .. Now(c) : Sha(remote'[c], n) = Sha(remote[c], n)
<1>1. Now(c) \in Nat
    BY DEF Types, PlatformType, Now
<1>2. CASE remote' = remote
    BY <1>1, <1>2 DEF Now
<1>3. ASSUME NEW d \in CRs, NEW kind \in Kinds, Act(d, kind)
      PROVE  /\ Now(c)' \in Nat /\ Now(c) <= Now(c)'
             /\ \A k \in 1 .. Now(c) : remote'[c][k] = remote[c][k]
             /\ \A n \in 1 .. Now(c) : StateIn(remote'[c], n) = StateIn(remote[c], n)
    <2>1. \A n \in 1 .. Now(c) : StateIn(remote'[c], n) = StateIn(remote[c], n)
        <3> TAKE n \in 1 .. Now(c)
        <3> QED
            BY <1>3, StateStays
    <2>2. CASE c = d
        <3>1. Now(c)' = Now(c) + 1 /\ \A k \in 1 .. Now(c) : remote'[c][k] = remote[c][k]
            BY <1>3, <2>2, HistoryGrows
        <3> QED
            BY <1>1, <2>1, <3>1
    <2>3. CASE c # d
        <3>1. remote'[c] = remote[c]
            BY <1>3, <2>3, HistoryGrows
        <3> QED
            BY <1>1, <2>1, <3>1 DEF Now
    <2> QED
        BY <2>2, <2>3
<1>4. \/ \E d \in CRs : \E kind \in Kinds : Act(d, kind)
      \/ remote' = remote
    <2>1. ASSUME NEW d \in CRs, Process(d) \/ ProcessUnread(d) PROVE remote' = remote
        BY <2>1, Saves DEF platform
    <2> QED
        BY <2>1, Steps DEF MoveTarget, Tick, Begin, List, Complete, Fail, Rebaseline, TargetPass,
           vars, platform
<1>5. ASSUME \A k \in 1 .. Now(c) : remote'[c][k] = remote[c][k], NEW n \in 0 .. Now(c)
      PROVE  Sha(remote'[c], n) = Sha(remote[c], n)
    <2>1. \A k \in 1 .. n : k \in 1 .. Now(c)
        BY <1>1
    <2>2. {k \in 1 .. n : remote'[c][k].kind = "committed"} =
            {k \in 1 .. n : remote[c][k].kind = "committed"}
        BY <1>5, <2>1
    <2> QED
        BY <2>2 DEF Sha
<1> QED
    BY <1>1, <1>2, <1>3, <1>4, <1>5

\* Each step keeps the order of the histories.
LEMMA NextHistory == Types /\ HistoryInv /\ [Next]_vars => HistoryInv'
<1> SUFFICES ASSUME Types, HistoryInv, [Next]_vars PROVE HistoryInv'
    OBVIOUS
<1>a. clock \in Nat /\ target \in Nat /\ {MaxActs, MaxTime, MaxMoves} \subseteq Nat
      /\ \A c \in CRs : Now(c) \in Nat /\ remote[c] \in Seq(Activities)
    BY ScanAssumption DEF Types, PlatformType, Now
<1>1. ASSUME UNCHANGED <<provider, remote>>, clock <= clock', clock' <= MaxTime, target' <= MaxMoves
      PROVE  HistoryInv'
    <2>1. Dated \in Int /\ Dated' \in Int /\ Dated <= Dated'
        <3>1. Types'
            BY NextPlatform, NextStored, NextScan DEF Types
        <3>2. Dated \in Int
            BY DateIs
        <3> QED
            BY <1>1, <3>1, <3>2, DatesGrow
    <2> SUFFICES ASSUME NEW c \in CRs
                 PROVE  /\ Now(c)' <= MaxActs /\ Alternates(c)'
                        /\ \A k \in 1 .. Now(c)' : remote'[c][k].at <= Dated'
                        /\ \A j, k \in 1 .. Now(c)' : j <= k => remote'[c][j].at <= remote'[c][k].at
        BY <1>1 DEF HistoryInv
    <2>2. Now(c)' = Now(c) /\ (Alternates(c)' <=> Alternates(c)) /\ remote'[c] = remote[c]
        BY <1>1 DEF Now, Alternates, Turned
    <2>3. /\ Now(c) <= MaxActs /\ Alternates(c)
          /\ \A k \in 1 .. Now(c) : remote[c][k].at <= Dated
          /\ \A j, k \in 1 .. Now(c) : j <= k => remote[c][j].at <= remote[c][k].at
        BY DEF HistoryInv
    <2>4. ASSUME NEW k \in 1 .. Now(c) PROVE remote[c][k].at <= Dated'
        <3>1. remote[c][k] \in Activities
            BY <1>a, ElementOfSeq DEF Now
        <3>2. remote[c][k].at \in Int /\ remote[c][k].at <= Dated
            BY <2>3, <3>1 DEF Activities
        <3> QED
            BY <1>1, <1>a, <2>1, <3>2
    <2> QED
        BY <2>2, <2>3, <2>4
<1>2. ASSUME NEW d \in CRs, NEW kind \in Kinds, Act(d, kind), Fits(d, kind)
      PROVE  HistoryInv'
    <2>1. /\ UNCHANGED <<provider, target, clock>> /\ Now(d) < MaxActs
          /\ Dated' = Dated /\ Dated \in Int
        BY <1>2, DateIs DEF Act, Dated
    <2>2. /\ Now(d)' = Now(d) + 1 /\ remote'[d][Now(d) + 1] = [kind |-> kind, at |-> Dated]
          /\ \A k \in 1 .. Now(d) : remote'[d][k] = remote[d][k]
          /\ \A c \in CRs : c # d => remote'[c] = remote[c]
        BY <1>2, HistoryGrows
    <2>3. /\ \A k \in 2 .. Now(d) : StateIn(remote'[d], k - 1) = StateIn(remote[d], k - 1)
          /\ Now(d) >= 1 => StateIn(remote'[d], Now(d)) = StateIn(remote[d], Now(d))
        <3>1. \A k \in 2 .. Now(d) : k - 1 \in 1 .. Now(d)
            BY <1>a
        <3>2. \A n \in 1 .. Now(d) : StateIn(remote'[d], n) = StateIn(remote[d], n)
            BY Stays
        <3>3. Now(d) >= 1 => Now(d) \in 1 .. Now(d)
            BY <1>a
        <3> QED
            BY <3>1, <3>2, <3>3
    <2> SUFFICES ASSUME NEW c \in CRs
                 PROVE  /\ Now(c)' <= MaxActs /\ Alternates(c)'
                        /\ \A k \in 1 .. Now(c)' : remote'[c][k].at <= Dated
                        /\ \A j, k \in 1 .. Now(c)' : j <= k => remote'[c][j].at <= remote'[c][k].at
        BY <2>1 DEF HistoryInv
    <2>4. /\ Now(c) <= MaxActs /\ Alternates(c)
          /\ \A k \in 1 .. Now(c) : remote[c][k].at <= Dated
          /\ \A j, k \in 1 .. Now(c) : j <= k => remote[c][j].at <= remote[c][k].at
        BY DEF HistoryInv
    <2>5. CASE c # d
        <3>1. remote'[c] = remote[c]
            BY <2>2, <2>5
        <3> QED
            BY <2>4, <3>1 DEF Now, Alternates, Turned
    <2>6. CASE c = d
        <3> DEFINE n == Now(c)
        <3>1. n \in Nat /\ Now(c)' = n + 1 /\ n < MaxActs
            BY <1>a, <2>1, <2>2, <2>6
        <3>2. \A k \in 1 .. n + 1 : k \in 1 .. n \/ k = n + 1
            BY <3>1
        <3>3. /\ \A k \in 1 .. n : remote'[c][k] = remote[c][k]
              /\ remote'[c][n + 1] = [kind |-> kind, at |-> Dated]
            BY <2>2, <2>6
        <3>4. \A k \in 1 .. n + 1 : remote'[c][k].at <= Dated
            BY <2>1, <2>4, <3>2, <3>3
        <3>5. \A j, k \in 1 .. n + 1 : j <= k => remote'[c][j].at <= remote'[c][k].at
            <4> SUFFICES ASSUME NEW j \in 1 .. n + 1, NEW k \in 1 .. n + 1, j <= k
                         PROVE  remote'[c][j].at <= remote'[c][k].at
                OBVIOUS
            <4>1. CASE k = n + 1
                <5>1. remote'[c][k].at = Dated
                    BY <3>3, <4>1
                <5> QED
                    BY <3>4, <5>1
            <4>2. CASE k # n + 1
                <5>1. k \in 1 .. n /\ j \in 1 .. n
                    BY <3>1, <4>2
                <5> QED
                    BY <2>4, <3>3, <5>1
            <4> QED
                BY <4>1, <4>2
        <3>6. Alternates(c)'
            <4> SUFFICES ASSUME NEW k \in 2 .. n + 1
                         PROVE  /\ remote'[c][k].kind \in Reports
                                /\ remote'[c][k].kind # "committed" =>
                                      StateIn(remote'[c], k - 1) # StateAfter(remote'[c][k].kind)
                BY <3>1 DEF Alternates, Turned
            <4>1. CASE k = n + 1
                <5>1. n >= 1 /\ k - 1 = n
                    BY <3>1, <4>1
                <5>2. remote[c] # <<>>
                    BY <5>1 DEF Now
                <5>3. remote'[c][k].kind = kind
                    BY <3>3, <4>1
                <5>4. StateIn(remote'[c], k - 1) = StateIn(remote[c], n)
                    BY <2>3, <2>6, <5>1
                <5> QED
                    BY <1>2, <2>6, <5>2, <5>3, <5>4 DEF Fits
            <4>2. CASE k # n + 1
                <5>1. k \in 2 .. n /\ k \in 1 .. n
                    BY <3>1, <4>2
                <5>2. remote'[c][k] = remote[c][k] /\ StateIn(remote'[c], k - 1) = StateIn(remote[c], k - 1)
                    BY <2>3, <2>6, <3>3, <5>1
                <5>3. /\ remote[c][k].kind \in Reports
                      /\ remote[c][k].kind # "committed" =>
                            StateIn(remote[c], k - 1) # StateAfter(remote[c][k].kind)
                    BY <2>4, <5>1 DEF Alternates, Turned
                <5> QED
                    BY <5>2, <5>3
            <4> QED
                BY <4>1, <4>2
        <3>7. n + 1 <= MaxActs
            BY <1>a, <3>1
        <3> QED
            BY <3>1, <3>4, <3>5, <3>6, <3>7
    <2> QED
        BY <2>5, <2>6
<1>3. clock <= MaxTime /\ target <= MaxMoves /\ clock <= clock
    BY <1>a DEF HistoryInv
<1>4. CASE MoveTarget
    BY <1>1, <1>3, <1>4, <1>a DEF MoveTarget
<1>5. CASE Tick
    BY <1>1, <1>3, <1>5, <1>a DEF Tick
<1>6. CASE Begin \/ List \/ Complete \/ Fail
    BY <1>1, <1>3, <1>6 DEF Begin, List, Complete, Fail, platform
<1>7. ASSUME NEW c \in CRs, Rebaseline(c) \/ Process(c) \/ ProcessUnread(c) \/ TargetPass(c)
      PROVE  HistoryInv'
    <2>1. Process(c) \/ ProcessUnread(c) => UNCHANGED platform
        BY Saves
    <2>2. UNCHANGED platform
        BY <1>7, <2>1 DEF Rebaseline, TargetPass
    <2> QED
        BY <1>1, <1>3, <2>2 DEF platform
<1>8. CASE UNCHANGED vars
    BY <1>1, <1>3, <1>8 DEF vars, platform
<1> QED
    BY <1>2, <1>4, <1>5, <1>6, <1>7, <1>8, Happens

-----------------------------------------------------------------------------
(* Where cursors, snapshots and the list stand.                             *)

\* What a turn of the loop over the list leaves behind of its change request.
LEMMA Leaves ==
    ASSUME NEW c \in CRs, Process(c) \/ ProcessUnread(c), Types, PlaceInv, PrefixInv
    PROVE  /\ scan.phase = "listed" /\ c \in scan.left /\ UNCHANGED <<platform, watermark>>
           /\ scan'.phase = "listed" /\ scan'.left = scan.left \ {c} /\ scan'.seen = scan.seen
           /\ scan'.target = scan.target
           /\ snap' = [snap EXCEPT ![c] = scan.seen[c]] /\ scan.seen[c] \in 1 .. Now(c)
           /\ \/ /\ rebase' = rebase \ {c} /\ unread' = unread
                 /\ \E q, v \in scan.seen[c] .. Now(c) :
                        cursor' = [cursor EXCEPT ![c] = [state |-> q, version |-> v]]
              \/ /\ provider = "gitlab" /\ cursor' = cursor
                 /\ rebase' = rebase \union {c} /\ unread' = unread \union {c}
<1>1. /\ scan.phase = "listed" /\ c \in scan.left /\ UNCHANGED <<platform, watermark>>
      /\ scan' = [scan EXCEPT !.left = @ \ {c}]
      /\ snap' = [snap EXCEPT ![c] = scan.seen[c]]
    BY Saves DEF Save
<1>2. scan'.phase = "listed" /\ scan'.left = scan.left \ {c} /\ scan'.seen = scan.seen
      /\ scan'.target = scan.target
    BY <1>1 DEF Types, ScanType
<1>3. scan.seen[c] \in 1 .. Now(c)
    <2>1. scan.seen[c] \in Nat /\ Now(c) \in Nat
        BY DEF Types, ScanType, PlatformType, Now
    <2> QED
        BY <1>1, <2>1 DEF PrefixInv
<1>4. CASE Process(c)
    <2>1. PICK a \in Readings(c) :
            cursor' = [cursor EXCEPT ![c] = [state |-> a.state, version |-> a.version]]
        BY <1>4 DEF Process
    <2>2. a.state \in scan.seen[c] .. Now(c) /\ a.version \in scan.seen[c] .. Now(c)
        BY DEF Readings
    <2>3. rebase' = rebase \ {c} /\ unread' = unread
        BY <1>4 DEF Process
    <2> QED
        BY <1>1, <1>2, <1>3, <2>1, <2>2, <2>3
<1>5. CASE ProcessUnread(c)
    BY <1>1, <1>2, <1>3, <1>5 DEF ProcessUnread
<1> QED
    BY <1>4, <1>5

\* Each step keeps the places.
LEMMA NextPlace == Types /\ PrefixInv /\ PlaceInv /\ [Next]_vars => PlaceInv'
<1> SUFFICES ASSUME Types, PrefixInv, PlaceInv, [Next]_vars PROVE PlaceInv'
    OBVIOUS
<1>a. /\ snap \in [CRs -> Nat] /\ scan.seen \in [CRs -> Nat] /\ scan.left \subseteq CRs
      /\ cursor \in [CRs -> [state : Nat, version : Nat]]
      /\ \A c \in CRs : /\ Now(c) \in Nat /\ Now(c)' \in Nat /\ Now(c) <= Now(c)'
                        /\ cursor[c].state \in Nat /\ cursor[c].version \in Nat
                        /\ snap[c] \in Nat /\ scan.seen[c] \in Nat
    <2>1. \A c \in CRs : Now(c) \in Nat /\ Now(c)' \in Nat /\ Now(c) <= Now(c)'
        BY Stays
    <2> QED
        BY <2>1 DEF Types, StoredType, ScanType, PlaceInv
<1>b. \A c \in CRs :
        /\ cursor[c].state <= Now(c) /\ cursor[c].version <= Now(c)
        /\ scan.phase # "listed" => scan.seen[c] = 0
        /\ scan.phase = "listed" /\ c \in scan.left =>
              /\ snap[c] <= scan.seen[c]
              /\ cursor[c].state <= scan.seen[c] /\ cursor[c].version <= scan.seen[c]
        /\ c \notin rebase => snap[c] <= cursor[c].state /\ snap[c] <= cursor[c].version
        /\ snap[c] = 0 => cursor[c].state = 0 /\ cursor[c].version = 0
        /\ snap[c] <= Now(c)
    BY DEF PlaceInv, PrefixInv
<1>c. rebase \subseteq unread /\ unread \subseteq CRs /\ (\A c \in unread : snap[c] # 0)
      /\ (provider = "github" => unread = {})
    BY DEF PlaceInv, Stored
\* The list and the platform change, what is stored does not.
<1>1. ASSUME UNCHANGED <<snap, cursor, rebase, unread, provider>>,
             \A c \in CRs : /\ scan'.phase # "listed" => scan'.seen[c] = 0
                            /\ scan'.phase = "listed" /\ c \in scan'.left =>
                                  \/ scan'.seen[c] = Now(c)
                                  \/ scan.phase = "listed" /\ c \in scan.left /\ scan'.seen[c] = scan.seen[c]
      PROVE  PlaceInv'
    <2> SUFFICES ASSUME NEW c \in CRs
                 PROVE  /\ cursor[c].state <= Now(c)' /\ cursor[c].version <= Now(c)'
                        /\ scan'.phase # "listed" => scan'.seen[c] = 0
                        /\ scan'.phase = "listed" /\ c \in scan'.left =>
                              /\ snap[c] <= scan'.seen[c] /\ cursor[c].state <= scan'.seen[c]
                              /\ cursor[c].version <= scan'.seen[c]
                        /\ c \notin rebase => snap[c] <= cursor[c].state /\ snap[c] <= cursor[c].version
                        /\ snap[c] = 0 => cursor[c].state = 0 /\ cursor[c].version = 0
        BY <1>1, <1>a, <1>c DEF PlaceInv, Stored
    <2>1. cursor[c].state <= Now(c)' /\ cursor[c].version <= Now(c)'
        BY <1>a, <1>b
    <2> QED
        BY <1>1, <1>b, <2>1
<1>2. ASSUME NEW d \in CRs, NEW kind \in Kinds, Act(d, kind) PROVE PlaceInv'
    BY <1>1, <1>2, <1>b DEF Act, stored
<1>3. CASE MoveTarget \/ Tick
    BY <1>1, <1>3, <1>b DEF MoveTarget, Tick, stored
<1>4. CASE Begin
    <2>1. scan'.seen = scan.seen /\ scan'.phase = "started" /\ scan.phase = "idle"
          /\ UNCHANGED <<snap, cursor, rebase, unread, provider>>
        BY <1>4 DEF Begin, platform, stored, Types, ScanType
    <2> QED
        BY <1>1, <1>b, <2>1
<1>5. CASE List
    <2>1. PICK listed \in SUBSET Candidates :
            /\ scan'.seen = [c \in CRs |-> IF c \in listed THEN Now(c) ELSE 0]
            /\ scan'.left = listed
        BY <1>5 DEF List, Types, ScanType
    <2>2. scan'.phase = "listed" /\ UNCHANGED <<snap, cursor, rebase, unread, provider>>
        BY <1>5 DEF List, platform, stored, Types, ScanType
    <2> QED
        BY <1>1, <2>1, <2>2
<1>6. CASE Complete \/ Fail
    <2>1. scan'.phase = "idle" /\ scan'.seen = [c \in CRs |-> 0]
          /\ UNCHANGED <<snap, cursor, rebase, unread, provider>>
        BY <1>6 DEF Complete, Fail, platform, stored, Types, ScanType
    <2> QED
        BY <1>1, <2>1
<1>7. ASSUME NEW d \in CRs, Rebaseline(d) PROVE PlaceInv'
    <2>1. /\ scan.phase = "started" /\ d \in rebase /\ rebase' = rebase \ {d}
          /\ cursor' = [cursor EXCEPT ![d] = [state |-> Now(d), version |-> Now(d)]]
          /\ UNCHANGED <<remote, snap, unread, scan, provider>>
        BY <1>7 DEF Rebaseline, platform
    <2>2. /\ cursor' \in [CRs -> [state : Nat, version : Nat]]
          /\ cursor'[d] = [state |-> Now(d), version |-> Now(d)]
          /\ \A c \in CRs : c # d => cursor'[c] = cursor[c]
        BY <1>a, <2>1
    <2> SUFFICES ASSUME NEW c \in CRs
                 PROVE  /\ cursor'[c].state <= Now(c) /\ cursor'[c].version <= Now(c)
                        /\ scan.seen[c] = 0
                        /\ c \notin rebase' => snap[c] <= cursor'[c].state /\ snap[c] <= cursor'[c].version
                        /\ snap[c] = 0 => cursor'[c].state = 0 /\ cursor'[c].version = 0
        BY <1>c, <2>1, <2>2 DEF PlaceInv, Now, Stored
    <2>3. CASE c = d
        <3>1. snap[c] # 0 /\ cursor'[c].state = Now(c) /\ cursor'[c].version = Now(c)
            BY <1>c, <2>1, <2>2, <2>3
        <3> QED
            BY <1>a, <1>b, <2>1, <3>1
    <2>4. CASE c # d
        BY <1>b, <2>1, <2>2, <2>4
    <2> QED
        BY <2>3, <2>4
<1>8. ASSUME NEW d \in CRs, Process(d) \/ ProcessUnread(d) PROVE PlaceInv'
    <2>1. /\ scan.phase = "listed" /\ d \in scan.left /\ UNCHANGED <<remote, provider>>
          /\ scan'.phase = "listed" /\ scan'.left = scan.left \ {d} /\ scan'.seen = scan.seen
          /\ snap' = [snap EXCEPT ![d] = scan.seen[d]] /\ scan.seen[d] \in 1 .. Now(d)
          /\ \/ /\ rebase' = rebase \ {d} /\ unread' = unread
                /\ \E q, v \in scan.seen[d] .. Now(d) :
                       cursor' = [cursor EXCEPT ![d] = [state |-> q, version |-> v]]
             \/ /\ provider = "gitlab" /\ cursor' = cursor
                /\ rebase' = rebase \union {d} /\ unread' = unread \union {d}
        BY <1>8, Leaves DEF platform
    <2>2. Now(d) \in Nat /\ scan.seen[d] \in Nat /\ scan.seen[d] # 0
        BY <1>a, <2>1
    <2>3. \A c \in CRs : c # d => snap'[c] = snap[c]
        BY <1>a, <2>1
    <2>4. snap'[d] = scan.seen[d]
        BY <1>a, <2>1
    <2>5. /\ cursor' \in [CRs -> [state : Nat, version : Nat]]
          /\ \A c \in CRs : c # d => cursor'[c] = cursor[c]
          /\ cursor'[d].state <= Now(d) /\ cursor'[d].version <= Now(d)
          /\ d \notin rebase' => scan.seen[d] <= cursor'[d].state /\ scan.seen[d] <= cursor'[d].version
        <3>1. CASE rebase' = rebase \union {d} /\ cursor' = cursor
            BY <1>a, <1>b, <3>1
        <3>2. ASSUME NEW q \in scan.seen[d] .. Now(d), NEW v \in scan.seen[d] .. Now(d),
                     cursor' = [cursor EXCEPT ![d] = [state |-> q, version |-> v]]
              PROVE  /\ cursor' \in [CRs -> [state : Nat, version : Nat]]
                     /\ \A c \in CRs : c # d => cursor'[c] = cursor[c]
                     /\ cursor'[d].state <= Now(d) /\ cursor'[d].version <= Now(d)
                     /\ scan.seen[d] <= cursor'[d].state /\ scan.seen[d] <= cursor'[d].version
            <4>1. /\ q \in Nat /\ v \in Nat /\ q <= Now(d) /\ v <= Now(d)
                  /\ scan.seen[d] <= q /\ scan.seen[d] <= v
                BY <2>2
            <4> QED
                BY <1>a, <3>2, <4>1
        <3> QED
            BY <2>1, <3>1, <3>2
    <2>6. /\ rebase' \subseteq unread' /\ unread' \subseteq CRs /\ \A c \in unread' : snap'[c] # 0
          /\ provider = "github" => unread' = {}
          /\ \A c \in CRs : c # d => (c \in rebase' <=> c \in rebase)
        BY <1>c, <2>1, <2>2, <2>3, <2>4
    <2> SUFFICES ASSUME NEW c \in CRs
                 PROVE  /\ cursor'[c].state <= Now(c) /\ cursor'[c].version <= Now(c)
                        /\ c \in scan'.left =>
                              /\ snap'[c] <= scan.seen[c] /\ cursor'[c].state <= scan.seen[c]
                              /\ cursor'[c].version <= scan.seen[c]
                        /\ c \notin rebase' => snap'[c] <= cursor'[c].state /\ snap'[c] <= cursor'[c].version
                        /\ snap'[c] = 0 => cursor'[c].state = 0 /\ cursor'[c].version = 0
        BY <2>1, <2>5, <2>6 DEF PlaceInv, Now, Stored
    <2>7. CASE c = d
        BY <2>1, <2>2, <2>4, <2>5, <2>7
    <2>8. CASE c # d
        BY <1>b, <2>1, <2>3, <2>5, <2>6, <2>8
    <2> QED
        BY <2>7, <2>8
<1>9. ASSUME NEW d \in CRs, TargetPass(d) PROVE PlaceInv'
    BY <1>1, <1>9, <1>b DEF TargetPass, platform
<1>10. CASE UNCHANGED vars
    BY <1>1, <1>10, <1>b DEF vars, platform, stored
<1> QED
    BY <1>2, <1>3, <1>4, <1>5, <1>6, <1>7, <1>8, <1>9, <1>10, Steps

-----------------------------------------------------------------------------
(* A change request that is processed.                                      *)

\* Of the history of a change request: the numbers the lemmas ask for.
LEMMA HistoryIs ==
    ASSUME Types, HistoryInv, NEW c \in CRs
    PROVE  /\ Now(c) \in Nat /\ Now(c) <= MaxActs /\ Alternates(c)
           /\ \A k \in 1 .. Now(c) : remote[c][k].kind \in Kinds /\ remote[c][k].at \in Int
           /\ \A k \in 2 .. Now(c) : remote[c][k].kind \in Reports
           /\ \A j, k \in 1 .. Now(c) : j <= k => remote[c][j].at <= remote[c][k].at
           /\ Now(c) >= 1 => remote[c][1].kind = "opened" /\ StateIn(remote[c], 1) = "opened"
<1>1. remote[c] \in Seq(Activities) /\ Now(c) \in Nat
    BY DEF Types, PlatformType, Now
<1>2. ASSUME NEW k \in 1 .. Now(c) PROVE remote[c][k].kind \in Kinds /\ remote[c][k].at \in Int
    <2>1. remote[c][k] \in Activities
        BY <1>1, ElementOfSeq DEF Now
    <2> QED
        BY <2>1 DEF Activities
<1>3. /\ Now(c) <= MaxActs /\ Alternates(c)
      /\ \A j, k \in 1 .. Now(c) : j <= k => remote[c][j].at <= remote[c][k].at
    BY DEF HistoryInv
<1>4. ASSUME Now(c) >= 1 PROVE remote[c][1].kind = "opened" /\ StateIn(remote[c], 1) = "opened"
    <2>1. remote[c] # <<>>
        BY <1>4 DEF Now
    <2>2. remote[c][1].kind = "opened"
        BY <2>1 DEF Types, PlatformType, Created
    <2>3. StateIn(remote[c], 1) = StateAfter("opened")
        <3>1. 1 \in Nat \ {0} /\ 1 \in 1 .. 1 /\ (\A j \in 1 + 1 .. 1 : remote[c][j].kind = "committed")
            OBVIOUS
        <3> QED
            BY <2>2, <3>1, StateSteps
    <2> QED
        BY <2>2, <2>3 DEF StateAfter
<1> QED
    BY <1>1, <1>2, <1>3, <1>4 DEF Alternates

\* Where the turns of a replay begin.
Start(c) == IF snap[c] = 0 THEN 1 ELSE cursor[c].state

\* The activities that a cursor has not passed.
LEMMA FreshIs ==
    ASSUME Types, PrefixInv, HistoryInv, PlaceInv, NEW c \in CRs, scan.phase = "listed", c \in scan.left,
           c \notin rebase, NEW a \in Readings(c)
    PROVE  /\ {a.detail, a.state, a.version} \subseteq scan.seen[c] .. Now(c)
           /\ Fresh(c, a) \in SUBSET (1 .. Now(c))
           /\ \A k \in Fresh(c, a) : remote[c][k].kind \in Reports
           /\ \A k \in 1 .. Now(c) : remote[c][k].kind = "committed" =>
                (k \in Fresh(c, a) <=> cursor[c].version < k /\ k <= a.version)
           /\ TurnsFrom(c, Fresh(c, a), Start(c), a.state)
           /\ TurnsBeyond(c, Fresh(c, a), a.state, a.detail)
           /\ Start(c) \in 1 .. Now(c) /\ Start(c) <= scan.seen[c] /\ scan.seen[c] \in 1 .. Now(c)
<1> DEFINE h == remote[c]
           s == scan.seen[c]
           q == a.state
           v == a.version
           d == a.detail
           n == Now(c)
           IsTurn(k) == h[k].kind \in {"closed", "reopened"}
           closes == {k \in 1 .. d : h[k].kind = "closed"}
           IsLast(k) == \A j \in closes : j <= k
           closedAt == IF provider = "gitlab" /\ State(c, d) = "closed"
                       THEN {k \in closes : IsLast(k)} ELSE {}
           F == Fresh(c, a)
<1>1. /\ n \in Nat /\ Alternates(c) /\ \A k \in 2 .. n : h[k].kind \in Reports
      /\ n >= 1 => h[1].kind = "opened"
      /\ \A k \in 1 .. n : h[k].kind \in Kinds
    BY HistoryIs
<1>2. d \in s .. n /\ q \in s .. n /\ v \in s .. n
    BY DEF Readings
<1>3. /\ s \in 1 .. n /\ snap[c] \in Nat /\ snap[c] <= s
      /\ cursor[c].state \in Nat /\ cursor[c].version \in Nat
      /\ cursor[c].state <= s /\ snap[c] <= cursor[c].state /\ (snap[c] = 0 => cursor[c].state = 0)
    <2>1. s \in Nat /\ snap[c] \in Nat /\ s # 0 /\ s <= n
        BY DEF Types, ScanType, StoredType, PrefixInv
    <2>2. cursor[c] \in [state : Nat, version : Nat] /\ snap[c] <= s /\ cursor[c].state <= s
          /\ snap[c] <= cursor[c].state /\ (snap[c] = 0 => cursor[c].state = 0)
        BY DEF PlaceInv
    <2> QED
        BY <1>1, <2>1, <2>2
<1>4. F = {k \in 1 .. n : \/ IsTurn(k) /\ cursor[c].state < k /\ k <= q
                          \/ ~IsTurn(k) /\ k > 1 /\ cursor[c].version < k /\ k <= v}
          \union {k \in closedAt : k > q}
    BY Zenon DEF Fresh
<1>5. /\ closedAt \subseteq closes
      /\ \A k \in closedAt : provider = "gitlab" /\ StateIn(h, d) = "closed" /\ IsLast(k)
    BY StateIsIn
<1>6. closes \subseteq 1 .. n /\ \A k \in closes : h[k].kind = "closed" /\ k \in 1 .. d
    BY <1>1, <1>2, <1>3
<1> HIDE DEF F, closedAt
<1>7. F \in SUBSET (1 .. n)
    BY <1>4, <1>5, <1>6
<1>8. Start(c) \in 1 .. n /\ Start(c) <= s /\ \A k \in Nat : k > 1 => (Start(c) < k <=> cursor[c].state < k)
    BY <1>1, <1>3 DEF Start
<1>9. \A k \in 1 .. n : h[k].kind = "committed" => (k \in F <=> cursor[c].version < k /\ k <= v)
    <2> SUFFICES ASSUME NEW k \in 1 .. n, h[k].kind = "committed"
                 PROVE  k \in F <=> cursor[c].version < k /\ k <= v
        OBVIOUS
    <2>1. k > 1
        BY <1>1
    <2>2. ~IsTurn(k) /\ k \notin closes
        OBVIOUS
    <2> HIDE DEF IsTurn
    <2> QED
        BY <1>4, <1>5, <2>1, <2>2
<1>10. \A k \in F : h[k].kind \in Reports
    <2> SUFFICES ASSUME NEW k \in F PROVE h[k].kind \in Reports
        OBVIOUS
    <2>1. CASE k \in closedAt
        BY <1>5, <1>6, <2>1 DEF Reports
    <2>2. CASE IsTurn(k)
        BY <2>2 DEF Reports
    <2>3. CASE k \in 1 .. n /\ k > 1
        BY <1>1, <2>3
    <2> QED
        BY <1>4, <2>1, <2>2, <2>3
\* The kinds of a turn.
<1>11. ASSUME NEW k \in 1 .. n, Turned(c, k)
       PROVE  (k = 1 /\ ~IsTurn(k)) \/ (k > 1 /\ IsTurn(k))
    <2>1. CASE k = 1
        <3>1. h[1].kind = "opened"
            BY <1>1
        <3>2. ~IsTurn(1)
            BY <3>1
        <3> HIDE DEF IsTurn
        <3> QED
            BY <2>1, <3>2
    <2>2. CASE k # 1
        <3>1. k \in 2 .. n
            BY <1>1, <2>2
        <3> QED
            BY <1>1, <1>11, <3>1 DEF Turned, Reports
    <2> QED
        BY <2>1, <2>2
<1>12. TurnsFrom(c, F, Start(c), q)
    <2> SUFFICES ASSUME NEW k \in 1 .. q, Turned(c, k) PROVE k \in F <=> Start(c) < k
        BY DEF TurnsFrom
    <2>1. k \in 1 .. n /\ k \in Nat /\ k <= q /\ ~(k > q)
        BY <1>1, <1>2, <1>3
    <2>2. (k = 1 /\ ~IsTurn(k)) \/ (k > 1 /\ IsTurn(k))
        BY <1>11, <2>1
    <2> HIDE DEF IsTurn
    <2>3. k \in F <=> k > 1 /\ cursor[c].state < k
        BY <1>4, <2>1, <2>2
    <2>4. Start(c) \in Nat /\ Start(c) >= 1
        BY <1>1, <1>8
    <2> QED
        BY <1>8, <2>1, <2>3, <2>4
<1>13. TurnsBeyond(c, F, q, d)
    <2> SUFFICES ASSUME NEW k \in F, Turned(c, k), q < k
                 PROVE  /\ k <= d /\ h[k].kind = "closed" /\ StateIn(h, d) = "closed"
                        /\ \A j \in 1 .. d : h[j].kind = "closed" => j <= k
        BY DEF TurnsBeyond
    <2>1. k \in 1 .. n /\ ~(k <= q) /\ q >= 1
        BY <1>1, <1>2, <1>3, <1>7
    <2>2. k > 1 /\ IsTurn(k)
        BY <1>2, <1>3, <1>11, <2>1
    <2>3. k \in closedAt
        BY <1>4, <2>1, <2>2
    <2>4. k \in closes /\ StateIn(h, d) = "closed" /\ IsLast(k)
        BY <1>5, <2>3
    <2> QED
        BY <2>4
<1> QED
    BY <1>2, <1>3, <1>7, <1>8, <1>9, <1>10, <1>12, <1>13 DEF F

\* The look that a first seen change request is taken back to.
LEMMA RewoundIs ==
    ASSUME NEW c \in CRs, NEW new \in Looks, NEW acts
    PROVE  LET turns == {k \in acts : Turned(c, k)}
               first == CHOOSE k \in turns : \A j \in turns : k <= j
           IN  /\ Rewound(c, new, acts) \in Looks
               /\ acts = turns => Rewound(c, new, acts).head = new.head
               /\ acts # turns => Rewound(c, new, acts).head = NoHead
               /\ turns = {} => Rewound(c, new, acts).state = new.state
               /\ turns # {} /\ remote[c][first].kind = "closed" => Rewound(c, new, acts).state = "opened"
<1> DEFINE turns == {k \in acts : Turned(c, k)}
           first == CHOOSE k \in turns : \A j \in turns : k <= j
<1>1. Rewound(c, new, acts) =
        [head |-> IF acts = turns THEN new.head ELSE NoHead,
         state |-> IF turns = {} THEN new.state
                   ELSE IF remote[c][first].kind = "closed" THEN "opened" ELSE "closed"]
    BY Zenon DEF Rewound, Turned
<1>2. new.head \in Shas /\ new.state \in States /\ NoHead \in Shas
    BY ScanAssumption DEF Looks, Shas, NoHead
<1> HIDE DEF turns, first
<1>3. Rewound(c, new, acts) \in Looks
    BY <1>1, <1>2 DEF Looks, States
<1> QED
    BY <1>1, <1>3 DEF turns, first

\* What is saved of a change request, from where the replay begins and what it is given.
News(c, old, acts, read) ==
    (IF snap[c] = 0 /\ remote[c][1].at >= Window THEN {OpenedEvent(c)} ELSE {})
    \union Replay(c, old, View(c, scan.seen[c]), acts, read, remote[c][scan.seen[c]].at)

\* What a look at a change request is, once its activities could be read.
Looked(c, a, old, acts) ==
    LET h == remote[c]
        begun == snap[c] # 0 \/ h[1].at >= Window
    IN  /\ a \in [detail : Nat, state : Nat, version : Nat]
        /\ {a.detail, a.state, a.version} \subseteq scan.seen[c] .. Now(c)
        /\ provider = "gitlab" => /\ StateIn(h, a.detail) = StateIn(h, scan.seen[c])
                                  /\ Sha(h, a.version) = Sha(h, scan.seen[c])
        /\ provider # "gitlab" => a.detail = a.state
        /\ acts \in SUBSET (1 .. Now(c)) /\ old \in Looks
        /\ \A k \in acts : h[k].kind \in Reports
        /\ provider = "gitlab" => HeadsFit(c, old, acts, Sha(h, snap[c]), scan.seen[c])
        /\ begun => /\ TurnsFrom(c, acts, Start(c), a.state)
                    /\ TurnsBeyond(c, acts, a.state, a.detail)
                    /\ old.state = StateIn(h, IF snap[c] = 0 THEN 1 ELSE snap[c])
                    /\ provider = "gitlab" =>
                        \A k \in 1 .. Now(c) :
                            h[k].kind = "committed" /\ cursor[c].version < k /\ k <= a.version => k \in acts

\* The latest commit among numbers of which each commit up to v is one from somewhere on.
LEMMA LatestCommit ==
    ASSUME NEW h, NEW n \in Nat, NEW v \in 0 .. n, NEW C \in SUBSET (1 .. n), C # {},
           \A k \in C : h[k].kind = "committed" /\ k <= v,
           \A j \in C, k \in 1 .. v : h[k].kind = "committed" /\ j <= k => k \in C
    PROVE  \E k \in C : Sha(h, k) = Sha(h, v)
<1>1. PICK k \in C : \A j \in C : j <= k
    BY Largest
<1>2. k \in Nat /\ v \in Nat /\ k <= v
    OBVIOUS
<1>3. ASSUME NEW j \in k + 1 .. v PROVE h[j].kind # "committed"
    <2>1. j \in 1 .. v /\ k <= j /\ ~(j <= k)
        BY <1>2
    <2> QED
        BY <1>1, <2>1
<1>4. Sha(h, v) = Sha(h, k)
    BY <1>2, <1>3, ShaBetween
<1> QED
    BY <1>4

\* Of a change request whose activities can be read the whole difference is saved.
LEMMA Processed ==
    ASSUME Types, PrefixInv, HistoryInv, PlaceInv, NEW c \in CRs, Process(c), c \notin rebase
    PROVE  \E a, old, acts :
              /\ Looked(c, a, old, acts)
              /\ Save(c, News(c, old, acts, a.state))
              /\ cursor' = [cursor EXCEPT ![c] = [state |-> a.state, version |-> a.version]]
<1> DEFINE h == remote[c]
           s == scan.seen[c]
           new == View(c, s)
<1>1. PICK a \in Readings(c) :
        /\ SameVersion(c, a)
        /\ \/ /\ snap[c] = 0
              /\ \E dated \in SUBSET {k \in Fresh(c, a) : remote[c][k].at >= Window} :
                    /\ \A k \in Fresh(c, a) :
                          /\ remote[c][k].at >= Window
                          /\ provider = "gitlab" \/ remote[c][k].kind # "committed"
                          => k \in dated
                    /\ Save(c, FirstSeen(c, dated, a.state))
           \/ snap[c] # 0 /\ Save(c, Changes(c, Fresh(c, a), a.state))
        /\ cursor' = [cursor EXCEPT ![c] = [state |-> a.state, version |-> a.version]]
    BY DEF Process
<1>2. scan.phase = "listed" /\ c \in scan.left
    BY DEF Process
<1>3. /\ {a.detail, a.state, a.version} \subseteq s .. Now(c)
      /\ Fresh(c, a) \in SUBSET (1 .. Now(c))
      /\ \A k \in Fresh(c, a) : h[k].kind \in Reports
      /\ \A k \in 1 .. Now(c) : h[k].kind = "committed" =>
           (k \in Fresh(c, a) <=> cursor[c].version < k /\ k <= a.version)
      /\ TurnsFrom(c, Fresh(c, a), Start(c), a.state)
      /\ TurnsBeyond(c, Fresh(c, a), a.state, a.detail)
      /\ Start(c) \in 1 .. Now(c) /\ Start(c) <= s /\ s \in 1 .. Now(c)
    BY <1>2, FreshIs
<1>4. /\ Now(c) \in Nat /\ Now(c) <= MaxActs /\ Alternates(c)
      /\ \A j, k \in 1 .. Now(c) : j <= k => h[j].at <= h[k].at
      /\ \A k \in 1 .. Now(c) : h[k].at \in Int
      /\ StateIn(h, 1) = "opened"
    <2>1. Now(c) \in Nat /\ Now(c) >= 1
        BY <1>3, HistoryIs
    <2> QED
        BY <2>1, HistoryIs
<1>5. new \in Looks /\ new.head = Sha(h, s) /\ new.state = StateIn(h, s)
    BY <1>3, <1>4, ViewOk
<1>6. a \in [detail : Nat, state : Nat, version : Nat]
    <2>1. a \in [detail : s .. Now(c), state : s .. Now(c), version : s .. Now(c)]
        BY DEF Readings
    <2>2. \A k \in s .. Now(c) : k \in Nat
        BY <1>3, <1>4
    <2> QED
        BY <2>1, <2>2
<1>7. provider = "gitlab" => StateIn(h, a.detail) = StateIn(h, s) /\ Sha(h, a.version) = Sha(h, s)
    <2> SUFFICES ASSUME provider = "gitlab"
                 PROVE  StateIn(h, a.detail) = StateIn(h, s) /\ Sha(h, a.version) = Sha(h, s)
        OBVIOUS
    <2>1. View(c, a.detail) = View(c, s) /\ ShaAt(c, a.detail) = ShaAt(c, a.version)
        BY <1>1 DEF SameVersion, Readings
    <2>2. a.detail \in 1 .. Now(c)
        BY <1>3, <1>4
    <2>3. View(c, a.detail).head = Sha(h, a.detail) /\ View(c, a.detail).state = StateIn(h, a.detail)
        BY <1>4, <2>2, ViewOk
    <2>4. ShaAt(c, a.detail) = Sha(h, a.detail) /\ ShaAt(c, a.version) = Sha(h, a.version)
        BY Zenon DEF Sha, ShaAt
    <2> QED
        BY <1>5, <2>1, <2>3, <2>4
<1>13. provider # "gitlab" => a.detail = a.state
    BY DEF Readings
<1>8. /\ snap[c] \in Nat /\ snap[c] <= s /\ s \in Nat
      /\ cursor[c].version \in Nat /\ snap[c] <= cursor[c].version
      /\ snap[c] = 0 => cursor[c].version = 0
      /\ a.version \in Nat /\ a.state \in Nat /\ s <= a.version /\ s <= a.state
    <2>1. cursor[c] \in [state : Nat, version : Nat]
        BY DEF PlaceInv
    <2> QED
        BY <1>2, <1>3, <1>4, <1>6, <2>1 DEF PlaceInv, Types, StoredType
<1>9. \A n \in Nat : Sha(h, n) \in Nat
    BY ShaSteps
\* The heads of some of the fresh activities, the later commits among them.
<1>10. ASSUME NEW acts \in SUBSET Fresh(c, a), provider = "gitlab",
              \A j \in acts, k \in Fresh(c, a) : j <= k => k \in acts
       PROVE  LET commits == {k \in acts : h[k].kind = "committed"}
              IN  /\ \A k \in commits : Sha(h, snap[c]) < Sha(h, k) /\ Sha(h, k) <= Sha(h, s)
                  /\ commits # {} => \E k \in commits : Sha(h, k) = Sha(h, s)
    <2> DEFINE commits == {k \in acts : h[k].kind = "committed"}
    <2>1. ASSUME NEW k \in commits
          PROVE  /\ k \in 1 .. Now(c) /\ k \in acts /\ h[k].kind = "committed"
                 /\ cursor[c].version < k /\ k <= a.version
        BY <1>3
    <2>2. ASSUME NEW k \in commits PROVE Sha(h, snap[c]) < Sha(h, k) /\ Sha(h, k) <= Sha(h, s)
        <3>1. k \in Nat /\ snap[c] < k
            BY <1>4, <1>8, <2>1
        <3>2. Sha(h, snap[c]) < Sha(h, k)
            BY <1>8, <2>1, <3>1, ShaLater
        <3>3. Sha(h, k) <= Sha(h, a.version)
            BY <1>8, <2>1, <3>1, ShaBetween
        <3> QED
            BY <1>7, <1>10, <3>2, <3>3
    <2>3. ASSUME commits # {} PROVE \E k \in commits : Sha(h, k) = Sha(h, s)
        <3>1. commits \in SUBSET (1 .. Now(c)) /\ a.version \in 0 .. Now(c)
            BY <1>3, <1>4, <1>8, <2>1
        <3>2. ASSUME NEW j \in commits, NEW k \in 1 .. a.version, h[k].kind = "committed", j <= k
              PROVE  k \in commits
            <4>1. k \in 1 .. Now(c) /\ k \in Nat /\ j \in Nat /\ k <= a.version
                BY <1>4, <2>1, <3>1
            <4>2. cursor[c].version < k
                BY <1>8, <2>1, <3>2, <4>1
            <4>3. k \in Fresh(c, a)
                BY <1>3, <3>2, <4>1, <4>2
            <4> QED
                BY <1>10, <2>1, <3>2, <4>3
        <3> HIDE DEF commits
        <3>3. \A k \in commits : h[k].kind = "committed" /\ k <= a.version
            BY <2>1
        <3>4. \E k \in commits : Sha(h, k) = Sha(h, a.version)
            BY <1>4, <2>3, <3>1, <3>2, <3>3, LatestCommit
        <3> QED
            BY <1>7, <1>10, <3>4
    <2> QED
        BY <2>2, <2>3
<1> HIDE DEF new
<1>11. CASE snap[c] # 0
    <2> DEFINE acts == Fresh(c, a)
               old == View(c, snap[c])
    <2>1. Save(c, Replay(c, old, View(c, s), acts, a.state, h[s].at))
        BY <1>1, <1>11 DEF Changes
    <2>2. News(c, old, acts, a.state) = Replay(c, old, View(c, s), acts, a.state, h[s].at)
        BY <1>11 DEF News
    <2>3. snap[c] \in 1 .. Now(c)
        BY <1>3, <1>4, <1>8, <1>11
    <2>4. old \in Looks /\ old.head = Sha(h, snap[c]) /\ old.state = StateIn(h, snap[c])
        BY <1>4, <2>3, ViewOk
    <2> HIDE DEF acts, old
    <2>5. provider = "gitlab" => HeadsFit(c, old, acts, Sha(h, snap[c]), s)
        <3> SUFFICES ASSUME provider = "gitlab" PROVE HeadsFit(c, old, acts, Sha(h, snap[c]), s)
            OBVIOUS
        <3>1. LET commits == {k \in acts : h[k].kind = "committed"}
              IN  /\ \A k \in commits : Sha(h, snap[c]) < Sha(h, k) /\ Sha(h, k) <= Sha(h, s)
                  /\ commits # {} => \E k \in commits : Sha(h, k) = Sha(h, s)
            BY <1>10 DEF acts
        <3>2. Sha(h, snap[c]) <= Sha(h, s)
            BY <1>8, ShaBetween
        <3> QED
            BY <2>4, <3>1, <3>2 DEF HeadsFit
    <2>6. Looked(c, a, old, acts)
        BY <1>3, <1>6, <1>7, <1>11, <1>13, <2>4, <2>5 DEF Looked, acts
    <2> QED
        BY <1>1, <2>1, <2>2, <2>6, Zenon
<1>12. CASE snap[c] = 0
    <2>1. PICK acts \in SUBSET {k \in Fresh(c, a) : h[k].at >= Window} :
            /\ \A k \in Fresh(c, a) :
                  /\ h[k].at >= Window
                  /\ provider = "gitlab" \/ h[k].kind # "committed"
                  => k \in acts
            /\ Save(c, FirstSeen(c, acts, a.state))
        BY <1>1, <1>12
    <2> DEFINE old == Rewound(c, new, acts)
               turns == {k \in acts : Turned(c, k)}
               first == CHOOSE k \in turns : \A j \in turns : k <= j
    <2>2. FirstSeen(c, acts, a.state) = News(c, old, acts, a.state)
        BY <1>12 DEF FirstSeen, News, new
    <2>3. /\ old \in Looks
          /\ acts = turns => old.head = new.head
          /\ acts # turns => old.head = NoHead
          /\ turns = {} => old.state = new.state
          /\ turns # {} /\ h[first].kind = "closed" => old.state = "opened"
        BY <1>5, RewoundIs
    <2>4. /\ acts \in SUBSET (1 .. Now(c))
          /\ \A k \in acts : h[k].kind \in Reports /\ k \in Fresh(c, a) /\ h[k].at >= Window
        BY <1>3, <2>1
    <2>5. Window \in Int
        BY ScanAssumption DEF Window, Types, StoredType, ScanType, Times, Never
    <2> HIDE DEF old
    <2>6. provider = "gitlab" => HeadsFit(c, old, acts, Sha(h, snap[c]), s)
        <3> SUFFICES ASSUME provider = "gitlab" PROVE HeadsFit(c, old, acts, Sha(h, snap[c]), s)
            OBVIOUS
        <3>1. ASSUME NEW j \in acts, NEW k \in Fresh(c, a), j <= k PROVE k \in acts
            <4>1. j \in 1 .. Now(c) /\ k \in 1 .. Now(c) /\ h[j].at >= Window
                BY <1>3, <2>4
            <4>2. h[k].at >= Window
                BY <1>4, <2>5, <3>1, <4>1
            <4> QED
                BY <2>1, <4>2
        <3> DEFINE commits == {k \in acts : h[k].kind = "committed"}
        <3>2. acts \in SUBSET Fresh(c, a)
            BY <2>4
        <3>3. /\ \A k \in commits : Sha(h, snap[c]) < Sha(h, k) /\ Sha(h, k) <= Sha(h, s)
              /\ commits # {} => \E k \in commits : Sha(h, k) = Sha(h, s)
            BY <1>10, <3>1, <3>2
        <3>4. commits = {} <=> acts = turns
            BY DEF Turned
        <3>5. commits = {} => old.head = Sha(h, s)
            BY <1>5, <2>3, <3>4
        <3>6. ASSUME NEW k \in commits PROVE old.head < Sha(h, k)
            <4>1. old.head = NoHead
                BY <2>3, <3>4
            <4>2. Sha(h, k) \in Nat
                BY <1>9, <2>4
            <4> QED
                BY <4>1, <4>2 DEF NoHead
        <3> QED
            BY <3>3, <3>5, <3>6 DEF HeadsFit
    <2>7. ASSUME h[1].at >= Window
          PROVE  /\ TurnsFrom(c, acts, Start(c), a.state)
                 /\ TurnsBeyond(c, acts, a.state, a.detail)
                 /\ old.state = "opened"
                 /\ provider = "gitlab" =>
                     \A k \in 1 .. Now(c) :
                         h[k].kind = "committed" /\ cursor[c].version < k /\ k <= a.version => k \in acts
        <3>1. ASSUME NEW k \in 1 .. Now(c) PROVE h[k].at >= Window
            <4>1. 1 \in 1 .. Now(c) /\ 1 <= k
                BY <1>4
            <4> QED
                BY <1>4, <2>5, <2>7, <4>1
        <3>2. \A k \in Fresh(c, a) : Turned(c, k) \/ provider = "gitlab" => k \in acts
            BY <1>3, <2>1, <3>1 DEF Turned
        <3>3. TurnsFrom(c, acts, 1, a.state)
            <4>1. Start(c) = 1
                BY <1>12 DEF Start
            <4> QED
                BY <1>3, <2>4, <3>2, <4>1 DEF TurnsFrom
        <3>4. TurnsBeyond(c, acts, a.state, a.detail)
            BY <1>3, <2>4 DEF TurnsBeyond
        <3>5. old.state = "opened"
            <4>1. CASE turns = {}
                <5>1. ASSUME NEW k \in 1 + 1 .. s PROVE h[k].kind = "committed"
                    <6>1. k \in 1 .. a.state /\ 1 < k
                        BY <1>8
                    <6>2. k \in acts \/ ~Turned(c, k)
                        BY <3>3, <6>1 DEF TurnsFrom
                    <6> QED
                        BY <4>1, <6>2 DEF Turned
                <5>2. StateIn(h, s) = StateIn(h, 1)
                    <6>1. 1 \in Nat \ {0} /\ 1 <= s
                        BY <1>3, <1>4
                    <6> QED
                        BY <1>8, <5>1, <6>1, StateSteps
                <5> QED
                    BY <1>4, <1>5, <2>3, <4>1, <5>2
            <4>2. CASE turns # {}
                <5>1. turns \subseteq Nat
                    BY <1>4, <2>4
                <5>2. \E k \in turns : \A j \in turns : k <= j
                    <6> HIDE DEF turns
                    <6> QED
                        BY <4>2, <5>1, Smallest
                <5>3. first \in turns /\ \A j \in turns : first <= j
                    <6> HIDE DEF turns
                    <6> QED
                        BY <5>2, Zenon
                <5> HIDE DEF first
                <5>4. first \in acts /\ Turned(c, first) /\ first \in 1 .. Now(c)
                    BY <2>4, <5>3
                <5>5. CASE a.state < first
                    <6>1. h[first].kind = "closed"
                        BY <3>4, <5>4, <5>5 DEF TurnsBeyond
                    <6> QED
                        BY <2>3, <4>2, <6>1 DEF first
                <5>6. CASE ~(a.state < first)
                    <6>1. first \in 1 .. a.state /\ first \in Nat
                        BY <1>4, <1>8, <5>4, <5>6
                    <6>2. 1 < first
                        BY <3>3, <5>4, <6>1 DEF TurnsFrom
                    <6>3. ASSUME NEW k \in 1 + 1 .. first - 1 PROVE h[k].kind = "committed"
                        <7>1. k \in 1 .. a.state /\ 1 < k /\ ~(first <= k)
                            BY <1>8, <6>1
                        <7>2. k \notin turns
                            BY <5>3, <7>1
                        <7>3. k \in acts \/ ~Turned(c, k)
                            BY <3>3, <7>1 DEF TurnsFrom
                        <7> QED
                            BY <7>2, <7>3 DEF Turned
                    <6>4. StateIn(h, first - 1) = StateIn(h, 1)
                        <7>1. 1 \in Nat \ {0} /\ first - 1 \in Nat /\ 1 <= first - 1
                            BY <6>1, <6>2
                        <7> QED
                            BY <6>3, <7>1, StateSteps
                    <6>5. first \in 2 .. Now(c)
                        BY <1>4, <5>4, <6>1, <6>2
                    <6>6. StateAfter(h[first].kind) # "opened"
                        BY <1>4, <5>4, <6>4, <6>5 DEF Alternates
                    <6>7. h[first].kind = "closed"
                        BY <6>6 DEF StateAfter
                    <6> QED
                        BY <2>3, <4>2, <6>7 DEF first
                <5> QED
                    BY <5>5, <5>6
            <4> QED
                BY <4>1, <4>2
        <3>6. ASSUME provider = "gitlab", NEW k \in 1 .. Now(c),
                     h[k].kind = "committed", cursor[c].version < k, k <= a.version
              PROVE  k \in acts
            BY <1>3, <3>2, <3>6
        <3>7. Start(c) = 1
            BY <1>12 DEF Start
        <3> QED
            BY <3>3, <3>4, <3>5, <3>6, <3>7
    <2>8. Looked(c, a, old, acts)
        BY <1>3, <1>4, <1>6, <1>7, <1>12, <1>13, <2>3, <2>4, <2>6, <2>7 DEF Looked
    <2> QED
        BY <1>1, <2>1, <2>2, <2>8, Zenon
<1> QED
    BY <1>11, <1>12

-----------------------------------------------------------------------------
(* What is saved of it.                                                     *)

\* Where the heads of the target branch stand to one another.
TargetsInv ==
    /\ scan.target <= target /\ (scan.phase # "listed" => scan.target = NoHead)
    /\ \A c \in CRs : /\ snapTarget[c] <= target
                      /\ scan.target # NoHead => snapTarget[c] <= scan.target

\* What the inbox holds is of a change request with a snapshot and of activities that
\* have happened, none newer than the list that is worked on; heads are no newer than
\* the snapshot.
EventOk(e) ==
    LET c == e.cr
        h == remote[c]
    IN  /\ e \in EventType /\ snap[c] # 0
        /\ e.type \in Reports => e.via \in {"activity", "detail", "diff"}
        /\ e.via \in {"activity", "detail"} =>
              /\ e.key \in 1 .. Now(c)
              /\ scan.phase = "listed" /\ c \in scan.left => e.key <= scan.seen[c]
        /\ e.type = "target" => e.new.head <= snapTarget[c]
        /\ e.type = "committed" /\ provider = "gitlab" =>
              /\ e.new.head \in 1 .. Sha(h, snap[c])
              /\ e.via # "diff" => e.new.head = Sha(h, e.key)
EventInv == \A e \in events : EventOk(e)

\* What the steps below ask of the state they start from.
Before == Types /\ ClockInv /\ PrefixInv /\ HistoryInv /\ PlaceInv /\ TargetsInv

\* What is saved, however the turn of the loop goes.
LEMMA Saved ==
    ASSUME Types, PrefixInv, HistoryInv, PlaceInv, NEW c \in CRs, Process(c) \/ ProcessUnread(c)
    PROVE  \E old \in Looks : \E acts \in SUBSET (1 .. Now(c)) : \E read :
              /\ Save(c, News(c, old, acts, read))
              /\ \A k \in acts : remote[c][k].kind \in Reports
              /\ provider = "gitlab" => HeadsFit(c, old, acts, Sha(remote[c], snap[c]), scan.seen[c])
<1> DEFINE s == scan.seen[c]
           new == View(c, s)
           Right(old, acts, read) ==
              /\ Save(c, News(c, old, acts, read))
              /\ \A k \in acts : remote[c][k].kind \in Reports
              /\ provider = "gitlab" => HeadsFit(c, old, acts, Sha(remote[c], snap[c]), s)
<1>1. s \in 1 .. Now(c) /\ scan.phase = "listed" /\ c \in scan.left
    BY Leaves
<1>2. Now(c) \in Nat /\ Now(c) <= MaxActs /\ snap[c] \in Nat /\ snap[c] <= s /\ s \in Nat
    BY <1>1, HistoryIs DEF PlaceInv, Types, StoredType
<1>3. new \in Looks /\ new.head = Sha(remote[c], s)
    BY <1>1, <1>2, ViewOk
\* The snapshots alone.
<1>4. ASSUME snap[c] # 0, Save(c, Changes(c, {}, 0))
      PROVE  \E old \in Looks : \E acts \in SUBSET (1 .. Now(c)) : \E read : Right(old, acts, read)
    <2> DEFINE old == View(c, snap[c])
    <2>1. snap[c] \in 1 .. Now(c)
        BY <1>1, <1>2, <1>4
    <2>2. old \in Looks /\ old.head = Sha(remote[c], snap[c])
        BY <1>2, <2>1, ViewOk
    <2>3. Changes(c, {}, 0) = News(c, old, {}, 0)
        BY <1>4 DEF Changes, News
    <2> HIDE DEF old
    <2>4. Sha(remote[c], snap[c]) <= Sha(remote[c], s)
        BY <1>2, ShaBetween
    <2>5. HeadsFit(c, old, {}, Sha(remote[c], snap[c]), s)
        BY <2>2, <2>4 DEF HeadsFit
    <2>6. Right(old, {}, 0)
        BY <1>4, <2>3, <2>5
    <2> HIDE DEF Right
    <2> QED
        BY <2>2, <2>6
<1>5. ASSUME snap[c] = 0, Save(c, FirstSeen(c, {}, 0))
      PROVE  \E old \in Looks : \E acts \in SUBSET (1 .. Now(c)) : \E read : Right(old, acts, read)
    <2> DEFINE old == Rewound(c, new, {})
    <2>1. old \in Looks /\ old.head = new.head
        <3>1. {k \in {} : Turned(c, k)} = {}
            OBVIOUS
        <3> HIDE DEF new
        <3> QED
            BY <1>3, <3>1, RewoundIs
    <2>2. FirstSeen(c, {}, 0) = News(c, old, {}, 0)
        BY <1>5 DEF FirstSeen, News
    <2> HIDE DEF old, new
    <2>3. HeadsFit(c, old, {}, Sha(remote[c], snap[c]), s)
        BY <1>3, <2>1 DEF HeadsFit
    <2>4. Right(old, {}, 0)
        BY <1>5, <2>2, <2>3
    <2> HIDE DEF Right
    <2> QED
        BY <2>1, <2>4
<1>6. CASE Process(c) /\ c \notin rebase
    <2>1. PICK a, old, acts : Looked(c, a, old, acts) /\ Save(c, News(c, old, acts, a.state))
        BY <1>6, Processed
    <2>2. old \in Looks /\ acts \in SUBSET (1 .. Now(c)) /\ Right(old, acts, a.state)
        BY <2>1 DEF Looked
    <2> HIDE DEF Right
    <2>3. \E read : Right(old, acts, read)
        BY <2>2, Zenon
    <2>4. \E old1 \in Looks : \E acts1 \in SUBSET (1 .. Now(c)) : \E read : Right(old1, acts1, read)
        BY <2>2, <2>3, Zenon
    <2> QED
        BY <2>4, Zenon DEF Right
<1>7. CASE Process(c) /\ c \in rebase
    <2>1. snap[c] # 0
        BY <1>7 DEF PlaceInv, Stored
    <2>2. Save(c, Changes(c, {}, 0))
        BY <1>7, <2>1 DEF Process
    <2> QED
        BY <1>4, <2>1, <2>2
<1>8. CASE ProcessUnread(c)
    <2>1. Save(c, IF snap[c] = 0 THEN FirstSeen(c, {}, 0) ELSE Changes(c, {}, 0))
        BY <1>8 DEF ProcessUnread
    <2> QED
        BY <1>4, <1>5, <2>1
<1> QED
    BY <1>6, <1>7, <1>8

\* A difference is an event, of the head or of the state.
LEMMA DifferenceOk ==
    ASSUME NEW c \in CRs, NEW old \in Looks, NEW new \in Looks, NEW at \in Int
    PROVE  \A e \in Differences(c, old, new, at) :
              e \in EventType /\ e.cr = c /\ e.via = "diff" /\ e.type \in Reports
<1> DEFINE turn == Event(c, Toward(new.state), old, new, "diff", at)
           commit == Event(c, "committed", old, new, "diff", at)
<1>1. \A e \in Differences(c, old, new, at) : e = turn \/ e = commit
    BY DifferencesAre DEF Looks
<1>2. Toward(new.state) \in Reports /\ "committed" \in Reports
    BY DEF Toward, Reports
<1>3. \A type \in Reports : Field(type, old) \in Views /\ Field(type, new) \in Views
    BY FieldOk
<1>4. ASSUME NEW type \in Reports
      PROVE  LET e == Event(c, type, old, new, "diff", at)
             IN  e \in EventType /\ e.cr = c /\ e.via = "diff" /\ e.type \in Reports
    <2>1. Field(type, old) \in Views /\ Field(type, new) \in Views
        BY <1>3
    <2>2. type \in {"opened", "committed", "closed", "reopened", "target"}
        BY DEF Reports
    <2> QED
        BY <2>1, <2>2 DEF Event, EventType
<1>5. turn \in EventType /\ turn.cr = c /\ turn.via = "diff" /\ turn.type \in Reports
    BY <1>2, <1>4
<1>6. commit \in EventType /\ commit.cr = c /\ commit.via = "diff" /\ commit.type \in Reports
    BY <1>2, <1>4
<1> HIDE DEF turn, commit
<1> QED
    BY <1>1, <1>5, <1>6

\* What the news of a change request are.
LEMMA NewsAre ==
    ASSUME Types, PrefixInv, HistoryInv, NEW c \in CRs, scan.seen[c] \in 1 .. Now(c),
           NEW old \in Looks, NEW acts \in SUBSET (1 .. Now(c)), NEW read,
           \A k \in acts : remote[c][k].kind \in Reports
    PROVE  \A e \in News(c, old, acts, read) :
              /\ e \in EventType /\ e.cr = c
              /\ \/ e = OpenedEvent(c) /\ snap[c] = 0 /\ remote[c][1].at >= Window
                 \/ /\ e.type \in Reports /\ e.via \in {"activity", "detail", "diff"}
                    /\ e.via # "diff" => e.key \in 1 .. Now(c)
                    /\ e \in Replay(c, old, View(c, scan.seen[c]), acts, read, remote[c][scan.seen[c]].at)
<1> DEFINE new == View(c, scan.seen[c])
           at == remote[c][scan.seen[c]].at
           last == ViewAfter(c, old, acts, Now(c))
           R == Replay(c, old, new, acts, read, at)
<1>1. /\ Now(c) \in Nat /\ Now(c) <= MaxActs /\ at \in Int
    BY HistoryIs
<1>2. new \in Looks /\ last \in Looks
    BY <1>1, ViewOk, ViewAfterOk
<1>3. OpenedEvent(c) \in EventType /\ OpenedEvent(c).cr = c
    BY ScanAssumption DEF OpenedEvent, EventType, Blank, Views, Shas, NoHead
<1>4. \A e \in R : \/ \E k \in acts : e = ActEvent(c, old, acts, read, k)
                   \/ e \in Differences(c, last, new, at)
    BY <1>1, ReplayHas
<1>5. ASSUME NEW k \in acts
      PROVE  LET e == ActEvent(c, old, acts, read, k)
             IN  /\ e \in EventType /\ e.cr = c
                 /\ e.type \in Reports /\ e.via \in {"activity", "detail"} /\ e.key \in 1 .. Now(c)
    <2> DEFINE e == ActEvent(c, old, acts, read, k)
    <2>1. remote[c][k].kind \in Reports
        OBVIOUS
    <2>2. /\ e \in EventType /\ e.cr = c /\ e.type = remote[c][k].kind /\ e.key = k
          /\ e.via = (IF k <= read THEN "activity" ELSE "detail")
          /\ e.type = "committed" => e.new = [head |-> Sha(remote[c], k), state |-> "any"]
        BY <1>1, <2>1, ActEventIs
    <2> HIDE DEF e
    <2> QED
        BY <2>1, <2>2 DEF e
<1> HIDE DEF new, at, last, R
<1>6. \A e \in Differences(c, last, new, at) :
        e \in EventType /\ e.cr = c /\ e.via = "diff" /\ e.type \in Reports
    BY <1>1, <1>2, DifferenceOk
<1>8. ASSUME NEW e \in R
      PROVE  /\ e \in EventType /\ e.cr = c
             /\ e.type \in Reports /\ e.via \in {"activity", "detail", "diff"}
             /\ e.via # "diff" => e.key \in 1 .. Now(c)
    <2>1. CASE e \in Differences(c, last, new, at)
        BY <1>6, <2>1
    <2>2. CASE \E k \in acts : e = ActEvent(c, old, acts, read, k)
        BY <1>5, <2>2
    <2> QED
        BY <1>4, <2>1, <2>2
<1>9. \A e \in News(c, old, acts, read) :
        \/ e = OpenedEvent(c) /\ snap[c] = 0 /\ remote[c][1].at >= Window
        \/ e \in R
    BY DEF News, R, new, at
<1> QED
    BY <1>3, <1>8, <1>9 DEF R, new, at

\* What is in the inbox stays, what is new to it joins.
LEMMA InsertedIs ==
    ASSUME NEW new
    PROVE  /\ events \subseteq Inserted(new)
           /\ \A e \in Inserted(new) : e \in events \/ e \in new
           /\ \A e \in new : \E f \in Inserted(new) : SameId(e, f)
<1>1. \A e : SameId(e, e)
    BY DEF SameId
<1> QED
    BY <1>1 DEF Inserted

\* One transaction: the events and the head of the target branch.
LEMMA SavedEvents ==
    ASSUME Types, TargetsInv, NEW c \in CRs, NEW new, Save(c, new)
    PROVE  /\ events \subseteq events'
           /\ \A e \in new : \E f \in events' : SameId(e, f)
           /\ \A e \in events' :
                 \/ e \in events \/ e \in new
                 \/ /\ e = TargetEvent(c, snapTarget[c], scan.target) /\ snap[c] # 0
                    /\ scan.target \in Nat /\ snapTarget[c] < scan.target
           /\ snapTarget' = [snapTarget EXCEPT ![c] =
                                IF scan.target # NoHead THEN scan.target ELSE snapTarget[c]]
<1> DEFINE head == IF scan.target # NoHead THEN scan.target ELSE snapTarget[c]
           moved == /\ snap[c] # 0 /\ State(c, scan.seen[c]) = "opened"
                    /\ snapTarget[c] # NoHead /\ head # snapTarget[c]
           all == new \union (IF moved THEN {TargetEvent(c, snapTarget[c], head)} ELSE {})
<1>1. events' = Inserted(all) /\ snapTarget' = [snapTarget EXCEPT ![c] = head]
    BY Zenon DEF Save
<1>2. scan.target \in Heads /\ snapTarget[c] \in Heads
    BY DEF Types, StoredType, ScanType
<1>3. moved => head = scan.target /\ scan.target \in Nat /\ snapTarget[c] < scan.target
    BY <1>2 DEF TargetsInv, Heads, NoHead
<1> HIDE DEF moved, head
<1>4. /\ events \subseteq Inserted(all)
      /\ \A e \in Inserted(all) : e \in events \/ e \in all
      /\ \A e \in all : \E f \in Inserted(all) : SameId(e, f)
    BY InsertedIs
<1>5. moved => snap[c] # 0
    BY DEF moved
<1>6. ASSUME NEW e \in all
      PROVE  e \in new \/ (e = TargetEvent(c, snapTarget[c], head) /\ moved)
    OBVIOUS
<1>7. \A e \in new : e \in all
    OBVIOUS
<1> HIDE DEF all
<1> QED
    BY <1>1, <1>3, <1>4, <1>5, <1>6, <1>7 DEF head

-----------------------------------------------------------------------------
(* Nothing is taken back.                                                   *)

\* Each step keeps the heads in their order.
LEMMA NextTargets == Types /\ PrefixInv /\ PlaceInv /\ TargetsInv /\ [Next]_vars => TargetsInv'
<1> SUFFICES ASSUME Types, PrefixInv, PlaceInv, TargetsInv, [Next]_vars PROVE TargetsInv'
    OBVIOUS
<1>a. /\ snapTarget \in [CRs -> Heads] /\ scan.target \in Heads /\ target \in Nat
      /\ \A c \in CRs : snapTarget[c] \in Heads
    BY DEF Types, PlatformType, StoredType, ScanType
<1>b. /\ scan.target <= target /\ (scan.phase # "listed" => scan.target = NoHead)
      /\ \A c \in CRs : /\ snapTarget[c] <= target
                        /\ scan.target # NoHead => snapTarget[c] <= scan.target
    BY DEF TargetsInv
<1>1. CASE UNCHANGED <<target, scan, snapTarget>>
    BY <1>b, <1>1 DEF TargetsInv
<1>2. CASE MoveTarget
    <2>1. target' = target + 1 /\ UNCHANGED <<scan, snapTarget>>
        BY <1>2 DEF MoveTarget, stored
    <2> QED
        BY <1>a, <1>b, <2>1 DEF TargetsInv, Heads, NoHead
<1>3. CASE Begin
    <2>1. UNCHANGED <<target, snapTarget>> /\ scan'.target = scan.target /\ scan.phase # "listed"
        BY <1>3 DEF Begin, stored, platform, Types, ScanType
    <2> QED
        BY <1>b, <2>1 DEF TargetsInv
<1>4. CASE List
    <2>1. UNCHANGED <<target, snapTarget>>
        BY <1>4 DEF List, stored, platform
    <2>2. scan'.phase = "listed" /\ scan'.target \in {target, NoHead}
        BY <1>4 DEF List, Types, ScanType
    <2> QED
        BY <1>a, <1>b, <2>1, <2>2 DEF TargetsInv, Heads, NoHead
<1>5. CASE Complete \/ Fail
    <2>1. UNCHANGED <<target, snapTarget>>
        BY <1>5 DEF Complete, Fail, stored, platform
    <2>2. scan'.target = NoHead
        BY <1>5 DEF Complete, Fail, Types, ScanType
    <2> QED
        BY <1>a, <1>b, <2>1, <2>2 DEF TargetsInv, Heads, NoHead
<1>6. ASSUME NEW c \in CRs, snapTarget' = [snapTarget EXCEPT ![c] =
                                IF scan.target # NoHead THEN scan.target ELSE snapTarget[c]],
             scan'.target = scan.target, target' = target, scan'.phase = scan.phase
      PROVE  TargetsInv'
    BY <1>a, <1>b, <1>6 DEF TargetsInv, Heads, NoHead
<1>7. ASSUME NEW c \in CRs, Process(c) \/ ProcessUnread(c) PROVE TargetsInv'
    <2>1. /\ scan'.target = scan.target /\ target' = target /\ scan'.phase = scan.phase
        BY <1>7, Leaves DEF platform
    <2>2. PICK new : Save(c, new)
        BY <1>7, Saves
    <2>3. snapTarget' = [snapTarget EXCEPT ![c] =
                            IF scan.target # NoHead THEN scan.target ELSE snapTarget[c]]
        BY <2>2, SavedEvents
    <2> QED
        BY <1>6, <2>1, <2>3
<1>8. ASSUME NEW c \in CRs, TargetPass(c) PROVE TargetsInv'
    <2>1. /\ scan' = scan /\ target' = target
          /\ snapTarget' = [snapTarget EXCEPT ![c] = scan.target]
        BY <1>8 DEF TargetPass, platform
    <2>2. scan.target # NoHead
        BY <1>8 DEF TargetPass, Lagging
    <2> QED
        BY <1>6, <2>1, <2>2
<1>9. ASSUME NEW c \in CRs, NEW kind \in Kinds, Act(c, kind) PROVE UNCHANGED <<target, scan, snapTarget>>
    BY <1>9 DEF Act, stored
<1>10. Tick => UNCHANGED <<target, scan, snapTarget>>
    BY DEF Tick, stored
<1>11. ASSUME NEW c \in CRs, Rebaseline(c) PROVE UNCHANGED <<target, scan, snapTarget>>
    BY <1>11 DEF Rebaseline, platform
<1>12. UNCHANGED vars => UNCHANGED <<target, scan, snapTarget>>
    BY DEF vars, platform, stored
<1> QED
    BY <1>1, <1>2, <1>3, <1>4, <1>5, <1>7, <1>8, <1>9, <1>10, <1>11, <1>12, Steps

\* Nothing is taken back: neither an event nor how far a snapshot or the head it was
\* compared with has come.
LEMMA Onward ==
    ASSUME Types, PrefixInv, PlaceInv, TargetsInv, [Next]_vars
    PROVE  /\ provider' = provider /\ events \subseteq events'
           /\ \A c \in CRs :
                /\ snap[c] <= snap'[c] /\ snapTarget[c] <= snapTarget'[c]
                /\ scan'.phase = "listed" /\ c \in scan'.left =>
                      \/ scan.phase = "listed" /\ c \in scan.left /\ scan'.seen[c] = scan.seen[c]
                      \/ scan'.seen[c] = Now(c)
<1> DEFINE Kept(c) == scan'.phase = "listed" /\ c \in scan'.left =>
                      \/ scan.phase = "listed" /\ c \in scan.left /\ scan'.seen[c] = scan.seen[c]
                      \/ scan'.seen[c] = Now(c)
           Goal == /\ provider' = provider /\ events \subseteq events'
                   /\ \A c \in CRs : snap[c] <= snap'[c] /\ snapTarget[c] <= snapTarget'[c] /\ Kept(c)
<1>a. /\ snap \in [CRs -> Nat] /\ snapTarget \in [CRs -> Heads] /\ scan.target \in Heads
      /\ \A c \in CRs : snap[c] \in Nat /\ snapTarget[c] \in Heads /\ snap[c] <= snap[c]
                        /\ snapTarget[c] <= snapTarget[c]
    BY DEF Types, StoredType, ScanType, Heads, NoHead
<1>1. ASSUME UNCHANGED <<provider, events, snap, snapTarget>>, \A c \in CRs : Kept(c)
      PROVE  Goal
    BY <1>1, <1>a
<1>2. ASSUME UNCHANGED <<provider, events, snap, snapTarget, scan>>
      PROVE  Goal
    BY <1>1, <1>2
<1>3. ASSUME Begin \/ Complete \/ Fail PROVE Goal
    <2>1. UNCHANGED <<provider, events, snap, snapTarget>>
        BY <1>3 DEF Begin, Complete, Fail, stored, platform
    <2>2. scan'.phase # "listed"
        BY <1>3 DEF Begin, Complete, Fail, Types, ScanType
    <2> QED
        BY <1>1, <2>1, <2>2
<1>4. ASSUME List PROVE Goal
    <2>1. UNCHANGED <<provider, events, snap, snapTarget>>
        BY <1>4 DEF List, stored, platform
    <2>2. \A c \in scan'.left : c \in CRs => scan'.seen[c] = Now(c)
        BY <1>4 DEF List, Types, ScanType
    <2> QED
        BY <1>1, <2>1, <2>2
<1>5. ASSUME NEW d \in CRs, Process(d) \/ ProcessUnread(d) PROVE Goal
    <2>1. /\ scan.phase = "listed" /\ d \in scan.left /\ provider' = provider
          /\ scan'.left = scan.left \ {d} /\ scan'.seen = scan.seen
          /\ snap' = [snap EXCEPT ![d] = scan.seen[d]]
        BY <1>5, Leaves DEF platform
    <2>2. snap[d] <= scan.seen[d]
        BY <2>1 DEF PlaceInv
    <2>3. PICK new : Save(d, new)
        BY <1>5, Saves
    <2>4. /\ events \subseteq events'
          /\ snapTarget' = [snapTarget EXCEPT ![d] =
                                IF scan.target # NoHead THEN scan.target ELSE snapTarget[d]]
        BY <2>3, SavedEvents
    <2>5. scan.target # NoHead => snapTarget[d] <= scan.target
        BY DEF TargetsInv
    <2>6. \A c \in CRs : snapTarget[c] <= snapTarget'[c]
        BY <1>a, <2>4, <2>5
    <2>7. \A c \in CRs : snap[c] <= snap'[c]
        BY <1>a, <2>1, <2>2
    <2>8. \A c \in CRs : Kept(c)
        BY <2>1
    <2> QED
        BY <2>1, <2>4, <2>6, <2>7, <2>8
<1>6. ASSUME NEW d \in CRs, TargetPass(d) PROVE Goal
    <2>1. /\ UNCHANGED <<provider, scan, snap>> /\ scan.target # NoHead
          /\ snapTarget' = [snapTarget EXCEPT ![d] = scan.target]
          /\ \E new : events' = Inserted(new)
        BY <1>6 DEF TargetPass, platform, Lagging
    <2>2. snapTarget[d] <= scan.target
        BY <2>1 DEF TargetsInv
    <2>3. \A c \in CRs : snapTarget[c] <= snapTarget'[c]
        BY <1>a, <2>1, <2>2
    <2>4. events \subseteq events'
        BY <2>1, InsertedIs
    <2> QED
        BY <1>a, <2>1, <2>3, <2>4
<1>7. ASSUME NEW c \in CRs, NEW kind \in Kinds, Act(c, kind)
      PROVE  UNCHANGED <<provider, events, snap, snapTarget, scan>>
    BY <1>7 DEF Act, stored
<1>8. MoveTarget \/ Tick => UNCHANGED <<provider, events, snap, snapTarget, scan>>
    BY DEF MoveTarget, Tick, stored
<1>9. ASSUME NEW c \in CRs, Rebaseline(c) PROVE UNCHANGED <<provider, events, snap, snapTarget, scan>>
    BY <1>9 DEF Rebaseline, platform
<1>10. UNCHANGED vars => UNCHANGED <<provider, events, snap, snapTarget, scan>>
    BY DEF vars, platform, stored
<1>11. Goal
    <2> HIDE DEF Goal, Kept
    <2>1. /\ (\E c \in CRs : \E kind \in Kinds : Act(c, kind)) => Goal
          /\ (\E c \in CRs : Rebaseline(c)) => Goal
        BY <1>2, <1>7, <1>9
    <2>2. MoveTarget \/ Tick \/ Begin \/ List \/ Complete \/ Fail \/ UNCHANGED vars => Goal
        BY <1>2, <1>3, <1>4, <1>8, <1>10
    <2>3. (\E c \in CRs : Process(c) \/ ProcessUnread(c) \/ TargetPass(c)) => Goal
        BY <1>5, <1>6
    <2> QED
        BY <2>1, <2>2, <2>3, Steps, Zenon
<1> QED
    BY <1>11

\* An event that was right stays so.
LEMMA EventStays ==
    ASSUME Types, PrefixInv, PlaceInv, TargetsInv, [Next]_vars, NEW e, EventOk(e)
    PROVE  EventOk(e)'
<1> DEFINE c == e.cr
<1>1. /\ e \in EventType /\ snap[c] # 0
      /\ e.type \in Reports => e.via \in {"activity", "detail", "diff"}
      /\ e.via \in {"activity", "detail"} =>
            /\ e.key \in 1 .. Now(c)
            /\ scan.phase = "listed" /\ c \in scan.left => e.key <= scan.seen[c]
      /\ e.type = "target" => e.new.head <= snapTarget[c]
      /\ e.type = "committed" /\ provider = "gitlab" =>
            /\ e.new.head \in 1 .. Sha(remote[c], snap[c])
            /\ e.via # "diff" => e.new.head = Sha(remote[c], e.key)
    BY DEF EventOk
<1>2. c \in CRs /\ e.key \in Int /\ e.new.head \in Int
    BY <1>1, ScanAssumption DEF EventType, Views, Shas, NoHead
<1>3. /\ Now(c) \in Nat /\ Now(c)' \in Nat /\ Now(c) <= Now(c)'
      /\ \A n \in 0 .. Now(c) : Sha(remote'[c], n) = Sha(remote[c], n)
    BY <1>2, Stays
<1>4. /\ provider' = provider /\ snap[c] <= snap'[c] /\ snapTarget[c] <= snapTarget'[c]
      /\ scan'.phase = "listed" /\ c \in scan'.left =>
                      \/ scan.phase = "listed" /\ c \in scan.left /\ scan'.seen[c] = scan.seen[c]
                      \/ scan'.seen[c] = Now(c)
    BY <1>2, Onward
<1>5. /\ snap[c] \in Nat /\ snap'[c] \in Nat /\ snapTarget[c] \in Int /\ snapTarget'[c] \in Int
      /\ snap[c] <= Now(c)
    <2>1. StoredType'
        BY NextStored
    <2> QED
        BY <1>2, <2>1 DEF Types, StoredType, Heads, NoHead, PrefixInv
<1>6. /\ Sha(remote'[c], snap[c]) = Sha(remote[c], snap[c])
      /\ Sha(remote'[c], snap[c]) <= Sha(remote'[c], snap'[c])
      /\ Sha(remote'[c], snap[c]) \in Nat /\ Sha(remote'[c], snap'[c]) \in Nat
    <2>1. snap[c] \in 0 .. Now(c)
        BY <1>3, <1>5
    <2>2. Sha(remote'[c], snap[c]) = Sha(remote[c], snap[c])
        BY <1>3, <2>1
    <2>3. Sha(remote'[c], snap[c]) \in Nat /\ Sha(remote'[c], snap'[c]) \in Nat
        BY <1>5, ShaSteps
    <2>4. Sha(remote'[c], snap[c]) <= Sha(remote'[c], snap'[c])
        BY <1>4, <1>5, ShaBetween
    <2> QED
        BY <2>2, <2>3, <2>4
<1> HIDE DEF c
<1>7. snap'[c] # 0
    BY <1>1, <1>4, <1>5
<1>8. e.via \in {"activity", "detail"} =>
            /\ e.key \in 1 .. Now(c)'
            /\ scan'.phase = "listed" /\ c \in scan'.left => e.key <= scan'.seen[c]
    BY <1>1, <1>2, <1>3, <1>4
<1>9. e.type = "target" => e.new.head <= snapTarget'[c]
    BY <1>1, <1>2, <1>4, <1>5
<1>10. e.type = "committed" /\ provider' = "gitlab" =>
            /\ e.new.head \in 1 .. Sha(remote'[c], snap'[c])
            /\ e.via # "diff" => e.new.head = Sha(remote'[c], e.key)
    <2>1. e.type = "committed" /\ e.via # "diff" => e.key \in 0 .. Now(c)
        BY <1>1, <1>2, <1>3 DEF Reports
    <2> QED
        BY <1>1, <1>2, <1>3, <1>4, <1>6, <2>1
<1> QED
    BY <1>1, <1>7, <1>8, <1>9, <1>10 DEF EventOk, c

-----------------------------------------------------------------------------
(* What is new in the inbox.                                                *)

\* What an event of this step is, and that it is none of the earlier ones.
NewOk(c, e) ==
    /\ EventOk(e)' /\ e.cr = c
    /\ e.type = "committed" /\ provider = "gitlab" => Sha(remote[c], snap[c]) < e.new.head
    /\ e.type = "target" => snapTarget[c] < e.new.head

\* Two events are not about one head.
Differ(e, f) ==
    /\ e.type = f.type /\ e.new = f.new
    /\ e.type = "target" \/ (e.type = "committed" /\ provider = "gitlab")
    => e = f

\* The event of a new head of the target branch.
LEMMA TargetEventIs ==
    ASSUME Types, ClockInv, HistoryInv, TargetsInv, NEW c \in CRs,
           scan.phase = "listed", scan.target \in Nat
    PROVE  LET e == TargetEvent(c, snapTarget[c], scan.target)
           IN  /\ e \in EventType /\ e.cr = c /\ e.type = "target" /\ e.via = "scan"
               /\ e.new.head = scan.target
<1> DEFINE e == TargetEvent(c, snapTarget[c], scan.target)
<1>1. target <= MaxMoves /\ MaxMoves \in Nat /\ target \in Nat
    BY ScanAssumption DEF HistoryInv, Types, PlatformType
<1>2. scan.target <= target /\ snapTarget[c] <= target /\ snapTarget[c] \in Heads
    BY DEF TargetsInv, Types, StoredType
<1>3. scan.target \in Shas /\ snapTarget[c] \in Shas /\ NoHead \in Shas
    BY <1>1, <1>2 DEF Shas, Heads, NoHead
<1>4. scan.started \in Nat
    BY DEF ClockInv, Types, ScanType, Times, Never
<1>5. [Blank EXCEPT !.head = snapTarget[c]] \in Views /\ [Blank EXCEPT !.head = scan.target] \in Views
      /\ [Blank EXCEPT !.head = scan.target].head = scan.target
    BY <1>3 DEF Blank, Views
<1>6. /\ e = [cr |-> c, type |-> "target", old |-> [Blank EXCEPT !.head = snapTarget[c]],
              new |-> [Blank EXCEPT !.head = scan.target], via |-> "scan", key |-> scan.started]
    BY DEF TargetEvent
<1> HIDE DEF e
<1>7. e \in EventType
    BY <1>4, <1>5, <1>6 DEF EventType
<1>8. e.cr = c /\ e.type = "target" /\ e.via = "scan" /\ e.new.head = scan.target
    BY <1>5, <1>6
<1> QED
    BY <1>7, <1>8 DEF e

\* What a turn of the loop over the list adds to the inbox.
LEMMA ProcessedEvents ==
    ASSUME Before, NEW c \in CRs, Process(c) \/ ProcessUnread(c)
    PROVE  /\ \A e \in events' : e \in events \/ NewOk(c, e)
           /\ \A e, f \in events' : e \notin events /\ f \notin events => Differ(e, f)
<1> USE DEF Before
<1> DEFINE s == scan.seen[c]
           h == remote[c]
           low == Sha(h, snap[c])
           top == Sha(h, s)
           at == h[s].at
           t == TargetEvent(c, snapTarget[c], scan.target)
<1>1. /\ scan.phase = "listed" /\ c \in scan.left /\ UNCHANGED platform
      /\ scan'.left = scan.left \ {c} /\ s \in 1 .. Now(c)
      /\ snap' = [snap EXCEPT ![c] = s]
    BY Leaves
<1>2. /\ Now(c) \in Nat /\ Now(c) <= MaxActs /\ at \in Int /\ snap[c] \in Nat
      /\ low \in Nat /\ top \in Nat
    <2>1. Now(c) \in Nat /\ Now(c) <= MaxActs /\ at \in Int
        BY <1>1, HistoryIs
    <2>2. snap[c] \in Nat /\ s \in Nat
        BY <1>1, <2>1 DEF Types, StoredType
    <2>3. low \in Nat /\ top \in Nat
        BY <2>2, ShaSteps
    <2> QED
        BY <2>1, <2>2, <2>3
<1>3. remote' = remote /\ provider' = provider /\ Now(c)' = Now(c) /\ snap'[c] = s
    BY <1>1 DEF platform, Now, Types, StoredType
<1>4. PICK old, acts, read :
              /\ old \in Looks /\ acts \in SUBSET (1 .. Now(c))
              /\ Save(c, News(c, old, acts, read))
              /\ \A k \in acts : h[k].kind \in Reports
              /\ provider = "gitlab" => HeadsFit(c, old, acts, low, s)
    BY Saved
<1> DEFINE N == News(c, old, acts, read)
           R == Replay(c, old, View(c, s), acts, read, at)
<1>5. \A e \in N :
              /\ e \in EventType /\ e.cr = c
              /\ \/ e = OpenedEvent(c)
                 \/ /\ e.type \in Reports /\ e.via \in {"activity", "detail", "diff"}
                    /\ e.via # "diff" => e.key \in 1 .. Now(c)
                    /\ e \in R
    BY <1>1, <1>4, NewsAre
<1>6. OpenedEvent(c).type = "opened" /\ OpenedEvent(c).via = "created"
    BY DEF OpenedEvent
<1>7. /\ \A e \in events' :
                 \/ e \in events \/ e \in N
                 \/ e = t /\ snap[c] # 0 /\ scan.target \in Nat /\ snapTarget[c] < scan.target
      /\ snapTarget' = [snapTarget EXCEPT ![c] =
                            IF scan.target # NoHead THEN scan.target ELSE snapTarget[c]]
    BY <1>4, SavedEvents
<1>8. ASSUME provider = "gitlab"
      PROVE  /\ \A e \in R : e.type = "committed" =>
                    /\ e.new.head \in low + 1 .. top
                    /\ e.via # "diff" => e.key \in 1 .. Now(c) /\ e.new.head = Sha(h, e.key)
             /\ \A e, f \in R : e.type = "committed" /\ f.type = "committed" /\ e.new = f.new => e = f
    BY <1>1, <1>2, <1>4, <1>8, HeadsReported
<1> HIDE DEF N, R, s, at, low, top, t
<1>9. ASSUME NEW e \in N PROVE NewOk(c, e)
    <2>1. e \in EventType /\ e.cr = c /\ snap'[c] # 0
        BY <1>1, <1>2, <1>3, <1>5
    <2>2. e.type \in Reports => e.via \in {"activity", "detail", "diff"}
        BY <1>5, <1>6 DEF Reports
    <2>3. e.via \in {"activity", "detail"} => e.key \in 1 .. Now(c)' /\ c \notin scan'.left
        BY <1>1, <1>3, <1>5, <1>6
    <2>4. e.type # "target"
        BY <1>5, <1>6 DEF Reports
    <2>5. ASSUME e.type = "committed", provider = "gitlab"
          PROVE  /\ low < e.new.head /\ e.new.head \in 1 .. Sha(remote'[c], snap'[c])
                 /\ e.via # "diff" => e.new.head = Sha(remote'[c], e.key)
        <3>1. e \in R
            BY <1>5, <1>6, <2>5
        <3>2. e.new.head \in low + 1 .. top /\ (e.via # "diff" => e.new.head = Sha(h, e.key))
            BY <1>8, <2>5, <3>1
        <3> QED
            BY <1>2, <1>3, <3>2 DEF top
    <2> QED
        BY <1>3, <2>1, <2>2, <2>3, <2>4, <2>5 DEF NewOk, EventOk, low
<1>10. ASSUME NEW e, e = t, snap[c] # 0, scan.target \in Nat, snapTarget[c] < scan.target
       PROVE  NewOk(c, e) /\ e.type = "target"
    <2>1. /\ e \in EventType /\ e.cr = c /\ e.type = "target" /\ e.via = "scan" /\ e.new.head = scan.target
        BY <1>1, <1>10, TargetEventIs DEF t
    <2>2. snapTarget'[c] = scan.target
        BY <1>7, <1>10 DEF Types, StoredType, NoHead
    <2>3. snap'[c] # 0 /\ scan.target <= scan.target
        BY <1>1, <1>2, <1>3, <1>10
    <2> QED
        BY <1>10, <2>1, <2>2, <2>3 DEF NewOk, EventOk, Reports
<1>11. \A e \in events' : e \in events \/ NewOk(c, e)
    BY <1>7, <1>9, <1>10
<1>12. ASSUME NEW e \in events', NEW f \in events', e \notin events, f \notin events,
              e.type = f.type, e.new = f.new,
              e.type = "target" \/ (e.type = "committed" /\ provider = "gitlab")
       PROVE  e = f
    <2>1. CASE e.type = "target"
        <3>1. e \notin N /\ f \notin N
            BY <1>5, <1>6, <1>12, <2>1 DEF Reports
        <3> QED
            BY <1>7, <1>12, <3>1
    <2>2. CASE e.type = "committed" /\ provider = "gitlab"
        <3>1. (e = t => e \in N) /\ (f = t => f \in N)
            BY <1>7, <1>10, <1>12, <2>2
        <3>2. e \in N /\ f \in N
            BY <1>7, <1>12, <3>1
        <3>3. e \in R /\ f \in R
            BY <1>5, <1>6, <1>12, <2>2, <3>2
        <3> QED
            BY <1>8, <1>12, <2>2, <3>3
    <2> QED
        BY <1>12, <2>1, <2>2
<1> QED
    BY <1>11, <1>12 DEF Differ

\* What a comparison with the target's head alone adds.
LEMMA PassedEvents ==
    ASSUME Before, NEW c \in CRs, TargetPass(c)
    PROVE  /\ \A e \in events' : e \in events \/ NewOk(c, e)
           /\ \A e, f \in events' : e \notin events /\ f \notin events => Differ(e, f)
<1> USE DEF Before
<1> DEFINE t == TargetEvent(c, snapTarget[c], scan.target)
           new == IF snapTarget[c] = NoHead THEN {} ELSE {t}
<1>1. /\ scan.phase = "listed" /\ scan.target \notin {NoHead, snapTarget[c]} /\ snap[c] # 0
      /\ UNCHANGED <<platform, scan, snap>>
      /\ snapTarget' = [snapTarget EXCEPT ![c] = scan.target]
      /\ events' = Inserted(new)
    BY DEF TargetPass, Lagging, OpenStored, Stored
<1>2. \A e \in events' : e \in events \/ e \in new
    <2> HIDE DEF new
    <2> QED
        BY <1>1, InsertedIs
<1>3. scan.target \in Nat /\ snapTarget[c] < scan.target
    <2>1. scan.target \in Heads /\ snapTarget[c] \in Heads
        BY DEF Types, StoredType, ScanType
    <2>2. snapTarget[c] <= scan.target
        BY <1>1 DEF TargetsInv
    <2> QED
        BY <1>1, <2>1, <2>2 DEF Heads, NoHead
<1>4. /\ t \in EventType /\ t.cr = c /\ t.type = "target" /\ t.via = "scan" /\ t.new.head = scan.target
    BY <1>1, <1>3, TargetEventIs
<1>5. snap'[c] # 0 /\ scan.target <= scan.target /\ snapTarget'[c] = scan.target
    BY <1>1, <1>3 DEF Types, StoredType
<1>6. \A e \in new : e = t
    OBVIOUS
<1> HIDE DEF t, new
<1>7. ASSUME NEW e, e = t PROVE NewOk(c, e)
    BY <1>3, <1>4, <1>5, <1>7 DEF NewOk, EventOk, Reports
<1> QED
    BY <1>2, <1>6, <1>7 DEF Differ

\* The steps that tell anything new.
LEMMA Tells ==
    ASSUME Before, [Next]_vars
    PROVE  \/ events' = events
           \/ \E c \in CRs :
                /\ \A e \in events' : e \in events \/ NewOk(c, e)
                /\ \A e, f \in events' : e \notin events /\ f \notin events => Differ(e, f)
<1>1. ASSUME NEW c \in CRs, NEW kind \in Kinds, Act(c, kind) PROVE events' = events
    BY <1>1 DEF Act, stored
<1>2. MoveTarget \/ Tick \/ Begin \/ List \/ Complete \/ Fail \/ UNCHANGED vars => events' = events
    BY DEF MoveTarget, Tick, Begin, List, Complete, Fail, vars, stored
<1>3. ASSUME NEW c \in CRs, Rebaseline(c) PROVE events' = events
    BY <1>3 DEF Rebaseline
<1>4. ASSUME NEW c \in CRs, Process(c) \/ ProcessUnread(c) \/ TargetPass(c)
      PROVE  /\ \A e \in events' : e \in events \/ NewOk(c, e)
             /\ \A e, f \in events' : e \notin events /\ f \notin events => Differ(e, f)
    BY <1>4, ProcessedEvents, PassedEvents
<1> QED
    BY <1>1, <1>2, <1>3, <1>4, Steps

\* Each step keeps the events right.
LEMMA NextEvents == Before /\ EventInv /\ [Next]_vars => EventInv'
<1> SUFFICES ASSUME Before, EventInv, [Next]_vars, NEW e \in events' PROVE EventOk(e)'
    BY DEF EventInv
<1>1. ASSUME e \in events PROVE EventOk(e)'
    <2>1. EventOk(e)
        BY <1>1 DEF EventInv
    <2> QED
        BY <2>1, EventStays DEF Before
<1>2. e \in events \/ EventOk(e)'
    BY Tells DEF NewOk
<1> QED
    BY <1>1, <1>2

\* Each step keeps the heads announced once.
LEMMA NextOnce == Before /\ EventInv /\ AnnouncedOnce /\ [Next]_vars => AnnouncedOnce'
<1> SUFFICES ASSUME Before, EventInv, AnnouncedOnce, [Next]_vars PROVE AnnouncedOnce'
    OBVIOUS
<1>0. provider' = provider
    BY Onward DEF Before
<1>1. CASE events' = events
    BY <1>0, <1>1 DEF AnnouncedOnce
<1>2. ASSUME NEW c \in CRs,
             \A e \in events' : e \in events \/ NewOk(c, e),
             \A e, f \in events' : e \notin events /\ f \notin events => Differ(e, f)
      PROVE  AnnouncedOnce'
    <2>1. ASSUME NEW e \in events, NEW f, NewOk(c, f), e.cr = f.cr, e.type = f.type, e.new = f.new,
                 e.type = "target" \/ (e.type = "committed" /\ provider = "gitlab")
          PROVE  FALSE
        <3>1. EventOk(e) /\ f.cr = c
            BY <2>1 DEF EventInv, NewOk
        <3>2. e.cr = c /\ e.new.head \in Int
            BY <2>1, <3>1, ScanAssumption DEF EventOk, EventType, Views, Shas, NoHead
        <3>3. CASE e.type = "target"
            <4>1. e.new.head <= snapTarget[c] /\ snapTarget[c] < e.new.head
                BY <2>1, <3>1, <3>2, <3>3 DEF EventOk, NewOk
            <4>2. snapTarget[c] \in Int
                BY DEF Before, Types, StoredType, Heads, NoHead
            <4> QED
                BY <3>2, <4>1, <4>2
        <3>4. CASE e.type = "committed" /\ provider = "gitlab"
            <4>1. e.new.head \in 1 .. Sha(remote[c], snap[c]) /\ Sha(remote[c], snap[c]) < e.new.head
                BY <2>1, <3>1, <3>2, <3>4 DEF EventOk, NewOk
            <4>2. Sha(remote[c], snap[c]) \in Nat
                BY ShaSteps DEF Before, Types, StoredType
            <4> QED
                BY <4>1, <4>2
        <3> QED
            BY <2>1, <3>3, <3>4
    <2>2. ASSUME NEW e \in events', NEW f \in events', e.cr = f.cr, e.type = f.type, e.new = f.new,
                 e.type = "target" \/ (e.type = "committed" /\ provider = "gitlab")
          PROVE  e = f
        <3>1. CASE e \in events /\ f \in events
            BY <2>2, <3>1 DEF AnnouncedOnce
        <3>2. CASE e \notin events /\ f \notin events
            BY <1>2, <2>2, <3>2 DEF Differ
        <3>3. CASE e \in events /\ f \notin events
            BY <1>2, <2>1, <2>2, <3>3
        <3>4. CASE e \notin events /\ f \in events
            BY <1>2, <2>1, <2>2, <3>4
        <3> QED
            BY <3>1, <3>2, <3>3, <3>4
    <2> QED
        BY <1>0, <2>2 DEF AnnouncedOnce
<1> QED
    BY <1>1, <1>2, Tells

-----------------------------------------------------------------------------
(* The types of a scan, and a head announced once.                          *)

\* A scan was completed in the past.
DoneInv == watermark.completed <= clock

\* All but that the changes are announced.
WholeInv == Base /\ HistoryInv /\ PlaceInv /\ TargetsInv /\ EventInv /\ DoneInv

\* In the beginning nothing is stored.
LEMMA InitWhole == Init => WholeInv /\ AnnouncedOnce
<1> SUFFICES ASSUME Init PROVE WholeInv /\ AnnouncedOnce
    OBVIOUS
<1>1. Base
    BY InitAll
<1>2. {MaxActs, MaxTime, MaxMoves} \subseteq Nat
    BY ScanAssumption
<1>3. \A c \in CRs : remote[c] = <<>> /\ Now(c) = 0
    BY DEF Init, Now
<1>4. HistoryInv
    <2> SUFFICES ASSUME NEW c \in CRs
                 PROVE  /\ Now(c) <= MaxActs /\ Alternates(c)
                        /\ \A k \in 1 .. Now(c) : remote[c][k].at <= Dated
                        /\ \A j, k \in 1 .. Now(c) : j <= k => remote[c][j].at <= remote[c][k].at
        BY <1>2 DEF Init, HistoryInv
    <2>1. Now(c) = 0
        BY <1>3
    <2> QED
        BY <1>2, <2>1 DEF Alternates
<1>5. PlaceInv
    BY <1>3 DEF Init, PlaceInv
<1>6. TargetsInv
    BY DEF Init, TargetsInv, NoHead
<1>7. EventInv /\ AnnouncedOnce
    BY DEF Init, EventInv, AnnouncedOnce
<1>8. DoneInv
    BY DEF Init, DoneInv, Never
<1> QED
    BY <1>1, <1>4, <1>5, <1>6, <1>7, <1>8 DEF WholeInv

\* A scan is completed by the clock, which does not go back.
LEMMA NextDone == Types /\ DoneInv /\ [Next]_vars => DoneInv'
<1> SUFFICES ASSUME Types, DoneInv, [Next]_vars PROVE DoneInv'
    OBVIOUS
<1>1. clock \in Nat /\ watermark.completed \in Times
    BY DEF Types, PlatformType, StoredType
<1>2. ASSUME UNCHANGED watermark, clock' = clock \/ clock' = clock + 1 PROVE DoneInv'
    BY <1>1, <1>2 DEF DoneInv, Times, Never
<1>3. ASSUME NEW c \in CRs, Process(c) \/ ProcessUnread(c) PROVE UNCHANGED <<watermark, clock>>
    BY <1>3, Saves DEF platform
<1>4. Complete => DoneInv'
    BY <1>1 DEF Complete, platform, DoneInv
<1>5. \/ Complete
      \/ UNCHANGED watermark /\ (clock' = clock \/ clock' = clock + 1)
    BY <1>3, Steps DEF Act, MoveTarget, Tick, Begin, List, Fail, Rebaseline, TargetPass, vars,
       stored, platform
<1> QED
    BY <1>2, <1>4, <1>5

\* Each step keeps all of it.
LEMMA NextWhole == WholeInv /\ [Next]_vars => WholeInv'
<1> SUFFICES ASSUME WholeInv, [Next]_vars PROVE WholeInv'
    OBVIOUS
<1> USE DEF WholeInv, Base
<1>1. Types'
    BY NextPlatform, NextStored, NextScan DEF Types
<1>2. ClockInv' /\ PrefixInv' /\ HistoryInv' /\ PlaceInv' /\ TargetsInv' /\ DoneInv'
    BY NextClock, NextPrefix, NextHistory, NextPlace, NextTargets, NextDone
<1>3. EventInv'
    BY NextEvents DEF Before
<1> QED
    BY <1>1, <1>2, <1>3

\* The types of a scan follow.
LEMMA WholeTypes == WholeInv => TypeOK
<1> SUFFICES ASSUME WholeInv PROVE TypeOK
    OBVIOUS
<1> USE DEF WholeInv, Base
<1>1. /\ target \in Nat /\ clock \in Nat /\ {MaxActs, MaxTime, MaxMoves} \subseteq Nat
      /\ scan \in [phase : {"idle", "started", "listed"}, started : Times, seen : [CRs -> Nat],
              left : SUBSET CRs, target : Heads]
      /\ watermark \in [started : Times, completed : Times]
    BY ScanAssumption DEF Types, PlatformType, StoredType, ScanType
<1>2. provider \in Providers /\ target \in 0 .. MaxMoves /\ clock \in 0 .. MaxTime
    BY <1>1 DEF HistoryInv
<1>3. ASSUME NEW c \in CRs
      PROVE  remote[c] \in Seq([kind : Kinds, at : Int]) /\ Now(c) <= MaxActs
    BY DEF Types, PlatformType, Activities, HistoryInv
<1>4. ASSUME NEW c \in CRs
      PROVE  /\ {snap[c], cursor[c].state, cursor[c].version, scan.seen[c]} \subseteq 0 .. Now(c)
             /\ snapTarget[c] \in NoHead .. target
    <2>1. /\ Now(c) \in Nat /\ snap[c] \in Nat /\ snapTarget[c] \in Heads
          /\ cursor[c] \in [state : Nat, version : Nat] /\ scan.seen[c] \in Nat
        BY <1>1 DEF Types, PlatformType, StoredType, Now, PlaceInv
    <2>2. snap[c] <= Now(c) /\ cursor[c].state <= Now(c) /\ cursor[c].version <= Now(c)
        BY DEF PrefixInv, PlaceInv
    <2>3. scan.seen[c] <= Now(c)
        BY <2>1 DEF PrefixInv, PlaceInv
    <2>4. snapTarget[c] <= target
        BY DEF TargetsInv
    <2> QED
        BY <1>1, <2>1, <2>2, <2>3, <2>4 DEF Heads, NoHead
<1>5. rebase \subseteq unread /\ unread \subseteq Stored
    BY DEF PlaceInv
<1>6. events \subseteq EventType
    BY DEF EventInv, EventOk
<1>7. /\ scan.started \in Never .. clock /\ scan.target \in NoHead .. target
      /\ scan.phase \in {"idle", "started", "listed"} /\ scan.left \subseteq CRs
    BY <1>1 DEF ClockInv, TargetsInv, Times, Heads, NoHead, Never
<1>8. watermark \in [started : Never .. clock, completed : Never .. clock]
    <2>1. watermark.started \in Never .. clock /\ watermark.completed \in Never .. clock
        BY <1>1, <1>7 DEF ClockInv, DoneInv, Times, Never
    <2> QED
        BY <1>1, <2>1
<1> QED
    BY <1>2, <1>3, <1>4, <1>5, <1>6, <1>7, <1>8 DEF TypeOK

\* And so it always holds.
LEMMA WholeHolds == Spec => []WholeInv
BY InitWhole, NextWhole, PTL DEF Spec

\* What is stored of a change request is a prefix of its history, and all variables stay in
\* their types.
THEOREM TypesHold == Spec => []TypeOK
BY WholeHolds, WholeTypes, PTL

\* A head, of a change request on GitLab or of the target branch, is announced once,
\* however often a scan fails and is repeated.
THEOREM AnnouncesOnce == Spec => []AnnouncedOnce
<1>1. WholeInv /\ AnnouncedOnce /\ [Next]_vars => AnnouncedOnce'
    BY NextOnce DEF WholeInv, Base, Before
<1> QED
    BY <1>1, InitWhole, WholeHolds, PTL DEF Spec

-----------------------------------------------------------------------------
(* What is told stays told.                                                 *)

\* There is an event of this kind.
Told(c, type, via, key) ==
    \E e \in events : e.cr = c /\ e.type = type /\ e.via = via /\ e.key = key
Opened(c) == \E e \in events : e.cr = c /\ e.type = "opened"

\* How a turn is told: by its own event, by the difference of snapshots in which it
\* showed first, or by the close of the details that it is no later than.
Direct(c, k) == Told(c, remote[c][k].kind, "activity", k)
DirectIn(c, m, n, type) == \A i \in m .. n : remote[c][i].kind = type => Direct(c, i)
ByDiff(c, k) ==
    \E m \in 1 .. k - 1 :
        /\ \E j \in m + 1 .. k - 1 : Turned(c, j)
        /\ Told(c, remote[c][k].kind, "diff", remote[c][m].at)
        /\ DirectIn(c, m + 1, k - 1, remote[c][k].kind)
ByDetail(c, k) ==
    /\ remote[c][k].kind = "closed"
    /\ \E d \in k .. Now(c) : Told(c, "closed", "detail", d) /\ DirectIn(c, k + 1, d, "closed")

\* The turns that the cursor has passed are told, and so is the state of a snapshot that
\* was ahead of the state events read with it.
Passed(c) ==
    \A k \in 2 .. cursor[c].state :
        Turned(c, k) => Direct(c, k) \/ ByDiff(c, k) \/ ByDetail(c, k)
Ahead(c) ==
    LET h == remote[c]
        type == Toward(StateIn(h, snap[c]))
    IN  provider = "gitlab" /\ snap[c] # 0 /\ StateIn(h, snap[c]) # StateIn(h, cursor[c].state) =>
          \/ Told(c, type, "diff", h[snap[c]].at) /\ DirectIn(c, snap[c] + 1, cursor[c].state, type)
          \/ /\ type = "closed"
             /\ \E d \in cursor[c].state + 1 .. Now(c) :
                   h[d].kind = "closed" /\ Told(c, "closed", "detail", d)

\* Each head the cursor has passed is told.
HeadsTold(c) ==
    \A n \in 1 .. Sha(remote[c], cursor[c].version) :
        \E e \in events : e.cr = c /\ e.type = "committed" /\ e.new.head = n

\* So it is of each change request whose activities could always be read.
Announced(c) ==
    /\ provider = "gitlab" => Sha(remote[c], snap[c]) = Sha(remote[c], cursor[c].version)
    /\ Opened(c) => Passed(c) /\ Ahead(c) /\ (provider = "gitlab" => HeadsTold(c))
AnnouncedInv == \A c \in CRs \ unread : Announced(c)

\* What is told stays told.
LEMMA ToldStays ==
    ASSUME Types, PrefixInv, PlaceInv, TargetsInv, [Next]_vars,
           NEW c, NEW type, NEW via, NEW key, Told(c, type, via, key)
    PROVE  Told(c, type, via, key)'
<1>1. events \subseteq events'
    BY Onward
<1> QED
    BY <1>1 DEF Told

\* So does a turn with its own event.
LEMMA DirectStays ==
    ASSUME Types, PrefixInv, PlaceInv, TargetsInv, [Next]_vars,
           NEW c \in CRs, NEW k \in 1 .. Now(c), Direct(c, k)
    PROVE  Direct(c, k)'
<1>1. events \subseteq events'
    BY Onward
<1>2. remote'[c][k] = remote[c][k]
    BY Stays
<1> QED
    BY <1>1, <1>2 DEF Direct, Told

\* The turns of a stretch, one by one.
LEMMA DirectInStays ==
    ASSUME Types, PrefixInv, PlaceInv, TargetsInv, [Next]_vars,
           NEW c \in CRs, NEW m \in Nat, NEW n \in Nat, NEW type,
           m >= 1, n <= Now(c), DirectIn(c, m, n, type)
    PROVE  DirectIn(c, m, n, type)'
<1> SUFFICES ASSUME NEW i \in m .. n, remote'[c][i].kind = type PROVE Direct(c, i)'
    BY DEF DirectIn
<1>1. Now(c) \in Nat /\ \A k \in 1 .. Now(c) : remote'[c][k] = remote[c][k]
    BY Stays
<1>2. i \in 1 .. Now(c) /\ remote'[c][i] = remote[c][i]
    BY <1>1
<1>3. Direct(c, i)
    BY <1>2 DEF DirectIn
<1> QED
    BY <1>2, <1>3, DirectStays

\* A turn that a difference told.
LEMMA ByDiffStays ==
    ASSUME Types, PrefixInv, PlaceInv, TargetsInv, [Next]_vars,
           NEW c \in CRs, NEW k \in 1 .. Now(c), ByDiff(c, k)
    PROVE  ByDiff(c, k)'
<1>1. PICK m \in 1 .. k - 1 :
        /\ \E j \in m + 1 .. k - 1 : Turned(c, j)
        /\ Told(c, remote[c][k].kind, "diff", remote[c][m].at)
        /\ DirectIn(c, m + 1, k - 1, remote[c][k].kind)
    BY DEF ByDiff
<1>2. PICK j \in m + 1 .. k - 1 : Turned(c, j)
    BY <1>1
<1>3. Now(c) \in Nat /\ \A i \in 1 .. Now(c) : remote'[c][i] = remote[c][i]
    BY Stays
<1>4. /\ m \in 1 .. Now(c) /\ j \in 1 .. Now(c)
      /\ m + 1 \in Nat /\ k - 1 \in Nat /\ m + 1 >= 1 /\ k - 1 <= Now(c)
    BY <1>3
<1>5. remote'[c][k] = remote[c][k] /\ remote'[c][m] = remote[c][m] /\ remote'[c][j] = remote[c][j]
    BY <1>3, <1>4
<1>6. ASSUME NEW type, NEW at, type = remote[c][k].kind, at = remote[c][m].at
      PROVE  Told(c, type, "diff", at)' /\ DirectIn(c, m + 1, k - 1, type)'
    BY <1>1, <1>4, <1>6, ToldStays, DirectInStays
<1>7. Told(c, remote[c][k].kind, "diff", remote[c][m].at)'
    BY <1>5, <1>6 DEF Told
<1>8. DirectIn(c, m + 1, k - 1, remote[c][k].kind)'
    BY <1>5, <1>6 DEF DirectIn
<1>9. Turned(c, j)'
    BY <1>2, <1>5 DEF Turned
<1> QED
    BY <1>7, <1>8, <1>9 DEF ByDiff

\* A turn that the details told.
LEMMA ByDetailStays ==
    ASSUME Types, PrefixInv, PlaceInv, TargetsInv, [Next]_vars,
           NEW c \in CRs, NEW k \in 1 .. Now(c), ByDetail(c, k)
    PROVE  ByDetail(c, k)'
<1>1. PICK d \in k .. Now(c) : Told(c, "closed", "detail", d) /\ DirectIn(c, k + 1, d, "closed")
    BY DEF ByDetail
<1>2. /\ Now(c) \in Nat /\ Now(c)' \in Nat /\ Now(c) <= Now(c)'
      /\ \A i \in 1 .. Now(c) : remote'[c][i] = remote[c][i]
    BY Stays
<1>3. k + 1 \in Nat /\ d \in Nat /\ k + 1 >= 1 /\ d <= Now(c) /\ d \in k .. Now(c)'
    BY <1>2
<1>4. Told(c, "closed", "detail", d)' /\ DirectIn(c, k + 1, d, "closed")'
    BY <1>1, <1>3, ToldStays, DirectInStays
<1>5. remote'[c][k].kind = "closed"
    BY <1>2 DEF ByDetail
<1> QED
    BY <1>3, <1>4, <1>5 DEF ByDetail

\* A step that leaves cursor and snapshot alone leaves told what was.
LEMMA QuietStep ==
    ASSUME WholeInv, [Next]_vars, NEW c \in CRs, c \notin unread, Announced(c),
           cursor'[c] = cursor[c], snap'[c] = snap[c], Opened(c)' => Opened(c)
    PROVE  Announced(c)'
<1> USE DEF WholeInv, Base
<1>1. /\ Now(c) \in Nat /\ Now(c)' \in Nat /\ Now(c) <= Now(c)'
      /\ \A k \in 1 .. Now(c) : remote'[c][k] = remote[c][k]
      /\ \A n \in 1 .. Now(c) : StateIn(remote'[c], n) = StateIn(remote[c], n)
      /\ \A n \in 0 .. Now(c) : Sha(remote'[c], n) = Sha(remote[c], n)
    BY Stays
<1>2. /\ cursor[c].state \in 0 .. Now(c) /\ cursor[c].version \in 0 .. Now(c)
      /\ snap[c] \in 0 .. Now(c) /\ snap[c] <= cursor[c].state /\ snap[c] <= cursor[c].version
    <2>1. c \notin rebase /\ cursor[c] \in [state : Nat, version : Nat] /\ snap[c] \in Nat
        BY DEF PlaceInv, Types, StoredType
    <2> QED
        BY <1>1, <2>1 DEF PlaceInv, PrefixInv
<1>3. provider' = provider /\ events \subseteq events'
    BY Onward
<1>4. provider' = "gitlab" => Sha(remote[c], snap[c])' = Sha(remote[c], cursor[c].version)'
    BY <1>1, <1>2, <1>3 DEF Announced
<1> SUFFICES ASSUME Opened(c)' PROVE Passed(c)' /\ Ahead(c)' /\ (provider' = "gitlab" => HeadsTold(c)')
    BY <1>4 DEF Announced
<1>5. Passed(c) /\ Ahead(c) /\ (provider = "gitlab" => HeadsTold(c))
    BY DEF Announced
<1>6. Passed(c)'
    <2> SUFFICES ASSUME NEW k \in 2 .. cursor[c].state, Turned(c, k)'
                 PROVE  (Direct(c, k) \/ ByDiff(c, k) \/ ByDetail(c, k))'
        BY DEF Passed
    <2>1. k \in 1 .. Now(c)
        BY <1>1, <1>2
    <2>2. Turned(c, k)
        BY <1>1, <2>1 DEF Turned
    <2>3. Direct(c, k) \/ ByDiff(c, k) \/ ByDetail(c, k)
        BY <1>5, <2>2 DEF Passed
    <2> QED
        BY <2>1, <2>3, DirectStays, ByDiffStays, ByDetailStays
<1>7. Ahead(c)'
    <2> DEFINE s == snap[c]
               q == cursor[c].state
               type == Toward(StateIn(remote[c], s))
               at == remote[c][s].at
    <2> SUFFICES ASSUME provider = "gitlab", s # 0, StateIn(remote[c], s) # StateIn(remote[c], q)
                 PROVE  \/ Told(c, type, "diff", at)' /\ DirectIn(c, s + 1, q, type)'
                        \/ /\ type' = "closed"
                           /\ \E d \in q + 1 .. Now(c)' :
                                 remote'[c][d].kind = "closed" /\ Told(c, "closed", "detail", d)'
        <3>1. s # 0 => s \in 1 .. Now(c) /\ q \in 1 .. Now(c)
            BY <1>1, <1>2
        <3>2. s # 0 => /\ StateIn(remote'[c], s) = StateIn(remote[c], s)
                       /\ StateIn(remote'[c], q) = StateIn(remote[c], q)
            BY <1>1, <3>1
        <3> QED
            BY <1>3, <3>2 DEF Ahead
    <2>1. s \in 1 .. Now(c) /\ q \in 1 .. Now(c) /\ s + 1 \in Nat /\ q \in Nat /\ s + 1 >= 1 /\ q <= Now(c)
        BY <1>1, <1>2
    <2>2. s' = s /\ q' = q /\ type' = type /\ at' = at
        BY <1>1, <2>1
    <2>3. \/ Told(c, type, "diff", at) /\ DirectIn(c, s + 1, q, type)
          \/ /\ type = "closed"
             /\ \E d \in q + 1 .. Now(c) :
                   remote[c][d].kind = "closed" /\ Told(c, "closed", "detail", d)
        BY <1>5 DEF Ahead
    <2>4. ASSUME NEW x, NEW y, NEW m \in Nat, NEW n \in Nat, x = type, y = at, m = s + 1, n = q,
                 Told(c, type, "diff", at), DirectIn(c, s + 1, q, type)
          PROVE  Told(c, x, "diff", y)' /\ DirectIn(c, m, n, x)'
        <3>1. Told(c, x, "diff", y) /\ DirectIn(c, m, n, x)
            BY <2>4
        <3>2. m >= 1 /\ n <= Now(c)
            BY <2>1, <2>4
        <3> QED
            BY <3>1, <3>2, ToldStays, DirectInStays
    <2>5. ASSUME Told(c, type, "diff", at), DirectIn(c, s + 1, q, type)
          PROVE  Told(c, type, "diff", at)' /\ DirectIn(c, s + 1, q, type)'
        <3> HIDE DEF type, at, s, q
        <3>1. Told(c, type, "diff", at)'
            BY <2>1, <2>2, <2>4, <2>5 DEF Told
        <3>2. DirectIn(c, s + 1, q, type)'
            BY <2>1, <2>2, <2>4, <2>5 DEF DirectIn
        <3> QED
            BY <3>1, <3>2
    <2>6. ASSUME NEW d \in q + 1 .. Now(c), remote[c][d].kind = "closed", Told(c, "closed", "detail", d)
          PROVE  d \in q + 1 .. Now(c)' /\ remote'[c][d].kind = "closed" /\ Told(c, "closed", "detail", d)'
        <3>1. d \in 1 .. Now(c) /\ d \in q + 1 .. Now(c)'
            BY <1>1, <2>1
        <3> QED
            BY <1>1, <2>6, <3>1, ToldStays
    <2> HIDE DEF type, at
    <2>7. q + 1 .. Now(c)' = (q + 1 .. Now(c))'
        BY <2>2
    <2> QED
        BY <2>2, <2>3, <2>5, <2>6
<1>8. ASSUME provider' = "gitlab" PROVE HeadsTold(c)'
    BY <1>1, <1>2, <1>3, <1>5, <1>8 DEF HeadsTold
<1> QED
    BY <1>6, <1>7, <1>8

-----------------------------------------------------------------------------
(* What a turn of the loop tells.                                           *)

\* The first turn after another is away from the state there.
LEMMA FirstTurn ==
    ASSUME NEW c \in CRs, Now(c) \in Nat, Alternates(c), NEW t \in 1 .. Now(c), NEW k \in t + 1 .. Now(c),
           Turned(c, k), \A j \in t + 1 .. k - 1 : ~Turned(c, j)
    PROVE  /\ remote[c][k].kind \in {"closed", "reopened"}
           /\ \A state \in States : state # StateIn(remote[c], t) => remote[c][k].kind = Toward(state)
<1> DEFINE h == remote[c]
<1>1. t \in Nat \ {0} /\ k - 1 \in Nat /\ t <= k - 1 /\ k \in 2 .. Now(c)
    OBVIOUS
<1>2. StateIn(h, k - 1) = StateIn(h, t)
    <2>1. \A j \in t + 1 .. k - 1 : h[j].kind = "committed"
        BY DEF Turned
    <2> QED
        BY <1>1, <2>1, StateSteps
<1>3. h[k].kind \in Reports /\ h[k].kind # "committed" /\ StateIn(h, t) # StateAfter(h[k].kind)
    BY <1>1, <1>2 DEF Alternates, Turned
<1>4. StateIn(h, t) \in States
    BY DEF StateIn, StateAfter, States
<1> QED
    BY <1>3, <1>4 DEF Reports, States, StateAfter, Toward

\* Two states that differ have a turn between them.
LEMMA TurnBetween ==
    ASSUME NEW c, NEW s \in Nat \ {0}, NEW q \in Nat, s <= q, StateIn(remote[c], s) # StateIn(remote[c], q)
    PROVE  \E j \in s + 1 .. q : Turned(c, j)
<1> SUFFICES ASSUME \A j \in s + 1 .. q : ~Turned(c, j) PROVE StateIn(remote[c], q) = StateIn(remote[c], s)
    OBVIOUS
<1>1. \A j \in s + 1 .. q : remote[c][j].kind = "committed"
    BY DEF Turned
<1> QED
    BY <1>1, StateSteps

\* What is saved is told.
LEMMA SavedTold ==
    ASSUME Types, TargetsInv, NEW c \in CRs, NEW new, Save(c, new), NEW e \in new
    PROVE  \E f \in events' : f.cr = e.cr /\ f.type = e.type /\ f.via = e.via /\ f.key = e.key
<1>1. PICK f \in events' : SameId(e, f)
    BY SavedEvents
<1> QED
    BY <1>1 DEF SameId

\* The event that makes a change request one that was announced as opened.
LEMMA OpenedOnce ==
    ASSUME WholeInv, NEW c \in CRs, Process(c), NEW old \in Looks, NEW acts \in SUBSET (1 .. Now(c)),
           NEW read, \A k \in acts : remote[c][k].kind \in Reports,
           Save(c, News(c, old, acts, read)), Opened(c)'
    PROVE  /\ snap[c] # 0 \/ remote[c][1].at >= Window
           /\ snap[c] # 0 => Opened(c)
<1> USE DEF WholeInv, Base
<1>1. PICK e \in events' : e.cr = c /\ e.type = "opened"
    BY DEF Opened
<1>2. scan.seen[c] \in 1 .. Now(c)
    BY Leaves
<1> DEFINE N == News(c, old, acts, read)
<1>3. \/ e \in events \/ e \in N
      \/ e = TargetEvent(c, snapTarget[c], scan.target)
    BY SavedEvents
<1>4. TargetEvent(c, snapTarget[c], scan.target).type = "target"
    BY DEF TargetEvent
<1>5. e \in N => snap[c] = 0 /\ remote[c][1].at >= Window
    <2>1. \A f \in N : (f = OpenedEvent(c) /\ snap[c] = 0 /\ remote[c][1].at >= Window) \/ f.type \in Reports
        BY <1>2, NewsAre
    <2> HIDE DEF N
    <2> QED
        BY <1>1, <2>1 DEF Reports
<1>6. e \in events => snap[c] # 0 /\ Opened(c)
    BY <1>1 DEF EventInv, EventOk, Opened
<1> HIDE DEF N
<1> QED
    BY <1>1, <1>3, <1>4, <1>5, <1>6

\* What a turn of the loop that reads the activities tells of them.
LEMMA Announces ==
    ASSUME WholeInv, [Next]_vars, NEW c \in CRs, c \notin unread, Announced(c), Process(c)
    PROVE  Announced(c)'
<1> USE DEF WholeInv, Base
<1> DEFINE h == remote[c]
           s == scan.seen[c]
           s0 == snap[c]
           q0 == cursor[c].state
           t == Start(c)
           at == h[s].at
<1>1. c \notin rebase
    BY DEF PlaceInv
<1>2. PICK a, old, acts :
              /\ Looked(c, a, old, acts)
              /\ Save(c, News(c, old, acts, a.state))
              /\ cursor' = [cursor EXCEPT ![c] = [state |-> a.state, version |-> a.version]]
    BY <1>1, Processed
<1> DEFINE q == a.state
           v == a.version
           R == Replay(c, old, View(c, s), acts, q, at)
<1>3. /\ scan.phase = "listed" /\ c \in scan.left /\ UNCHANGED platform /\ s \in 1 .. Now(c)
      /\ snap' = [snap EXCEPT ![c] = s]
    BY Leaves
<1>4. /\ remote' = remote /\ provider' = provider /\ Now(c)' = Now(c) /\ snap'[c] = s
      /\ cursor'[c] = [state |-> q, version |-> v]
      /\ cursor'[c].state = q /\ cursor'[c].version = v
    BY <1>2, <1>3 DEF platform, Now, Types, StoredType, PlaceInv
<1>5. /\ Now(c) \in Nat /\ Now(c) <= MaxActs /\ Alternates(c) /\ at \in Int
      /\ \A k \in 2 .. Now(c) : h[k].kind \in Reports
      /\ StateIn(h, 1) = "opened"
    <2>1. Now(c) \in Nat /\ Now(c) >= 1
        BY <1>3, HistoryIs
    <2> QED
        BY <1>3, <2>1, HistoryIs
<1>6. /\ acts \in SUBSET (1 .. Now(c)) /\ old \in Looks /\ \A k \in acts : h[k].kind \in Reports
      /\ a.detail \in s .. Now(c) /\ q \in s .. Now(c) /\ v \in s .. Now(c)
      /\ provider = "gitlab" => /\ StateIn(h, a.detail) = StateIn(h, s) /\ Sha(h, v) = Sha(h, s)
                                /\ HeadsFit(c, old, acts, Sha(h, s0), s)
      /\ provider # "gitlab" => a.detail = q
    BY <1>2 DEF Looked
<1>7. /\ s \in Nat /\ q \in Nat /\ v \in Nat /\ q \in 1 .. Now(c) /\ v \in 1 .. Now(c)
      /\ s0 \in Nat /\ q0 \in Nat /\ cursor[c].version \in Nat
      /\ s0 <= q0 /\ q0 <= s /\ cursor[c].version <= s /\ (s0 = 0 => q0 = 0 /\ cursor[c].version = 0)
      /\ t \in 1 .. Now(c) /\ t <= s /\ s <= q /\ s <= v /\ s0 <= cursor[c].version
    <2>1. cursor[c] \in [state : Nat, version : Nat] /\ s0 \in Nat
        BY DEF PlaceInv, Types, StoredType
    <2>2. q0 <= s /\ cursor[c].version <= s /\ s0 <= q0 /\ s0 <= cursor[c].version
          /\ (s0 = 0 => q0 = 0 /\ cursor[c].version = 0)
        BY <1>1, <1>3 DEF PlaceInv
    <2>3. t = IF s0 = 0 THEN 1 ELSE q0
        BY DEF Start
    <2> HIDE DEF t, q, v, s, s0, q0
    <2> QED
        BY <1>3, <1>5, <1>6, <2>1, <2>2, <2>3 DEF s0, q0
<1>8. provider' = "gitlab" => Sha(remote[c], snap[c])' = Sha(remote[c], cursor[c].version)'
    BY <1>4, <1>6
<1> SUFFICES ASSUME Opened(c)' PROVE Passed(c)' /\ Ahead(c)' /\ (provider' = "gitlab" => HeadsTold(c)')
    BY <1>8 DEF Announced
<1>9. (s0 # 0 \/ h[1].at >= Window) /\ (s0 # 0 => Opened(c))
    BY <1>2, <1>6, OpenedOnce
<1>10. /\ TurnsFrom(c, acts, t, q) /\ TurnsBeyond(c, acts, q, a.detail)
       /\ old.state = StateIn(h, IF s0 = 0 THEN 1 ELSE s0)
       /\ provider = "gitlab" =>
             \A k \in 1 .. Now(c) :
                 h[k].kind = "committed" /\ cursor[c].version < k /\ k <= v => k \in acts
    BY <1>2, <1>9 DEF Looked
<1>11. ASSUME NEW type, NEW via, NEW key,
              \E e \in R : e.cr = c /\ e.type = type /\ e.via = via /\ e.key = key
       PROVE  Told(c, type, via, key)'
    <2>1. PICK e \in R : e.cr = c /\ e.type = type /\ e.via = via /\ e.key = key
        BY <1>11
    <2>2. e \in News(c, old, acts, q)
        BY DEF News
    <2>3. \E f \in events' : f.cr = e.cr /\ f.type = e.type /\ f.via = e.via /\ f.key = e.key
        BY <1>2, <2>2, SavedTold
    <2> QED
        BY <2>1, <2>3 DEF Told
<1>12. /\ \A k \in t + 1 .. q :
             /\ Turned(c, k)
             /\ \/ provider # "gitlab" \/ old.state = StateIn(h, t)
                \/ \E j \in t + 1 .. k - 1 : Turned(c, j)
             => \E e \in R : e.cr = c /\ e.type = h[k].kind /\ e.via = "activity" /\ e.key = k
       /\ provider = "gitlab" /\ StateIn(h, s) # StateIn(h, q) =>
             \/ \E e \in R : e.cr = c /\ e.type = Toward(StateIn(h, s)) /\ e.via = "diff" /\ e.key = at
             \/ /\ StateIn(h, s) = "closed"
                /\ \E k \in q + 1 .. Now(c) :
                     /\ h[k].kind = "closed"
                     /\ \E e \in R : e.cr = c /\ e.type = "closed" /\ e.via = "detail" /\ e.key = k
    <2> DEFINE d == IF provider = "gitlab" THEN a.detail ELSE s
    <2>1. d \in 1 .. Now(c) /\ s <= d /\ StateIn(h, d) = StateIn(h, s)
        BY <1>3, <1>5, <1>6, <1>7
    <2>2. TurnsBeyond(c, acts, q, d)
        <3>1. CASE provider = "gitlab"
            BY <1>10, <3>1
        <3>2. CASE provider # "gitlab"
            <4>1. TurnsBeyond(c, acts, q, q)
                BY <1>6, <1>10, <3>2
            <4>2. \A k \in acts : k \in Nat
                BY <1>5, <1>6
            <4> QED
                BY <1>7, <4>1, <4>2 DEF TurnsBeyond
        <3> QED
            BY <3>1, <3>2
    <2> HIDE DEF d, R, q, s, t, at, h
    <2>3. /\ \A k \in t + 1 .. q :
                   /\ Turned(c, k)
                   /\ \/ provider # "gitlab" \/ old.state = StateIn(h, t)
                      \/ \E j \in t + 1 .. k - 1 : Turned(c, j)
                   => \E e \in R : e.cr = c /\ e.type = h[k].kind /\ e.via = "activity" /\ e.key = k
          /\ StateIn(h, s) # StateIn(h, q) =>
                   \/ \E e \in R : e.cr = c /\ e.type = Toward(StateIn(h, s)) /\ e.via = "diff" /\ e.key = at
                   \/ /\ StateIn(h, s) = "closed"
                      /\ \E k \in q + 1 .. Now(c) :
                           /\ h[k].kind = "closed"
                           /\ \E e \in R : e.cr = c /\ e.type = "closed" /\ e.via = "detail" /\ e.key = k
        BY <1>3, <1>5, <1>6, <1>7, <1>10, <2>1, <2>2, TurnsReported DEF h, R
    <2> QED
        BY <2>3, Zenon
<1> HIDE DEF R
<1>13. ASSUME NEW k \in t + 1 .. q, Turned(c, k),
              \/ provider # "gitlab" \/ old.state = StateIn(h, t)
              \/ \E j \in t + 1 .. k - 1 : Turned(c, j)
       PROVE  Direct(c, k)'
    <2>1. \E e \in R : e.cr = c /\ e.type = h[k].kind /\ e.via = "activity" /\ e.key = k
        BY <1>12, <1>13
    <2>2. ASSUME NEW type, type = h[k].kind PROVE Told(c, type, "activity", k)'
        BY <1>11, <2>1, <2>2
    <2> QED
        BY <1>4, <2>2 DEF Direct, Told
<1>14. s0 = 0 => old.state = StateIn(h, t)
    BY <1>10 DEF Start
<1>15. Passed(c)'
    <2> SUFFICES ASSUME NEW k \in 2 .. q, Turned(c, k)
                 PROVE  (Direct(c, k) \/ ByDiff(c, k) \/ ByDetail(c, k))'
        BY <1>4 DEF Passed, Turned
    <2>1. k \in 1 .. Now(c) /\ k \in Nat
        BY <1>5, <1>7
    <2>2. CASE s0 # 0 /\ k <= q0
        <3>1. Direct(c, k) \/ ByDiff(c, k) \/ ByDetail(c, k)
            BY <1>7, <1>9, <2>1, <2>2 DEF Announced, Passed
        <3> QED
            BY <2>1, <3>1, DirectStays, ByDiffStays, ByDetailStays
    <2>3. CASE ~(s0 # 0 /\ k <= q0)
        <3>1. k \in t + 1 .. q
            BY <1>7, <2>1, <2>3 DEF Start
        <3>2. CASE \/ provider # "gitlab" \/ old.state = StateIn(h, t)
                   \/ \E j \in t + 1 .. k - 1 : Turned(c, j)
            BY <1>13, <3>1, <3>2
        <3>3. CASE /\ provider = "gitlab" /\ old.state # StateIn(h, t)
                   /\ \A j \in t + 1 .. k - 1 : ~Turned(c, j)
            <4>1. s0 # 0 /\ t = q0 /\ old.state = StateIn(h, s0)
                BY <1>10, <1>14, <3>3 DEF Start
            <4>2. s0 \in 1 .. Now(c) /\ q0 \in 1 .. Now(c) /\ s0 \in Nat \ {0} /\ q0 < k
                BY <1>5, <1>7, <3>1, <4>1
            <4>3. StateIn(h, s0) \in States /\ StateIn(h, s0) # StateIn(h, q0)
                BY <3>3, <4>1 DEF StateIn, StateAfter, States
            <4> DEFINE type == Toward(StateIn(h, s0))
            <4>4. h[k].kind = type
                <5>1. k \in t + 1 .. Now(c)
                    BY <1>5, <1>7, <3>1
                <5> QED
                    BY <1>5, <1>7, <3>3, <4>1, <4>3, <5>1, FirstTurn
            <4>5. PICK j \in s0 + 1 .. q0 : Turned(c, j)
                BY <1>7, <4>2, <4>3, TurnBetween
            <4>6. \/ Told(c, type, "diff", h[s0].at) /\ DirectIn(c, s0 + 1, q0, type)
                  \/ /\ type = "closed"
                     /\ \E d \in q0 + 1 .. Now(c) : h[d].kind = "closed" /\ Told(c, "closed", "detail", d)
                BY <1>9, <3>3, <4>1, <4>3 DEF Announced, Ahead
            <4>7. CASE Told(c, type, "diff", h[s0].at) /\ DirectIn(c, s0 + 1, q0, type)
                <5>1. s0 \in 1 .. k - 1 /\ j \in s0 + 1 .. k - 1
                    BY <2>1, <4>2
                <5>2. DirectIn(c, s0 + 1, k - 1, type)
                    <6> SUFFICES ASSUME NEW i \in s0 + 1 .. k - 1, h[i].kind = type PROVE Direct(c, i)
                        BY DEF DirectIn
                    <6>1. CASE i <= q0
                        <7>1. i \in s0 + 1 .. q0
                            BY <1>7, <6>1
                        <7> QED
                            BY <4>7, <7>1 DEF DirectIn
                    <6>2. CASE ~(i <= q0)
                        <7>1. i \in t + 1 .. k - 1
                            BY <1>7, <2>1, <4>1, <6>2
                        <7>2. ~Turned(c, i)
                            BY <3>3, <7>1
                        <7> QED
                            BY <7>2 DEF Turned, Toward
                    <6> QED
                        BY <6>1, <6>2
                <5>3. ByDiff(c, k)
                    <6> HIDE DEF type
                    <6> QED
                        BY <4>4, <4>5, <4>7, <5>1, <5>2 DEF ByDiff
                <5> QED
                    BY <2>1, <5>3, ByDiffStays
            <4>8. CASE /\ type = "closed"
                       /\ \E d \in q0 + 1 .. Now(c) : h[d].kind = "closed" /\ Told(c, "closed", "detail", d)
                <5>1. PICK d \in q0 + 1 .. Now(c) : h[d].kind = "closed" /\ Told(c, "closed", "detail", d)
                    BY <4>8
                <5>2. d <= s /\ d \in Nat
                    <6>1. PICK e \in events : e.cr = c /\ e.type = "closed" /\ e.via = "detail" /\ e.key = d
                        BY <5>1 DEF Told
                    <6>2. e.key <= scan.seen[c]
                        BY <1>3, <6>1 DEF EventInv, EventOk
                    <6> QED
                        BY <1>7, <6>1, <6>2
                <5>3. k <= d
                    <6>1. ~(k <= d) => d \in t + 1 .. k - 1
                        BY <2>1, <4>1, <5>2
                    <6>2. Turned(c, d)
                        BY <5>1 DEF Turned
                    <6> QED
                        BY <3>3, <6>1, <6>2
                <5>4. DirectIn(c, k + 1, d, "closed")'
                    <6> SUFFICES ASSUME NEW i \in k + 1 .. d, h[i].kind = "closed" PROVE Direct(c, i)'
                        BY <1>4 DEF DirectIn
                    <6>1. i \in t + 1 .. q /\ k \in t + 1 .. i - 1 /\ Turned(c, i)
                        BY <1>7, <2>1, <3>1, <5>2 DEF Turned
                    <6> QED
                        BY <1>13, <6>1
                <5>5. Told(c, "closed", "detail", d)'
                    BY <5>1, ToldStays
                <5>6. d \in k .. Now(c)'
                    BY <1>4, <1>5, <5>2, <5>3
                <5> QED
                    BY <1>4, <4>4, <4>8, <5>4, <5>5, <5>6 DEF ByDetail
            <4> QED
                BY <4>6, <4>7, <4>8
        <3> QED
            BY <3>2, <3>3
    <2> QED
        BY <2>2, <2>3
<1>16. Ahead(c)'
    <2> DEFINE type == Toward(StateIn(h, s))
    <2> SUFFICES ASSUME provider = "gitlab", StateIn(h, s) # StateIn(h, q) PROVE Ahead(c)'
        BY <1>4 DEF Ahead
    <2>1. CASE \E e \in R : e.cr = c /\ e.type = type /\ e.via = "diff" /\ e.key = at
        <3>1. \E e \in events' : e.cr = c /\ e.type = type /\ e.via = "diff" /\ e.key = at
            <4>1. ASSUME NEW x, NEW y, x = type, y = at PROVE Told(c, x, "diff", y)'
                BY <1>11, <2>1, <4>1
            <4> QED
                BY <4>1 DEF Told
        <3>2. ASSUME NEW i \in s + 1 .. q, h[i].kind = type PROVE Direct(c, i)'
            <4>1. i \in t + 1 .. q /\ Turned(c, i)
                BY <1>7, <3>2 DEF Turned, Toward
            <4>2. \/ provider # "gitlab" \/ old.state = StateIn(h, t)
                  \/ \E j \in t + 1 .. i - 1 : Turned(c, j)
                <5> SUFFICES ASSUME \A j \in t + 1 .. i - 1 : ~Turned(c, j), old.state # StateIn(h, t)
                             PROVE  FALSE
                    OBVIOUS
                <5>1. s \in Nat \ {0} /\ t \in Nat \ {0} /\ i \in t + 1 .. Now(c)
                    BY <1>3, <1>5, <1>7, <4>1
                <5>2. StateIn(h, s) = StateIn(h, t)
                    <6>1. \A j \in t + 1 .. s : j \in t + 1 .. i - 1
                        BY <1>7, <5>1
                    <6> QED
                        BY <1>7, <5>1, <6>1, TurnBetween
                <5>3. old.state \in States
                    BY <1>6 DEF Looks
                <5>4. h[i].kind = Toward(old.state)
                    BY <1>5, <1>7, <4>1, <5>1, <5>3, FirstTurn
                <5>5. StateIn(h, t) \in States
                    BY DEF StateIn, StateAfter, States
                <5> QED
                    BY <3>2, <5>2, <5>3, <5>4, <5>5 DEF States, Toward
            <4> QED
                BY <1>13, <4>1, <4>2
        <3> QED
            BY <1>4, <3>1, <3>2 DEF Ahead, Told, DirectIn
    <2>2. CASE /\ StateIn(h, s) = "closed"
               /\ \E k \in q + 1 .. Now(c) :
                     /\ h[k].kind = "closed"
                     /\ \E e \in R : e.cr = c /\ e.type = "closed" /\ e.via = "detail" /\ e.key = k
        <3>1. PICK k \in q + 1 .. Now(c) :
                     /\ h[k].kind = "closed"
                     /\ \E e \in R : e.cr = c /\ e.type = "closed" /\ e.via = "detail" /\ e.key = k
            BY <2>2
        <3>2. Told(c, "closed", "detail", k)'
            BY <1>11, <3>1
        <3>3. Toward(StateIn(h, s)) = "closed"
            BY <2>2 DEF Toward
        <3> QED
            BY <1>4, <3>1, <3>2, <3>3 DEF Ahead
    <2> QED
        BY <1>12, <2>1, <2>2
<1>17. ASSUME provider' = "gitlab" PROVE HeadsTold(c)'
    <2> SUFFICES ASSUME NEW n \in 1 .. Sha(h, v)
                 PROVE  \E e \in events' : e.cr = c /\ e.type = "committed" /\ e.new.head = n
        BY <1>4 DEF HeadsTold
    <2> DEFINE w == cursor[c].version
    <2>1. w \in Nat /\ v \in Nat /\ w <= v /\ Sha(h, w) \in Nat /\ Sha(h, v) \in Nat
        <3>1. w \in Nat /\ v \in Nat /\ w <= v
            <4> HIDE DEF s, v
            <4> QED
                BY <1>7
        <3> HIDE DEF w, v
        <3> QED
            BY <3>1, ShaSteps
    <2>2. CASE n <= Sha(h, w)
        <3>1. s0 # 0
            <4>1. Sha(h, 0) = 0
                BY ShaSteps
            <4> QED
                BY <1>7, <2>2, <4>1
        <3>2. HeadsTold(c) /\ n \in 1 .. Sha(h, w)
            BY <1>4, <1>9, <1>17, <2>1, <2>2, <3>1 DEF Announced
        <3>3. \E e \in events : e.cr = c /\ e.type = "committed" /\ e.new.head = n
            BY <3>2 DEF HeadsTold
        <3> QED
            BY <3>3, Onward
    <2>3. CASE ~(n <= Sha(h, w))
        <3>1. PICK k \in w + 1 .. v : h[k].kind = "committed" /\ Sha(h, k) = n
            <4>1. n \in Sha(h, w) + 1 .. Sha(h, v)
                BY <2>1, <2>3
            <4> QED
                BY <2>1, <4>1, ShaBetween
        <3>2. k \in acts
            <4>1. k \in 1 .. Now(c) /\ w < k /\ k <= v
                BY <1>5, <1>7
            <4> QED
                BY <1>4, <1>10, <1>17, <3>1, <4>1
        <3>3. \E e \in R : e.cr = c /\ e.type = "committed" /\ e.via # "diff" /\ e.key = k
            <4>1. Sha(h, s0) \in Nat
                BY <1>7, ShaSteps
            <4>2. HeadsFit(c, old, acts, Sha(h, s0), s)
                BY <1>4, <1>6, <1>17
            <4>3. \A j \in acts : remote[c][j].kind = "committed" =>
                    \E e \in R : e.cr = c /\ e.type = "committed" /\ e.via # "diff" /\ e.key = j
                <5>1. Types
                    OBVIOUS
                <5> HIDE DEF at, s, s0, q, WholeInv
                <5> QED
                    BY <1>3, <1>5, <1>6, <4>1, <4>2, <5>1, HeadsReported DEF R
            <4> HIDE DEF R
            <4> QED
                BY <3>1, <3>2, <4>3
        <3>4. PICK e \in R : e.cr = c /\ e.type = "committed" /\ e.via # "diff" /\ e.key = k
            BY <3>3
        <3>5. e \in News(c, old, acts, q)
            BY DEF News, R
        <3>6. PICK f \in events' : f.cr = e.cr /\ f.type = e.type /\ f.via = e.via /\ f.key = e.key
            BY <1>2, <3>5, SavedTold
        <3>7. EventOk(f)'
            BY NextEvents DEF Before, EventInv
        <3>8. f.new.head = Sha(remote'[c], k)
            BY <1>17, <3>4, <3>6, <3>7 DEF EventOk
        <3> QED
            BY <1>4, <3>1, <3>4, <3>6, <3>8
    <2> QED
        BY <2>2, <2>3
<1> QED
    BY <1>15, <1>16, <1>17

-----------------------------------------------------------------------------
(* Each step keeps the changes announced.                                   *)

\* What a step leaves of a change request that it does not process.
LEMMA StepsOver ==
    ASSUME WholeInv, [Next]_vars, NEW c \in CRs, c \notin unread'
    PROVE  /\ c \notin unread
           /\ \/ Process(c)
              \/ cursor'[c] = cursor[c] /\ snap'[c] = snap[c] /\ (Opened(c)' => Opened(c))
<1> USE DEF WholeInv, Base
<1> DEFINE Over == cursor'[c] = cursor[c] /\ snap'[c] = snap[c] /\ (Opened(c)' => Opened(c))
<1>1. ASSUME UNCHANGED <<cursor, snap, events, unread>> PROVE c \notin unread /\ Over
    BY <1>1 DEF Opened
<1>2. ASSUME NEW d \in CRs, NEW kind \in Kinds, Act(d, kind)
      PROVE  UNCHANGED <<cursor, snap, events, unread>>
    BY <1>2 DEF Act, stored
<1>3. ASSUME MoveTarget \/ Tick \/ Begin \/ List \/ Complete \/ Fail \/ UNCHANGED vars
      PROVE  UNCHANGED <<cursor, snap, events, unread>>
    BY <1>3 DEF MoveTarget, Tick, Begin, List, Complete, Fail, vars, stored
<1>4. ASSUME NEW d \in CRs, Rebaseline(d) PROVE c \notin unread /\ Over
    <2>1. d \in rebase /\ UNCHANGED <<snap, events, unread>>
        BY <1>4 DEF Rebaseline
    <2>2. c # d
        BY <2>1 DEF PlaceInv
    <2>3. cursor'[c] = cursor[c]
        BY <1>4, <2>2 DEF Rebaseline, PlaceInv
    <2> QED
        BY <2>1, <2>3 DEF Opened
<1>5. ASSUME NEW d \in CRs, TargetPass(d) PROVE c \notin unread /\ Over
    <2> DEFINE new == IF snapTarget[d] = NoHead THEN {} ELSE {TargetEvent(d, snapTarget[d], scan.target)}
    <2>1. UNCHANGED <<snap, cursor, unread>> /\ events' = Inserted(new)
        BY <1>5 DEF TargetPass
    <2>2. \A e \in new : e.type = "target"
        BY DEF TargetEvent
    <2> HIDE DEF new
    <2>3. \A e \in events' : e \in events \/ e.type = "target"
        BY <2>1, <2>2, InsertedIs
    <2> QED
        BY <2>1, <2>3 DEF Opened
<1>6. ASSUME NEW d \in CRs, d # c, Process(d) \/ ProcessUnread(d) PROVE c \notin unread /\ Over
    <2>1. /\ snap' = [snap EXCEPT ![d] = scan.seen[d]]
          /\ \/ /\ rebase' = rebase \ {d} /\ unread' = unread
                /\ \E q, v \in scan.seen[d] .. Now(d) :
                        cursor' = [cursor EXCEPT ![d] = [state |-> q, version |-> v]]
             \/ /\ provider = "gitlab" /\ cursor' = cursor
                /\ rebase' = rebase \union {d} /\ unread' = unread \union {d}
        BY <1>6, Leaves
    <2>2. snap'[c] = snap[c] /\ cursor'[c] = cursor[c] /\ c \notin unread
        BY <1>6, <2>1 DEF Types, StoredType, PlaceInv
    <2>3. \A e \in events' : e \in events \/ e.cr = d
        BY <1>6, ProcessedEvents DEF Before, NewOk
    <2> QED
        BY <1>6, <2>2, <2>3 DEF Opened
<1>7. Process(c) => c \notin unread
    BY DEF Process
<1>8. ~ProcessUnread(c)
    BY DEF ProcessUnread
<1> HIDE DEF Over
<1>9. c \notin unread /\ (Process(c) \/ Over)
    <2>1. \/ \E d \in CRs : \E kind \in Kinds : Act(d, kind)
          \/ MoveTarget \/ Tick \/ Begin \/ List \/ Complete \/ Fail \/ UNCHANGED vars
          => c \notin unread /\ Over
        BY <1>1, <1>2, <1>3
    <2>2. (\E d \in CRs : Rebaseline(d) \/ TargetPass(d)) => c \notin unread /\ Over
        BY <1>4, <1>5
    <2>3. (\E d \in CRs : Process(d) \/ ProcessUnread(d)) => c \notin unread /\ (Process(c) \/ Over)
        BY <1>6, <1>7, <1>8
    <2> QED
        BY <2>1, <2>2, <2>3, Steps
<1> QED
    BY <1>9 DEF Over

\* Each step keeps the changes announced.
LEMMA NextAnnounced == WholeInv /\ AnnouncedInv /\ [Next]_vars => AnnouncedInv'
<1> SUFFICES ASSUME WholeInv, AnnouncedInv, [Next]_vars, NEW c \in CRs, c \notin unread'
             PROVE  Announced(c)'
    BY DEF AnnouncedInv
<1>1. c \notin unread
    BY StepsOver
<1>2. Announced(c)
    BY <1>1 DEF AnnouncedInv
<1>3. CASE Process(c)
    BY <1>1, <1>2, <1>3, Announces
<1>4. CASE cursor'[c] = cursor[c] /\ snap'[c] = snap[c] /\ (Opened(c)' => Opened(c))
    BY <1>1, <1>2, <1>4, QuietStep
<1> QED
    BY <1>3, <1>4, StepsOver

\* Two things are finitely many.
LEMMA FinitePair == ASSUME NEW x, NEW y PROVE IsFiniteSet({x, y})
<1>1. {x, y} = {x} \union {y}
    OBVIOUS
<1>2. IsFiniteSet({x}) /\ IsFiniteSet({y})
    BY FS_Singleton
<1> QED
    BY <1>1, <1>2, FS_Union

\* The inbox is finite: what is saved is.
LEMMA NextFinite == WholeInv /\ IsFiniteSet(events) /\ [Next]_vars => IsFiniteSet(events)'
<1> SUFFICES ASSUME WholeInv, IsFiniteSet(events), [Next]_vars PROVE IsFiniteSet(events')
    OBVIOUS
<1> USE DEF WholeInv, Base
<1>1. ASSUME NEW new, IsFiniteSet(new), \A e \in events' : e \in events \/ e \in new
      PROVE  IsFiniteSet(events')
    <2>1. IsFiniteSet(events \union new)
        BY <1>1, FS_Union
    <2>2. events' \subseteq events \union new
        BY <1>1
    <2> QED
        BY <2>1, <2>2, FS_Subset
<1>2. ASSUME NEW c \in CRs, Process(c) \/ ProcessUnread(c) PROVE IsFiniteSet(events')
    <2> DEFINE s == scan.seen[c]
               new == View(c, s)
               at == remote[c][s].at
    <2>1. PICK old, acts, read : /\ old \in Looks /\ acts \in SUBSET (1 .. Now(c))
                                 /\ Save(c, News(c, old, acts, read))
        BY <1>2, Saved
    <2>2. s \in 1 .. Now(c) /\ Now(c) \in Nat /\ Now(c) <= MaxActs
        <3>1. s \in 1 .. Now(c)
            BY <1>2, Leaves
        <3> QED
            BY <3>1, HistoryIs
    <2>3. new \in Looks /\ ViewAfter(c, old, acts, Now(c)) \in Looks
        BY <2>1, <2>2, ViewOk, ViewAfterOk
    <2> DEFINE A(k) == ActEvent(c, old, acts, read, k)
               D == Differences(c, ViewAfter(c, old, acts, Now(c)), new, at)
               T == TargetEvent(c, snapTarget[c], scan.target)
               O == OpenedEvent(c)
               E == {A(k) : k \in acts}
               R == Replay(c, old, new, acts, read, at)
    <2>4. \A e \in R : (\E k \in acts : e = A(k)) \/ e \in D
        BY <2>1, <2>2, ReplayHas
    <2>5. IsFiniteSet(acts)
        <3>1. IsFiniteSet(1 .. Now(c))
            BY <2>2, FS_Interval
        <3> QED
            BY <2>1, <3>1, FS_Subset
    <2>6. IsFiniteSet(E)
        <3> HIDE DEF A
        <3> DEFINE f == [k \in acts |-> A(k)]
        <3>1. f \in Surjection(acts, E)
            BY DEF Surjection
        <3> HIDE DEF f
        <3> QED
            BY <2>5, <3>1, FS_Surjection
    <2>7. IsFiniteSet(D)
        <3> DEFINE last == ViewAfter(c, old, acts, Now(c))
                   turn == Event(c, Toward(new.state), last, new, "diff", at)
                   commit == Event(c, "committed", last, new, "diff", at)
        <3>1. \A e \in D : e = turn \/ e = commit
            <4> HIDE DEF last, new, at
            <4> QED
                BY <2>3, DifferencesAre DEF Looks, last
        <3> HIDE DEF turn, commit, D
        <3>2. D \subseteq {turn, commit}
            BY <3>1
        <3>3. IsFiniteSet({turn, commit})
            BY FinitePair
        <3> QED
            BY <3>2, <3>3, FS_Subset
    <2>8. \A e \in News(c, old, acts, read) : e = O \/ e \in R
        BY DEF News
    <2>9. \A e \in events' : e \in events \/ e \in News(c, old, acts, read) \/ e = T
        BY <2>1, SavedEvents
    <2> HIDE DEF A, D, T, O, R
    <2>10. \A e \in events' : e \in events \/ e \in (E \union D) \union {O, T}
        BY <2>4, <2>8, <2>9
    <2> HIDE DEF E
    <2>11. IsFiniteSet((E \union D) \union {O, T})
        <3>1. IsFiniteSet({O, T})
            BY FinitePair
        <3> QED
            BY <2>6, <2>7, <3>1, FS_Union
    <2> QED
        BY <1>1, <2>10, <2>11
<1>3. ASSUME NEW c \in CRs, TargetPass(c) PROVE IsFiniteSet(events')
    <2> DEFINE T == TargetEvent(c, snapTarget[c], scan.target)
    <2>1. \A e \in events' : e \in events \/ e \in {T}
        <3>1. PICK new : events' = Inserted(new) /\ new \subseteq {T}
            BY <1>3 DEF TargetPass
        <3> QED
            BY <3>1, InsertedIs
    <2> HIDE DEF T
    <2> QED
        BY <1>1, <2>1, FS_Singleton
<1>4. ASSUME NEW c \in CRs, NEW kind \in Kinds, Act(c, kind) PROVE events' = events
    BY <1>4 DEF Act, stored
<1>5. MoveTarget \/ Tick \/ Begin \/ List \/ Complete \/ Fail \/ UNCHANGED vars => events' = events
    BY DEF MoveTarget, Tick, Begin, List, Complete, Fail, vars, stored
<1>6. ASSUME NEW c \in CRs, Rebaseline(c) PROVE events' = events
    BY <1>6 DEF Rebaseline
<1> QED
    BY <1>2, <1>3, <1>4, <1>5, <1>6, Steps

-----------------------------------------------------------------------------
(* As many events as turns.                                                 *)

\* When its turns are told, and no two at one time, there are as many events as turns.
LEMMA EnoughTold ==
    ASSUME WholeInv, IsFiniteSet(events), NEW c \in CRs, Passed(c), TurnsApart(c),
           NEW type \in {"closed", "reopened"}
    PROVE  CountOf(c, type) >= Turns(c, type, cursor[c].state)
<1> USE DEF WholeInv, Base
<1> DEFINE h == remote[c]
           q == cursor[c].state
           K == {k \in 1 .. q : h[k].kind = type}
           E == {e \in events : e.cr = c /\ e.type = type}
           Own(k, e) == e.via = "activity" /\ e.key = k
           Diff(k, e) ==
              /\ ~Direct(c, k) /\ e.via = "diff"
              /\ \E m \in 1 .. k - 1 :
                    /\ \E j \in m + 1 .. k - 1 : Turned(c, j)
                    /\ e.key = h[m].at /\ DirectIn(c, m + 1, k - 1, type)
           Detail(k, e) ==
              /\ ~Direct(c, k) /\ e.via = "detail" /\ type = "closed"
              /\ \E d \in k .. Now(c) : e.key = d /\ DirectIn(c, k + 1, d, "closed")
           Marks(k, e) == Own(k, e) \/ Diff(k, e) \/ Detail(k, e)
<1>1. /\ Now(c) \in Nat /\ q \in Nat /\ q <= Now(c)
      /\ \A k \in 1 .. Now(c) : h[k].kind \in Kinds /\ h[k].at \in Int
      /\ \A k \in 2 .. Now(c) : h[k].kind \in Reports
      /\ \A j, k \in 1 .. Now(c) : j <= k => h[j].at <= h[k].at
      /\ Now(c) >= 1 => h[1].kind = "opened"
    <2>1. q \in Nat /\ q <= Now(c)
        BY DEF PlaceInv
    <2> QED
        BY <2>1, HistoryIs
<1>2. ASSUME NEW k \in K
      PROVE  k \in 2 .. q /\ k \in Nat /\ k \in 1 .. Now(c) /\ Turned(c, k) /\ h[k].kind = type
    BY <1>1, <1>2 DEF Turned
<1>3. ASSUME NEW k \in K PROVE \E e \in E : Marks(k, e)
    <2>1. k \in 2 .. q /\ Turned(c, k) /\ h[k].kind = type
        BY <1>2
    <2>2. Direct(c, k) \/ ByDiff(c, k) \/ ByDetail(c, k)
        BY <2>1 DEF Passed
    <2>3. CASE Direct(c, k)
        <3>1. \E e \in events : e.cr = c /\ e.type = type /\ e.via = "activity" /\ e.key = k
            BY <2>1, <2>3 DEF Direct, Told
        <3> QED
            BY <3>1
    <2>4. CASE ~Direct(c, k) /\ ByDiff(c, k)
        <3>1. PICK m \in 1 .. k - 1 :
                /\ \E j \in m + 1 .. k - 1 : Turned(c, j)
                /\ Told(c, type, "diff", h[m].at) /\ DirectIn(c, m + 1, k - 1, type)
            BY <2>1, <2>4 DEF ByDiff
        <3>2. PICK e \in events : e.cr = c /\ e.type = type /\ e.via = "diff" /\ e.key = h[m].at
            BY <3>1 DEF Told
        <3>3. Diff(k, e)
            BY <2>4, <3>1, <3>2
        <3> HIDE DEF Own, Diff, Detail
        <3> QED
            BY <3>2, <3>3
    <2>5. CASE ~Direct(c, k) /\ ByDetail(c, k)
        <3>1. /\ type = "closed"
              /\ \E d \in k .. Now(c) : Told(c, "closed", "detail", d) /\ DirectIn(c, k + 1, d, "closed")
            BY <2>1, <2>5 DEF ByDetail
        <3>2. PICK d \in k .. Now(c) : Told(c, "closed", "detail", d) /\ DirectIn(c, k + 1, d, "closed")
            BY <3>1
        <3>3. PICK e \in events : e.cr = c /\ e.type = "closed" /\ e.via = "detail" /\ e.key = d
            BY <3>2 DEF Told
        <3>4. Detail(k, e)
            BY <2>5, <3>1, <3>2, <3>3
        <3> HIDE DEF Own, Diff, Detail
        <3> QED
            BY <3>1, <3>3, <3>4
    <2> QED
        BY <2>2, <2>3, <2>4, <2>5
<1>4. ASSUME NEW i \in K, NEW k \in K, i < k, NEW e \in E, Marks(i, e), Marks(k, e) PROVE FALSE
    <2>1. /\ i \in Nat /\ k \in Nat /\ i \in 2 .. q /\ k \in 2 .. q /\ i \in 1 .. Now(c) /\ k \in 1 .. Now(c)
          /\ h[i].kind = type /\ h[k].kind = type
        BY <1>2
    <2>2. CASE Own(i, e) /\ Own(k, e)
        BY <1>4, <2>1, <2>2
    <2>3. CASE Diff(i, e) /\ Diff(k, e)
        <3>1. PICK m \in 1 .. i - 1 :
                (\E j \in m + 1 .. i - 1 : Turned(c, j)) /\ e.key = h[m].at
            BY <2>3
        <3>2. PICK j \in m + 1 .. i - 1 : Turned(c, j)
            BY <3>1
        <3>3. PICK n \in 1 .. k - 1 : e.key = h[n].at /\ DirectIn(c, n + 1, k - 1, type)
            BY <2>3
        <3>4. ~Direct(c, i)
            BY <2>3
        <3>5. i <= n
            <4>1. ~(i <= n) => i \in n + 1 .. k - 1
                BY <1>4, <2>1, <3>3
            <4> QED
                BY <2>1, <3>3, <3>4, <4>1 DEF DirectIn
        <3>6. /\ m \in 1 .. Now(c) /\ n \in 1 .. Now(c) /\ j \in 2 .. Now(c) /\ j \in 1 .. Now(c)
              /\ m <= j /\ j <= i /\ j # i /\ j \in Nat
            BY <1>1, <2>1, <3>1, <3>2, <3>3
        <3>7. h[m].at <= h[j].at /\ h[j].at <= h[i].at /\ h[i].at <= h[n].at
            BY <1>1, <2>1, <3>5, <3>6
        <3>8. h[j].at = h[i].at
            <4>1. /\ {h[m].at, h[j].at, h[i].at, h[n].at} \subseteq Int
                  /\ h[m].at = h[n].at
                BY <1>1, <2>1, <3>1, <3>3, <3>6
            <4> QED
                BY <3>7, <4>1
        <3>9. h[j].kind \in {"closed", "reopened"}
            BY <1>1, <3>2, <3>6 DEF Turned, Reports
        <3>10. {h[j].kind, h[i].kind} \subseteq {"closed", "reopened"}
            BY <2>1, <3>9
        <3> QED
            BY <2>1, <3>6, <3>8, <3>10 DEF TurnsApart
    <2>4. CASE Detail(i, e) /\ Detail(k, e)
        <3>1. PICK d \in i .. Now(c) : e.key = d /\ DirectIn(c, i + 1, d, "closed")
            BY <2>4
        <3>2. PICK b \in k .. Now(c) : e.key = b
            BY <2>4
        <3>3. k \in i + 1 .. d
            BY <1>4, <2>1, <3>1, <3>2
        <3>4. ~Direct(c, k) /\ type = "closed"
            BY <2>4
        <3> QED
            BY <2>1, <3>1, <3>3, <3>4 DEF DirectIn
    <2>5. (Own(i, e) => ~Diff(k, e) /\ ~Detail(k, e)) /\ (Diff(i, e) => ~Own(k, e) /\ ~Detail(k, e))
          /\ (Detail(i, e) => ~Own(k, e) /\ ~Diff(k, e))
        OBVIOUS
    <2> HIDE DEF Own, Diff, Detail
    <2> QED
        BY <1>4, <2>2, <2>3, <2>4, <2>5
<1>5. K \in SUBSET Nat
    BY <1>2
<1>6. IsFiniteSet(E)
    BY FS_Subset
<1>7. CountOf(c, type) = Cardinality(E) /\ Turns(c, type, q) = Cardinality(K)
    BY DEF CountOf, Turns
<1> HIDE DEF K, E, Marks
<1> DEFINE f == [k \in K |-> CHOOSE e \in E : Marks(k, e)]
<1>8. \A k \in K : f[k] \in E /\ Marks(k, f[k])
    <2> SUFFICES ASSUME NEW k \in K PROVE f[k] \in E /\ Marks(k, f[k])
        OBVIOUS
    <2>1. f[k] = CHOOSE e \in E : Marks(k, e)
        OBVIOUS
    <2> QED
        BY <1>3, <2>1
<1>9. f \in [K -> E]
    <2>1. \A k \in K : (CHOOSE e \in E : Marks(k, e)) \in E
        BY <1>8
    <2> QED
        BY <2>1
<1> HIDE DEF f
<1>10. ASSUME NEW i \in K, NEW k \in K, f[i] = f[k] PROVE i = k
    <2>1. i \in Nat /\ k \in Nat
        BY <1>5
    <2>2. ~(i < k)
        BY <1>4, <1>8, <1>10
    <2>3. ~(k < i)
        BY <1>4, <1>8, <1>10
    <2> QED
        BY <2>1, <2>2, <2>3
<1>11. f \in Injection(K, E)
    BY <1>9, <1>10 DEF Injection, IsInjective
<1>12. IsFiniteSet(K) /\ Cardinality(K) <= Cardinality(E)
    BY <1>6, <1>11, FS_Injection
<1>13. Cardinality(K) \in Nat /\ Cardinality(E) \in Nat
    BY <1>6, <1>12, FS_CardinalityType
<1> QED
    BY <1>7, <1>12, <1>13

\* In the beginning there is nothing to announce.
LEMMA AnnouncedStart == Init => AnnouncedInv /\ IsFiniteSet(events)
<1> SUFFICES ASSUME Init PROVE AnnouncedInv /\ IsFiniteSet(events)
    OBVIOUS
<1>1. events = {} /\ \A c \in CRs : snap[c] = 0 /\ cursor[c].version = 0
    BY DEF Init
<1> QED
    BY <1>1, FS_EmptySet DEF AnnouncedInv, Announced, Opened

\* The invariant says what it should.
LEMMA AnnouncedIs == WholeInv /\ AnnouncedInv /\ IsFiniteSet(events) => ChangesAnnounced
<1> SUFFICES ASSUME WholeInv, AnnouncedInv, IsFiniteSet(events), NEW c \in CRs \ unread, Opened(c)
             PROVE  /\ TurnsApart(c) =>
                          \A type \in {"closed", "reopened"} :
                              CountOf(c, type) >= Turns(c, type, cursor[c].state)
                    /\ provider = "gitlab" =>
                          \A n \in 1 .. ShaAt(c, cursor[c].version) :
                              \E e \in events : e.cr = c /\ e.type = "committed" /\ e.new.head = n
    BY DEF ChangesAnnounced, Opened
<1>1. Passed(c) /\ (provider = "gitlab" => HeadsTold(c))
    BY DEF AnnouncedInv, Announced
<1>2. ShaAt(c, cursor[c].version) = Sha(remote[c], cursor[c].version)
    BY Zenon DEF Sha, ShaAt
<1> QED
    BY <1>1, <1>2, EnoughTold DEF HeadsTold

\* What a cursor has passed of a change request announced as opened has its events, unless its
\* activities could once not be read.
THEOREM AnnouncesChanges == Spec => []ScanInv
<1>1. WholeInv /\ (AnnouncedInv /\ IsFiniteSet(events)) /\ [Next]_vars =>
        (AnnouncedInv /\ IsFiniteSet(events))'
    BY NextAnnounced, NextFinite
<1>2. WholeInv /\ AnnouncedInv /\ IsFiniteSet(events) => ScanInv
    BY AnnouncedIs, WholeTypes DEF ScanInv
<1> QED
    BY <1>1, <1>2, AnnouncedStart, WholeHolds, PTL DEF Spec
=============================================================================
