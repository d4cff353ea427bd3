------------------------- MODULE ResourceLeaseProofs -------------------------
(***************************************************************************)
(* Proofs about ResourceLease, for any number of leases, keys and owners   *)
(* and for every timing that satisfies HeartbeatInTime.                    *)
(*                                                                         *)
(* SoundHoldersKeepRows is not inductive: that a row has time left follows *)
(* from how long ago its holder wrote it (RowAge), and that a release does *)
(* not take a row from another lease of its owner follows from the hold    *)
(* count covering the holders (HoldCountCovers).                           *)
(*                                                                         *)
(* The second part is about Preparation, for any Agents, warm-ups, manual  *)
(* CIs, fingerprints and mishaps: a snapshot is what its fingerprint says  *)
(* and in the cache (SnapsInv), and the cleaner has the file lock alone    *)
(* from its first look on (LockInv).                                       *)
(***************************************************************************)
EXTENDS ResourceLease, PreparationState, FiniteSetTheorems, SequenceTheorems, TLAPS

\* A sound member's row was given Ttl at most beat[h] ticks ago.
RowAge ==
    \A h \in Members : Sound(OwnerOf[h]) =>
        \A k \in Wants[h] : owner[k] = OwnerOf[h] /\ left[k] + beat[h] >= Ttl

\* Only a member's clock runs.
BeatOfMembers == \A h \in Leases \ Members : beat[h] = 0

IInv ==
    /\ TypeOK
    /\ RowAge
    /\ BeatOfMembers
    /\ HoldCountCovers
    /\ LostOnlyWhenFaulty

LEMMA InitTypeOK == Init => TypeOK
BY LeaseAssumption DEF Init, TypeOK, Phases

\* Every step keeps the types of the variables.
LEMMA NextTypeOK == TypeOK /\ [Next]_vars => TypeOK'
<1> SUFFICES ASSUME TypeOK, [Next]_vars PROVE TypeOK'
    OBVIOUS
<1> USE LeaseAssumption
<1>1. CASE Tick
    BY <1>1 DEF Tick, TypeOK, Counted
<1>2. CASE Restart
    BY <1>2 DEF Restart, TypeOK, Phases
<1>3. ASSUME NEW h \in Leases, LeaseStep(h) PROVE TypeOK'
  <2>1. CASE Request(h)
    BY <2>1 DEF Request, TypeOK, Phases
  <2>2. CASE Acquire(h)
    BY <2>2 DEF Acquire, TypeOK, Phases, CountTaken
  <2>3. CASE Enter(h)
    BY <2>3 DEF Enter, TypeOK, Phases
  <2>4. CASE AcquireTimeout(h)
    BY <2>4 DEF AcquireTimeout, Leave, TypeOK, Phases
  <2>5. CASE CancelWaiting(h)
    BY <2>5 DEF CancelWaiting, Leave, TypeOK, Phases
  <2>6. CASE AbandonAcquired(h)
    BY <2>6 DEF AbandonAcquired, Leave, TypeOK, Phases
  <2>7. CASE Renew(h)
    <3>1. CASE Renewable(h)
      BY <2>7, <3>1 DEF Renew, TypeOK
    <3>2. CASE ~Renewable(h)
      BY <2>7, <3>2 DEF Renew, TypeOK
    <3> QED
      BY <3>1, <3>2
  <2>8. CASE HeartbeatFails(h)
    BY <2>8 DEF HeartbeatFails, TypeOK
  <2>9. CASE Release(h)
    BY <2>9 DEF Release, Leave, TypeOK, Phases, Drops, DropsLast
  <2>10. CASE ExitWithoutRelease(h)
    BY <2>10 DEF ExitWithoutRelease, Leave, TypeOK, Phases
  <2> QED
    BY <1>3, <2>1, <2>2, <2>3, <2>4, <2>5, <2>6, <2>7, <2>8, <2>9, <2>10 DEF LeaseStep
<1>4. CASE UNCHANGED vars
    BY <1>4 DEF vars, TypeOK
<1> QED
    BY <1>1, <1>2, <1>3, <1>4 DEF Next

\* The rows of a sound member are live.
LEMMA SoundRowsLive ==
    ASSUME TypeOK, RowAge,
           NEW h \in Members, Sound(OwnerOf[h]), NEW k \in Wants[h]
    PROVE  owner[k] = OwnerOf[h] /\ left[k] > 0 /\ k \in Keys
<1>1. h \in Leases /\ k \in Keys
    BY LeaseAssumption DEF Members
<1>2. beat[h] \in 0 .. Interval + MaxDelay /\ left[k] \in 0 .. Ttl
    BY <1>1 DEF TypeOK
<1>3. owner[k] = OwnerOf[h] /\ left[k] + beat[h] >= Ttl
    BY DEF RowAge
<1> QED
    BY <1>1, <1>2, <1>3, LeaseAssumption, HeartbeatInTime

\* The holders of a key are finitely many, and two of them need two holds.
LEMMA HoldersCount ==
    ASSUME NEW o, NEW k
    PROVE  /\ IsFiniteSet(Holders(o, k))
           /\ Cardinality(Holders(o, k)) \in Nat
           /\ \A g, h \in Holders(o, k) : g # h => Cardinality(Holders(o, k)) > 1
<1> DEFINE S == Holders(o, k)
<1>1. S \in SUBSET Leases
    BY DEF Holders, Members
<1>2. IsFiniteSet(S) /\ Cardinality(S) \in Nat
    BY <1>1, LeaseAssumption, FS_Subset, FS_CardinalityType
<1>3. ASSUME NEW g \in S, NEW h \in S, g # h PROVE Cardinality(S) > 1
  <2>1. Cardinality(S \ {g}) = Cardinality(S) - 1 /\ IsFiniteSet(S \ {g})
    BY <1>2, FS_RemoveElement
  <2>2. Cardinality(S \ {g}) # 0
    BY <2>1, <1>3, FS_EmptySet
  <2>3. Cardinality(S \ {g}) \in Nat
    BY <2>1, FS_CardinalityType
  <2> QED
    BY <2>1, <2>2, <2>3, <1>2
<1> QED
    BY <1>2, <1>3

LEMMA NextBeatOfMembers ==
    ASSUME TypeOK, BeatOfMembers, [Next]_vars
    PROVE  BeatOfMembers'
<1>1. CASE Tick
    BY <1>1 DEF Tick, BeatOfMembers, Members, TypeOK
<1>2. CASE Restart
    BY <1>2 DEF Restart, BeatOfMembers, Members
<1>3. ASSUME NEW h \in Leases, LeaseStep(h) PROVE BeatOfMembers'
  <2>1. CASE Request(h)
    BY <2>1 DEF Request, BeatOfMembers, Members, TypeOK
  <2>2. CASE Acquire(h)
    BY <2>2 DEF Acquire, BeatOfMembers, Members, TypeOK
  <2>3. CASE Enter(h)
    BY <2>3 DEF Enter, BeatOfMembers, Members, TypeOK
  <2>4. CASE AcquireTimeout(h) \/ CancelWaiting(h) \/ AbandonAcquired(h)
    BY <2>4 DEF AcquireTimeout, CancelWaiting, AbandonAcquired, Leave,
                BeatOfMembers, Members, TypeOK
  <2>5. CASE Renew(h)
    <3>1. phase' = phase /\ h \in Members
      BY <2>5 DEF Renew, Members
    <3>2. beat' = [beat EXCEPT ![h] = 0] \/ beat' = beat
      BY <2>5 DEF Renew
    <3> QED
      BY <3>1, <3>2 DEF BeatOfMembers, Members, TypeOK
  <2>6. CASE HeartbeatFails(h)
    BY <2>6 DEF HeartbeatFails, BeatOfMembers, Members
  <2>7. CASE Release(h) \/ ExitWithoutRelease(h)
    BY <2>7 DEF Release, ExitWithoutRelease, Leave, BeatOfMembers, Members, TypeOK
  <2> QED
    BY <1>3, <2>1, <2>2, <2>3, <2>4, <2>5, <2>6, <2>7 DEF LeaseStep
<1>4. CASE UNCHANGED vars
    BY <1>4 DEF vars, BeatOfMembers, Members
<1> QED
    BY <1>1, <1>2, <1>3, <1>4 DEF Next

\* A step that neither adds members nor touches their rows and clocks keeps
\* the age of the rows.
LEMMA RowAgeKept ==
    ASSUME RowAge, UNCHANGED <<owner, left>>,
           Members' \subseteq Members,
           \A h \in Members' : beat'[h] = beat[h]
    PROVE  RowAge'
BY DEF RowAge, Sound

\* A sound member's rows stay its owner's, and their age bounds their time.
LEMMA NextRowAge ==
    ASSUME IInv, [Next]_vars
    PROVE  RowAge'
<1> USE LeaseAssumption
<1>0. TypeOK /\ RowAge /\ BeatOfMembers /\ HoldCountCovers /\ TypeOK'
    BY NextTypeOK DEF IInv
<1>1. CASE Tick
  <2> SUFFICES ASSUME NEW h \in Members', Sound(OwnerOf[h]), NEW k \in Wants[h]
               PROVE  owner'[k] = OwnerOf[h] /\ left'[k] + beat'[h] >= Ttl
    BY DEF RowAge, Sound
  <2>1. h \in Members /\ h \in Leases /\ h \notin Faulty
    BY <1>1 DEF Tick, Members, Sound
  <2>2. owner[k] = OwnerOf[h] /\ left[k] > 0 /\ k \in Keys
    BY <2>1, <1>0, SoundRowsLive
  <2>3. left[k] + beat[h] >= Ttl
    BY <2>1, <1>0 DEF RowAge
  <2>4. ~(beat[h] >= Interval + MaxDelay)
    BY <1>1, <2>1 DEF Tick, Due
  <2>5. left'[k] = left[k] - 1
    BY <1>1, <2>2, <1>0 DEF Tick, Counted, TypeOK
  <2>6. beat[h] \in Nat /\ left[k] \in Nat
    BY <2>1, <2>2, <1>0 DEF TypeOK
  <2>7. beat[h] < Interval + MaxDelay
    BY <2>4, <2>6
  <2>8. beat'[h] = beat[h] + 1
    BY <1>1, <2>1, <2>7 DEF Tick
  <2>9. owner'[k] = owner[k]
    BY <1>1 DEF Tick
  <2> QED
    BY <2>2, <2>3, <2>5, <2>6, <2>8, <2>9
<1>2. CASE Restart
    BY <1>2 DEF Restart, RowAge, Members
<1>3. ASSUME NEW h \in Leases, LeaseStep(h) PROVE RowAge'
  <2>1. CASE Request(h)
    BY <2>1, <1>0, RowAgeKept DEF Request, Members, TypeOK
  <2>2. CASE Acquire(h)
    <3> SUFFICES ASSUME NEW g \in Members', Sound(OwnerOf[g]), NEW k \in Wants[g]
                 PROVE  owner'[k] = OwnerOf[g] /\ left'[k] + beat'[g] >= Ttl
      BY DEF RowAge, Sound
    <3>1. g \in Leases /\ k \in Keys /\ beat' = beat
      BY <2>2 DEF Members, Acquire
    <3>2. CASE g = h
      <4>1. owner'[k] = OwnerOf[h] /\ left'[k] = Ttl
        BY <2>2, <3>1, <3>2 DEF Acquire
      <4>2. beat[h] \in Nat
        BY <1>0 DEF TypeOK
      <4> QED
        BY <3>1, <3>2, <4>1, <4>2
    <3>3. CASE g # h
      <4>1. g \in Members
        BY <2>2, <3>1, <3>3, <1>0 DEF Acquire, Members, TypeOK
      <4>2. owner[k] = OwnerOf[g] /\ left[k] > 0
        BY <4>1, <1>0, SoundRowsLive
      <4>3. left[k] + beat[g] >= Ttl
        BY <4>1, <1>0 DEF RowAge
      <4>4. Live(k)
        BY <4>2, <3>1 DEF Live
      <4>5. owner'[k] = OwnerOf[g]
        BY <2>2, <4>2, <4>4, <3>1 DEF Acquire, Blocked
      <4>6. left'[k] = Ttl \/ left'[k] = left[k]
        BY <2>2, <3>1 DEF Acquire
      <4>7. beat[g] \in Nat
        BY <3>1, <1>0 DEF TypeOK
      <4> QED
        BY <3>1, <4>3, <4>5, <4>6, <4>7
    <3> QED
      BY <3>2, <3>3
  <2>3. CASE Enter(h)
    BY <2>3, <1>0, RowAgeKept DEF Enter, Members, TypeOK
  <2>4. CASE AcquireTimeout(h) \/ CancelWaiting(h) \/ AbandonAcquired(h)
             \/ ExitWithoutRelease(h)
    BY <2>4, <1>0, RowAgeKept DEF AcquireTimeout, CancelWaiting, AbandonAcquired,
                ExitWithoutRelease, Leave, Members, TypeOK
  <2>5. CASE Renew(h)
    <3>1. Members' = Members /\ owner' = owner
      BY <2>5 DEF Renew, Members
    <3>2. CASE Renewable(h)
      <4> SUFFICES ASSUME NEW g \in Members, Sound(OwnerOf[g]), NEW k \in Wants[g]
                   PROVE  owner[k] = OwnerOf[g] /\ left'[k] + beat'[g] >= Ttl
        BY <3>1 DEF RowAge, Sound
      <4>1. g \in Leases /\ k \in Keys
        BY DEF Members
      <4>2. owner[k] = OwnerOf[g] /\ left[k] + beat[g] >= Ttl
        BY <1>0 DEF RowAge
      <4>3. left' = [x \in Keys |-> IF x \in Wants[h] THEN Ttl ELSE left[x]]
            /\ beat' = [beat EXCEPT ![h] = 0]
        BY <2>5, <3>2 DEF Renew
      <4>4. beat[g] \in Nat /\ left[k] \in Nat
        BY <4>1, <1>0 DEF TypeOK
      <4>5. CASE g = h
        BY <4>1, <4>2, <4>3, <4>4, <4>5, <1>0 DEF TypeOK
      <4>6. CASE g # h
        BY <4>1, <4>2, <4>3, <4>4, <4>6, <1>0 DEF TypeOK
      <4> QED
        BY <4>5, <4>6
    <3>3. CASE ~Renewable(h)
      BY <2>5, <3>1, <3>3, <1>0, RowAgeKept DEF Renew
    <3> QED
      BY <3>2, <3>3
  <2>6. CASE HeartbeatFails(h)
    BY <2>6, <1>0, RowAgeKept DEF HeartbeatFails, Members
  <2>7. CASE Release(h)
    <3> SUFFICES ASSUME NEW g \in Members', Sound(OwnerOf[g]), NEW k \in Wants[g]
                 PROVE  owner'[k] = OwnerOf[g] /\ left'[k] + beat'[g] >= Ttl
      BY DEF RowAge, Sound
    <3>1. g \in Members /\ g # h /\ g \in Leases /\ k \in Keys /\ beat'[g] = beat[g]
      BY <2>7, <1>0 DEF Release, Leave, Members, TypeOK
    <3>2. owner[k] = OwnerOf[g] /\ left[k] + beat[g] >= Ttl
      BY <3>1, <1>0 DEF RowAge
    <3>3. ~(k \in Wants[h] /\ owner[k] = OwnerOf[h] /\ Drops(h, k))
      <4> SUFFICES ASSUME k \in Wants[h], owner[k] = OwnerOf[h], count[k] <= 1
                   PROVE  FALSE
        BY DEF Drops, DropsLast
      <4>1. h \in Holders(OwnerOf[g], k) /\ g \in Holders(OwnerOf[g], k)
        BY <2>7, <3>1, <3>2 DEF Holders, Members, Release
      <4>2. Cardinality(Holders(OwnerOf[g], k)) > 1
        BY <4>1, <3>1, HoldersCount
      <4>3. OwnerOf[g] \in Owners
        BY <3>1
      <4>4. count[k] >= Cardinality(Holders(OwnerOf[g], k))
        BY <3>1, <3>2, <4>3, <1>0 DEF HoldCountCovers
      <4>5. count[k] \in Nat /\ Cardinality(Holders(OwnerOf[g], k)) \in Nat
        BY <3>1, <1>0, HoldersCount DEF TypeOK
      <4> QED
        BY <4>2, <4>4, <4>5
    <3>4. owner'[k] = owner[k] /\ left'[k] = left[k]
      BY <2>7, <3>1, <3>3 DEF Release
    <3> QED
      BY <3>1, <3>2, <3>4
  <2> QED
    BY <1>3, <2>1, <2>2, <2>3, <2>4, <2>5, <2>6, <2>7 DEF LeaseStep
<1>4. CASE UNCHANGED vars
    BY <1>4, <1>0, RowAgeKept DEF vars, Members
<1> QED
    BY <1>1, <1>2, <1>3, <1>4 DEF Next

\* Fewer holders, the same row: the count still covers them.
LEMMA HoldCountKept ==
    ASSUME HoldCountCovers, UNCHANGED <<owner, count>>, TypeOK,
           Members' \subseteq Members
    PROVE  HoldCountCovers'
<1> SUFFICES ASSUME NEW o \in Owners, NEW k \in Keys, Sound(o), owner[k] = o
             PROVE  count[k] >= Cardinality(Holders(o, k)')
    BY DEF HoldCountCovers, Sound
<1>1. Holders(o, k)' \in SUBSET Holders(o, k)
    BY DEF Holders
<1>2. IsFiniteSet(Holders(o, k)) /\ Cardinality(Holders(o, k)) \in Nat
    BY HoldersCount
<1>3. Cardinality(Holders(o, k)') <= Cardinality(Holders(o, k))
      /\ Cardinality(Holders(o, k)') \in Nat
    BY <1>1, <1>2, FS_Subset, FS_CardinalityType
<1>4. count[k] >= Cardinality(Holders(o, k)) /\ count[k] \in Nat
    BY DEF HoldCountCovers, TypeOK
<1> QED
    BY <1>2, <1>3, <1>4

\* Taking adds one hold for one holder, giving back removes one for one.
LEMMA NextHoldCountCovers ==
    ASSUME IInv, [Next]_vars
    PROVE  HoldCountCovers'
<1> USE LeaseAssumption
<1>0. TypeOK /\ RowAge /\ HoldCountCovers /\ TypeOK'
    BY NextTypeOK DEF IInv
<1>1. CASE Tick
    BY <1>1, <1>0, HoldCountKept DEF Tick, Members
<1>2. CASE Restart
    BY <1>2 DEF Restart, HoldCountCovers
<1>3. ASSUME NEW h \in Leases, LeaseStep(h) PROVE HoldCountCovers'
  <2>1. CASE Request(h)
    BY <2>1, <1>0, HoldCountKept DEF Request, Members, TypeOK
  <2>2. CASE Acquire(h)
    <3> SUFFICES ASSUME NEW o \in Owners, NEW k \in Keys, Sound(o), owner'[k] = o
                 PROVE  count'[k] >= Cardinality(Holders(o, k)')
      BY DEF HoldCountCovers, Sound
    <3>1. Members' = Members \union {h} /\ h \notin Members
      BY <2>2, <1>0 DEF Acquire, Members, TypeOK
    <3>2. IsFiniteSet(Holders(o, k)) /\ Cardinality(Holders(o, k)) \in Nat
      BY HoldersCount
    <3>3. count[k] \in Nat
      BY <1>0 DEF TypeOK
    <3>4. ASSUME ~Live(k) PROVE Holders(o, k) = {}
      BY <3>4, <1>0, SoundRowsLive DEF Holders, Live
    <3>5. CASE k \in Wants[h]
      <4>1. OwnerOf[h] = o
        BY <2>2, <3>5 DEF Acquire
      <4>2. Holders(o, k)' = Holders(o, k) \union {h} /\ h \notin Holders(o, k)
        BY <3>1, <3>5, <4>1 DEF Holders
      <4>3. Cardinality(Holders(o, k)') = Cardinality(Holders(o, k)) + 1
        BY <3>2, <4>2, FS_AddElement
      <4>4. CASE Live(k)
        <5>1. count'[k] = count[k] + 1
          BY <2>2, <3>5, <4>4 DEF Acquire, CountTaken
        <5>2. owner[k] = o
          BY <2>2, <3>5, <4>1, <4>4 DEF Acquire, Blocked
        <5>3. count[k] >= Cardinality(Holders(o, k))
          BY <5>2, <1>0 DEF HoldCountCovers
        <5> QED
          BY <3>2, <3>3, <4>3, <5>1, <5>3
      <4>5. CASE ~Live(k)
        <5>1. count'[k] = 1
          BY <2>2, <3>5, <4>5 DEF Acquire, CountTaken
        <5>2. Cardinality(Holders(o, k)) = 0
          BY <3>4, <4>5, FS_EmptySet
        <5> QED
          BY <4>3, <5>1, <5>2
      <4> QED
        BY <4>4, <4>5
    <3>6. CASE k \notin Wants[h]
      <4>1. Holders(o, k)' = Holders(o, k)
        BY <3>1, <3>6 DEF Holders
      <4>2. owner[k] = o /\ count'[k] = count[k]
        BY <2>2, <3>6 DEF Acquire
      <4> QED
        BY <4>1, <4>2, <1>0 DEF HoldCountCovers
    <3> QED
      BY <3>5, <3>6
  <2>3. CASE Enter(h)
    BY <2>3, <1>0, HoldCountKept DEF Enter, Members, TypeOK
  <2>4. CASE AcquireTimeout(h) \/ CancelWaiting(h) \/ AbandonAcquired(h)
             \/ ExitWithoutRelease(h)
    BY <2>4, <1>0, HoldCountKept DEF AcquireTimeout, CancelWaiting, AbandonAcquired,
                ExitWithoutRelease, Leave, Members, TypeOK
  <2>5. CASE Renew(h)
    BY <2>5, <1>0, HoldCountKept DEF Renew, Members
  <2>6. CASE HeartbeatFails(h)
    BY <2>6, <1>0, HoldCountKept DEF HeartbeatFails, Members
  <2>7. CASE Release(h)
    <3> SUFFICES ASSUME NEW o \in Owners, NEW k \in Keys, Sound(o), owner'[k] = o
                 PROVE  count'[k] >= Cardinality(Holders(o, k)')
      BY DEF HoldCountCovers, Sound
    <3>1. Members' = Members \ {h} /\ h \in Members
      BY <2>7, <1>0 DEF Release, Leave, Members, TypeOK
    <3>2. IsFiniteSet(Holders(o, k)) /\ Cardinality(Holders(o, k)) \in Nat
      BY HoldersCount
    <3>3. count[k] \in Nat
      BY <1>0 DEF TypeOK
    <3>4. owner[k] = o
      BY <2>7 DEF Release
    <3>5. count[k] >= Cardinality(Holders(o, k))
      BY <3>4, <1>0 DEF HoldCountCovers
    <3>6. CASE k \in Wants[h] /\ OwnerOf[h] = o
      <4>1. Holders(o, k)' = Holders(o, k) \ {h} /\ h \in Holders(o, k)
        BY <3>1, <3>6 DEF Holders
      <4>2. Cardinality(Holders(o, k) \ {h}) = Cardinality(Holders(o, k)) - 1
        BY <3>2, <4>1, FS_RemoveElement
      <4>3. count'[k] = count[k] - 1
        BY <2>7, <3>4, <3>6 DEF Release
      <4> QED
        BY <3>2, <3>3, <3>5, <4>1, <4>2, <4>3
    <3>7. CASE ~(k \in Wants[h] /\ OwnerOf[h] = o)
      <4>1. Holders(o, k)' = Holders(o, k)
        BY <3>1, <3>7 DEF Holders
      <4>2. count'[k] = count[k]
        BY <2>7, <3>4, <3>7 DEF Release
      <4> QED
        BY <3>5, <4>1, <4>2
    <3> QED
      BY <3>6, <3>7
  <2> QED
    BY <1>3, <2>1, <2>2, <2>3, <2>4, <2>5, <2>6, <2>7 DEF LeaseStep
<1>4. CASE UNCHANGED vars
    BY <1>4, <1>0, HoldCountKept DEF vars, Members
<1> QED
    BY <1>1, <1>2, <1>3, <1>4 DEF Next

\* A heartbeat that finds a row gone is not that of a sound owner.
LEMMA NextLostOnlyWhenFaulty ==
    ASSUME IInv, [Next]_vars
    PROVE  LostOnlyWhenFaulty'
<1> USE LeaseAssumption
<1>0. TypeOK /\ RowAge /\ LostOnlyWhenFaulty
    BY DEF IInv
<1>1. CASE Tick \/ Restart \/ UNCHANGED vars
    BY <1>1, <1>0 DEF Tick, Restart, vars, LostOnlyWhenFaulty, Sound
<1>2. ASSUME NEW h \in Leases, LeaseStep(h) PROVE LostOnlyWhenFaulty'
  <2>1. CASE Renew(h)
    <3>1. CASE Renewable(h)
      BY <2>1, <3>1, <1>0 DEF Renew, LostOnlyWhenFaulty, Sound
    <3>2. CASE ~Renewable(h)
      <4>1. h \in Members
        BY <2>1 DEF Renew, Members
      <4>2. ~Sound(OwnerOf[h])
        BY <3>2, <4>1, <1>0, SoundRowsLive DEF Renewable
      <4>3. lost' = [lost EXCEPT ![h] = TRUE]
        BY <2>1, <3>2 DEF Renew
      <4>4. \A g \in Leases : lost'[g] => lost[g] \/ g = h
        BY <4>3, <1>0 DEF TypeOK
      <4> QED
        BY <4>2, <4>4, <1>0 DEF LostOnlyWhenFaulty, Sound
    <3> QED
      BY <3>1, <3>2
  <2>2. CASE ~Renew(h)
    <3>1. lost' = lost \/ lost' = [lost EXCEPT ![h] = FALSE]
      BY <1>2, <2>2 DEF LeaseStep, Request, Acquire, Enter, AcquireTimeout,
            CancelWaiting, AbandonAcquired, HeartbeatFails, Release,
            ExitWithoutRelease, Leave
    <3>2. \A g \in Leases : lost'[g] => lost[g]
      BY <3>1, <1>0 DEF TypeOK
    <3> QED
      BY <3>2, <1>0 DEF LostOnlyWhenFaulty, Sound
  <2> QED
    BY <2>1, <2>2
<1> QED
    BY <1>1, <1>2 DEF Next

LEMMA InitIInv == Init => IInv
<1> SUFFICES ASSUME Init PROVE IInv
    OBVIOUS
<1>1. Members = {}
    BY DEF Init, Members
<1>2. RowAge /\ BeatOfMembers /\ LostOnlyWhenFaulty
    BY <1>1 DEF Init, RowAge, BeatOfMembers, LostOnlyWhenFaulty
<1>3. HoldCountCovers
    BY LeaseAssumption DEF Init, HoldCountCovers
<1> QED
    BY <1>2, <1>3, InitTypeOK DEF IInv

\* The invariant every theorem below follows from.
THEOREM Inductive == Spec => []IInv
<1>1. IInv /\ [Next]_vars => IInv'
    BY NextTypeOK, NextRowAge, NextBeatOfMembers, NextHoldCountCovers,
       NextLostOnlyWhenFaulty DEF IInv
<1> QED
    BY <1>1, InitIInv, PTL DEF Spec

\* Type correctness.
THEOREM TypeCorrect == Spec => []TypeOK
BY Inductive, PTL DEF IInv

\* Isolation of owners whose heartbeats are in time: their leases work under
\* their own unexpired rows, whatever other owners' leases do.
THEOREM Isolation == Spec => []SoundHoldersKeepRows
<1>1. IInv => SoundHoldersKeepRows
    BY SoundRowsLive DEF IInv, SoundHoldersKeepRows
<1> QED
    BY <1>1, Inductive, PTL

\* Two leases of different owners, both with heartbeats in time, never work
\* on one key at the same time.
MutualExclusion ==
    \A g, h \in Members :
        Sound(OwnerOf[g]) /\ Sound(OwnerOf[h]) /\ Wants[g] \intersect Wants[h] # {}
            => OwnerOf[g] = OwnerOf[h]

THEOREM Exclusion == Spec => []MutualExclusion
<1>1. SoundHoldersKeepRows => MutualExclusion
    BY DEF SoundHoldersKeepRows, MutualExclusion
<1> QED
    BY <1>1, Isolation, PTL

\* The hold count covers the leases that work under the row.
THEOREM Reentrance == Spec => []HoldCountCovers
BY Inductive, PTL DEF IInv

\* In every state the leases are of their types, isolated and re-entrant.
THEOREM LeasesKept == Spec => []LeaseInv
BY TypeCorrect, Isolation, Reentrance, PTL DEF LeaseInv

\* `lost` is never a false alarm.
THEOREM NoFalseAlarm == Spec => []LostOnlyWhenFaulty
BY Inductive, PTL DEF IInv

-----------------------------------------------------------------------------
(* Preparation, which works under such leases and a file lock.  It is a       *)
(* system of its own: a name of its that ResourceLease has too is P!name.     *)

P == INSTANCE Preparation

Snapshots == [of : {Finger[j] : j \in P!Jobs}, quality : {"good", "bad", "damaged"}]
\* No fingerprint has two snapshots.
OnePerFinger(s) == \A i, k \in 1 .. Len(s) : s[i].of = s[k].of => i = k

\* The directory of the cache is there while it is used or holds a snapshot.
SnapsInv == /\ snaps \in Seq(Snapshots) /\ Len(snaps) <= MaxSnapshots /\ OnePerFinger(snaps)
            /\ snaps # <<>> => cache
\* The types of everything but the snapshots.
PrepTypes ==
    /\ cast \in Casts
    /\ pc \in [P!Jobs -> {"idle", "asked", "leased", "restore", "drop", "build", "save",
                          "check", "discard", "work", "steps", "leave", "unlock", "tidy", "end"}]
    /\ env \in [P!Jobs -> {"empty", "good", "bad"}]
    /\ src \in [P!Jobs -> {"none", "restored", "built"}]
    /\ again \in [P!Jobs -> BOOLEAN] /\ cancel \in [P!Jobs -> BOOLEAN]
    /\ row \in [P!Jobs -> {"none", "active", "ended"}]
    /\ op \in [Warmups -> {"none", "waiting", "preparing", "ready", "over"}]
    /\ current \in Warmups \cup {NoTask} /\ git \in P!Jobs \cup {NoTask} /\ users \subseteq P!Jobs
    /\ cache \in BOOLEAN /\ aged \in BOOLEAN /\ owned \in BOOLEAN /\ halt \in BOOLEAN
    /\ cl \in {"idle", "measured", "removing"}
    /\ mishaps \in 0 .. MaxMishaps

\* The cleaner owns the file lock from its first check to its end, alone.
LockInv == /\ owned <=> cl # "idle"
           /\ owned => users = {}

\* The inductive invariant of Preparation.
PrepInv == PrepTypes /\ SnapsInv /\ P!WorksVerified /\ P!CacheInUse /\ LockInv

\* A sequence without its n-th element.
CutOut(s, n) == SubSeq(s, 1, n - 1) \o SubSeq(s, n + 1, Len(s))
\* Cutting out one element of a sequence leaves the others in their order.
LEMMA CutOutOne ==
    ASSUME NEW S, NEW s \in Seq(S), NEW n \in 1 .. Len(s)
    PROVE  /\ CutOut(s, n) \in Seq(S) /\ Len(CutOut(s, n)) = Len(s) - 1
           /\ \A i \in 1 .. Len(s) - 1 : CutOut(s, n)[i] = IF i < n THEN s[i] ELSE s[i + 1]
<1> DEFINE u == SubSeq(s, 1, n - 1)
           v == SubSeq(s, n + 1, Len(s))
           w == CutOut(s, n)
<1>1. Len(s) \in Nat /\ \A i \in 1 .. Len(s) : s[i] \in S
    BY ElementOfSeq, LenProperties
<1>2. u \in Seq(S) /\ Len(u) = n - 1 /\ \A i \in 1 .. n - 1 : u[i] = s[i]
    BY <1>1, SubSeqProperties
<1>3. v \in Seq(S) /\ Len(v) = Len(s) - n /\ \A i \in 1 .. Len(s) - n : v[i] = s[i + n]
    BY <1>1, SubSeqProperties
<1>4. w = u \o v
    BY DEF CutOut
<1> HIDE DEF u, v, w
<1>5. /\ w \in Seq(S) /\ Len(w) = Len(s) - 1
      /\ \A i \in 1 .. Len(s) - 1 : w[i] = IF i <= n - 1 THEN u[i] ELSE v[i - (n - 1)]
  <2> DEFINE c == u \o v
  <2>1. /\ c \in Seq(S) /\ Len(c) = Len(u) + Len(v)
        /\ \A i \in 1 .. Len(u) + Len(v) : c[i] = IF i <= Len(u) THEN u[i] ELSE v[i - Len(u)]
    BY <1>2, <1>3, ConcatProperties, Zenon
  <2>2. w = c
    BY <1>4
  <2> HIDE DEF c
  <2>3. Len(u) + Len(v) = Len(s) - 1
    BY <1>1, <1>2, <1>3
  <2> QED
    BY <1>1, <1>2, <1>3, <2>1, <2>2, <2>3
<1>6. ASSUME NEW i \in 1 .. Len(s) - 1 PROVE w[i] = IF i < n THEN s[i] ELSE s[i + 1]
    <2>1. CASE i <= n - 1
        BY <2>1, <1>1, <1>2, <1>5
    <2>2. CASE ~(i <= n - 1)
        <3>1. i - (n - 1) \in 1 .. Len(s) - n /\ i - (n - 1) + n = i + 1
            BY <2>2, <1>1
        <3> QED
            BY <2>2, <3>1, <1>1, <1>3, <1>5
    <2> QED
        BY <2>1, <2>2
<1> QED
    BY <1>5, <1>6 DEF w

\* What removing a fingerprint from the snapshots leaves: it, and only it, is gone.
LEMMA WithoutOne ==
    ASSUME snaps \in Seq(Snapshots), OnePerFinger(snaps), NEW p
    PROVE  /\ P!Without(p) \in Seq(Snapshots) /\ OnePerFinger(P!Without(p))
           /\ Len(P!Without(p)) <= Len(snaps)
           /\ P!Has(p) => Len(P!Without(p)) = Len(snaps) - 1
           /\ \A i \in 1 .. Len(P!Without(p)) : P!Without(p)[i].of # p
           /\ P!Without(p) # <<>> => snaps # <<>>
<1>1. CASE ~P!Has(p)
    BY <1>1 DEF P!Without, P!Has
<1>2. CASE P!Has(p)
    <2> DEFINE n == P!Place(p)
               w == P!Without(p)
    <2>1. n \in 1 .. Len(snaps) /\ snaps[n].of = p
        BY <1>2 DEF P!Has, P!Place
    <2>2. w = CutOut(snaps, n)
        BY <1>2 DEF P!Without, CutOut
    <2> HIDE DEF n, w
    <2>3. /\ w \in Seq(Snapshots) /\ Len(w) = Len(snaps) - 1
          /\ \A i \in 1 .. Len(w) : w[i] = IF i < n THEN snaps[i] ELSE snaps[i + 1]
        BY <2>1, <2>2, CutOutOne
    <2>4. Len(snaps) \in Nat /\ snaps # <<>>
        BY <2>1
    <2>5. OnePerFinger(w)
        BY <2>1, <2>3, <2>4 DEF OnePerFinger
    <2>6. \A i \in 1 .. Len(w) : w[i].of # p
        BY <2>1, <2>3, <2>4 DEF OnePerFinger
    <2> QED
        BY <2>3, <2>4, <2>5, <2>6 DEF w
<1> QED
    BY <1>1, <1>2

\* Every step is one of a task that is started, or of the surroundings.
LEMMA NextCases ==
    ASSUME P!Next
    PROVE  \/ \E j \in cast :
                \/ P!StartAgent(j) \/ P!StartWarmup(j) \/ P!StartManual(j) \/ P!FailEarly(j)
                \/ P!TakeGit(j) \/ P!Enter(j) \/ P!GiveUp(j) \/ P!Cancel(j)
                \/ P!Restore(j) \/ P!Miss(j) \/ P!RestoreFails(j) \/ P!DropDamaged(j)
                \/ P!Build(j) \/ P!BuildFails(j) \/ P!Save(j) \/ P!SaveNothing(j)
                \/ P!Check(j) \/ P!CheckFails(j) \/ P!Discard(j) \/ P!Stop(j)
                \/ P!Work(j) \/ P!Steps(j) \/ P!Leave(j) \/ P!Unlock(j)
                \/ P!Tidy(j)
           \/ P!Close \/ P!Age \/ P!Own \/ P!CheckAgain \/ P!Remove \/ P!Halt \/ P!Damage \/ P!Crash
BY DEF P!Next, P!Starts, P!Waits, P!Prepares, P!Ends, P!Cleans

\* The snapshot of a fingerprint that has one.
LEMMA HasSnap ==
    ASSUME snaps \in Seq(Snapshots), NEW p, P!Has(p)
    PROVE  P!Snap(p) \in Snapshots /\ P!Snap(p).of = p /\ Len(snaps) >= 1
<1>1. P!Place(p) \in 1 .. Len(snaps) /\ snaps[P!Place(p)].of = p
    BY DEF P!Has, P!Place
<1> QED
    BY <1>1, ElementOfSeq DEF P!Snap

\* A new snapshot in front of those of other fingerprints.
LEMMA PutFirst ==
    ASSUME NEW x \in Snapshots, NEW w \in Seq(Snapshots), OnePerFinger(w),
           \A i \in 1 .. Len(w) : w[i].of # x.of
    PROVE  /\ <<x>> \o w \in Seq(Snapshots) /\ Len(<<x>> \o w) = Len(w) + 1
           /\ OnePerFinger(<<x>> \o w)
<1> DEFINE v == <<x>> \o w
<1>1. <<x>> \in Seq(Snapshots) /\ Len(<<x>>) = 1 /\ <<x>>[1] = x
    OBVIOUS
<1>2. /\ v \in Seq(Snapshots) /\ Len(v) = Len(<<x>>) + Len(w)
      /\ \A i \in 1 .. Len(<<x>>) + Len(w) :
            v[i] = IF i <= Len(<<x>>) THEN <<x>>[i] ELSE w[i - Len(<<x>>)]
    BY <1>1, ConcatProperties, Zenon
<1> HIDE DEF v
<1>3. Len(w) \in Nat
    BY LenProperties
<1>4. Len(v) = Len(w) + 1 /\ v[1] = x
    BY <1>1, <1>2, <1>3
<1>5. \A i \in 2 .. Len(v) : v[i] = w[i - 1] /\ i - 1 \in 1 .. Len(w)
    BY <1>1, <1>2, <1>3, <1>4
<1>6. OnePerFinger(v)
  <2> SUFFICES ASSUME NEW i \in 1 .. Len(v), NEW k \in 1 .. Len(v), v[i].of = v[k].of
               PROVE  i = k
    BY DEF OnePerFinger
  <2>1. CASE i = 1 \/ k = 1
    BY <2>1, <1>3, <1>4, <1>5
  <2>2. CASE i # 1 /\ k # 1
    BY <2>2, <1>3, <1>4, <1>5 DEF OnePerFinger
  <2> QED
    BY <2>1, <2>2
<1> QED
    BY <1>2, <1>4, <1>6 DEF v

\* What is kept of the snapshots: no more than MaxSnapshots.
LEMMA KeptFew ==
    ASSUME MaxSnapshots \in Nat, NEW s \in Seq(Snapshots), OnePerFinger(s)
    PROVE  /\ P!Kept(s) \in Seq(Snapshots) /\ Len(P!Kept(s)) <= MaxSnapshots
           /\ OnePerFinger(P!Kept(s))
<1>1. CASE Len(s) > MaxSnapshots
  <2> DEFINE w == SubSeq(s, 1, MaxSnapshots)
  <2>1. \A i \in 1 .. MaxSnapshots : s[i] \in Snapshots
    BY <1>1, ElementOfSeq, LenProperties
  <2>2. /\ w \in Seq(Snapshots) /\ Len(w) = MaxSnapshots
        /\ \A i \in 1 .. MaxSnapshots : w[i] = s[i]
    BY <2>1, SubSeqProperties
  <2>3. P!Kept(s) = w
    BY <1>1 DEF P!Kept
  <2> HIDE DEF w
  <2> QED
    BY <1>1, <2>2, <2>3, LenProperties DEF OnePerFinger
<1>2. CASE ~(Len(s) > MaxSnapshots)
    BY <1>2, LenProperties DEF P!Kept
<1> QED
    BY <1>1, <1>2

\* Every step keeps the types; a step that removes no snapshot it should is a fault.
LEMMA NextPrepTypes ==
    ASSUME P!Sorts, PrepInv, [P!Next]_P!vars
    PROVE  PrepTypes'
<1>1. cast \subseteq P!Jobs
    BY DEF P!Sorts, PrepInv, PrepTypes
<1>2. P!Jobs = Agents \cup Warmups \cup Manuals
    BY DEF P!Jobs
<1>3. MaxMishaps \in Nat /\ MaxSnapshots \in Nat \ {0}
    BY DEF P!Sorts
<1>4. ASSUME NEW j \in cast, P!StartAgent(j) PROVE PrepTypes'
    BY <1>4 DEF P!StartAgent, P!store, P!clean, P!Go, PrepInv, PrepTypes
<1>5. ASSUME NEW j \in cast, P!StartWarmup(j) PROVE PrepTypes'
    BY <1>5 DEF P!StartWarmup, P!store, P!clean, P!Go, PrepInv, PrepTypes
<1>6. ASSUME NEW j \in cast, P!StartManual(j) PROVE PrepTypes'
    BY <1>6 DEF P!StartManual, P!store, P!clean, P!Go, PrepInv, PrepTypes
<1>7. ASSUME NEW j \in cast, P!FailEarly(j) PROVE PrepTypes'
    BY <1>7, <1>2, <1>3 DEF P!FailEarly, P!books, P!store, P!clean, P!Go, P!Fault, PrepInv,
        PrepTypes
<1>8. ASSUME NEW j \in cast, P!TakeGit(j) PROVE PrepTypes'
    BY <1>8, <1>2 DEF P!TakeGit, P!books, P!store, P!clean, P!Go, PrepInv, PrepTypes
<1>9. ASSUME NEW j \in cast, P!Enter(j) PROVE PrepTypes'
  <2>1. pc' \in [P!Jobs -> {"idle", "asked", "leased", "restore", "drop", "build", "save",
                          "check", "discard", "work", "steps", "leave", "unlock", "tidy", "end"}]
    BY <1>9 DEF P!Enter, P!Go, PrepInv, PrepTypes
  <2>2. op' \in [Warmups -> {"none", "waiting", "preparing", "ready", "over"}]
    BY <1>9 DEF P!Enter, PrepInv, PrepTypes
  <2>3. /\ users' \subseteq P!Jobs /\ cache' = TRUE /\ aged' = FALSE
        /\ UNCHANGED <<cast, env, src, again, cancel, row, current, git, P!clean, mishaps>>
    BY <1>9, <1>1 DEF P!Enter, PrepInv, PrepTypes
  <2> QED
    BY <2>1, <2>2, <2>3 DEF P!clean, PrepInv, PrepTypes
<1>10. ASSUME NEW j \in cast, P!GiveUp(j) PROVE PrepTypes'
    BY <1>10 DEF P!GiveUp, P!store, P!clean, P!Go, PrepInv, PrepTypes
<1>11. ASSUME NEW j \in cast, P!Cancel(j) PROVE PrepTypes'
    BY <1>11 DEF P!Cancel, P!books, P!store, P!clean, PrepInv, PrepTypes
<1>12. ASSUME NEW j \in cast, P!Restore(j) PROVE PrepTypes'
  <2>1. P!Has(Finger[j])
    BY <1>12 DEF P!Restore
  <2>2. P!Snap(Finger[j]) \in Snapshots
    BY <2>1, HasSnap DEF SnapsInv, PrepInv
  <2>3. P!Snap(Finger[j]).quality \in {"good", "bad"}
    BY <1>12, <2>2 DEF P!Restore, Snapshots
  <2> QED
    BY <1>12, <2>3 DEF P!Restore, P!books, P!clean, P!Go, PrepInv, PrepTypes
<1>13. ASSUME NEW j \in cast, P!Miss(j) PROVE PrepTypes'
    BY <1>13 DEF P!Miss, P!books, P!store, P!clean, P!Go, PrepInv, PrepTypes
<1>14. ASSUME NEW j \in cast, P!RestoreFails(j) PROVE PrepTypes'
    BY <1>14 DEF P!RestoreFails, P!books, P!store, P!clean, P!Go, PrepInv, PrepTypes
<1>15. ASSUME NEW j \in cast, P!DropDamaged(j) PROVE PrepTypes'
  <2>1. mishaps' \in 0 .. MaxMishaps
    <3>1. CASE P!Has(Finger[j]) /\ snaps' = snaps
        <4>1. P!Without(Finger[j]) # snaps
            BY <3>1, WithoutOne DEF SnapsInv, PrepInv
        <4>2. mishaps < MaxMishaps
            BY <1>15, <3>1, <4>1 DEF P!DropDamaged, P!Dropped
        <4> QED
            BY <1>15, <1>3, <4>2 DEF P!DropDamaged, PrepInv, PrepTypes
    <3>2. CASE ~(P!Has(Finger[j]) /\ snaps' = snaps)
        BY <1>15, <3>2 DEF P!DropDamaged, PrepInv, PrepTypes
    <3> QED
        BY <3>1, <3>2
  <2> QED
    BY <1>15, <2>1 DEF P!DropDamaged, P!books, P!clean, P!Go, PrepInv, PrepTypes
<1>16. ASSUME NEW j \in cast, P!Build(j) PROVE PrepTypes'
    BY <1>16, <1>1 DEF P!Build, P!books, P!store, P!clean, P!Go, PrepInv, PrepTypes
<1>17. ASSUME NEW j \in cast, P!BuildFails(j) PROVE PrepTypes'
    BY <1>17 DEF P!BuildFails, P!books, P!store, P!clean, P!Go, PrepInv, PrepTypes
<1>18. ASSUME NEW j \in cast, P!Save(j) PROVE PrepTypes'
    BY <1>18 DEF P!Save, P!books, P!clean, P!Go, PrepInv, PrepTypes
<1>19. ASSUME NEW j \in cast, P!SaveNothing(j) PROVE PrepTypes'
    BY <1>19 DEF P!SaveNothing, P!books, P!store, P!clean, P!Go, PrepInv, PrepTypes
<1>20. ASSUME NEW j \in cast, P!Check(j) PROVE PrepTypes'
    BY <1>20 DEF P!Check, P!store, P!clean, P!Go, PrepInv, PrepTypes
<1>21. ASSUME NEW j \in cast, P!CheckFails(j) PROVE PrepTypes'
    BY <1>21, <1>1, <1>3 DEF P!CheckFails, P!books, P!store, P!clean, P!Go, P!Fault,
        PrepInv, PrepTypes
<1>22. ASSUME NEW j \in cast, P!Discard(j) PROVE PrepTypes'
  <2>1. mishaps' \in 0 .. MaxMishaps
    <3>1. CASE P!Has(Finger[j]) /\ snaps' = snaps
        <4>1. P!Without(Finger[j]) # snaps
            BY <3>1, WithoutOne DEF SnapsInv, PrepInv
        <4>2. mishaps < MaxMishaps
            BY <1>22, <3>1, <4>1 DEF P!Discard, P!Dropped
        <4> QED
            BY <1>22, <1>3, <4>2 DEF P!Discard, PrepInv, PrepTypes
    <3>2. CASE ~(P!Has(Finger[j]) /\ snaps' = snaps)
        BY <1>22, <3>2 DEF P!Discard, PrepInv, PrepTypes
    <3> QED
        BY <3>1, <3>2
  <2> QED
    BY <1>22, <2>1 DEF P!Discard, P!books, P!clean, P!Go, PrepInv, PrepTypes
<1>23. ASSUME NEW j \in cast, P!Stop(j) PROVE PrepTypes'
    BY <1>23 DEF P!Stop, P!books, P!store, P!clean, P!Go, PrepInv, PrepTypes
<1>24. ASSUME NEW j \in cast, P!Work(j) PROVE PrepTypes'
    BY <1>24 DEF P!Work, P!books, P!store, P!clean, P!Go, PrepInv, PrepTypes
<1>25. ASSUME NEW j \in cast, P!Steps(j) PROVE PrepTypes'
    BY <1>25 DEF P!Steps, P!books, P!store, P!clean, P!Go, PrepInv, PrepTypes
<1>26. ASSUME NEW j \in cast, P!Leave(j) PROVE PrepTypes'
  <2>1. mishaps' \in 0 .. MaxMishaps
    BY <1>26, <1>3 DEF P!Leave, PrepInv, PrepTypes
  <2>2. aged' \in BOOLEAN /\ users' \subseteq P!Jobs
    BY <1>26 DEF P!Leave, PrepInv, PrepTypes
  <2> QED
    BY <1>26, <2>1 DEF P!Leave, P!books, P!clean, P!Go, PrepInv, PrepTypes
<1>27. ASSUME NEW j \in cast, P!Unlock(j) PROVE PrepTypes'
    BY <1>27 DEF P!Unlock, P!store, P!clean, P!Go, PrepInv, PrepTypes
<1>28. ASSUME NEW j \in cast, P!Tidy(j) PROVE PrepTypes'
    BY <1>28 DEF P!Tidy, P!store, P!clean, P!Go, PrepInv, PrepTypes
<1>29. CASE P!Close
    BY <1>29 DEF P!Close, P!books, P!store, P!clean, PrepInv, PrepTypes
<1>30. CASE P!Age
    BY <1>30 DEF P!Age, P!tasks, P!books, P!clean, PrepInv, PrepTypes
<1>31. CASE P!Own
    BY <1>31 DEF P!Own, P!tasks, P!books, P!store, PrepInv, PrepTypes
<1>32. CASE P!CheckAgain
    BY <1>32 DEF P!CheckAgain, P!tasks, P!books, P!store, PrepInv, PrepTypes
<1>33. CASE P!Remove
    BY <1>33 DEF P!Remove, P!tasks, P!books, PrepInv, PrepTypes
<1>34. CASE P!Halt
    BY <1>34 DEF P!Halt, P!tasks, P!books, P!store, PrepInv, PrepTypes
<1>35. CASE P!Damage
    BY <1>35, <1>3 DEF P!Damage, P!tasks, P!books, P!clean, P!Fault, PrepInv, PrepTypes
<1>36. CASE P!Crash
  <2>1. /\ pc' \in [P!Jobs -> {"idle", "asked", "leased", "restore", "drop", "build", "save",
                            "check", "discard", "work", "steps", "leave", "unlock", "tidy", "end"}]
        /\ row' \in [P!Jobs -> {"none", "active", "ended"}]
    BY <1>36 DEF P!Crash, PrepInv, PrepTypes
  <2>2. mishaps' \in 0 .. MaxMishaps
    BY <1>36, <1>3 DEF P!Crash, P!Fault, PrepInv, PrepTypes
  <2> QED
    BY <1>36, <2>2 DEF P!Crash, P!store, PrepInv, PrepTypes
<1>37. CASE UNCHANGED P!vars
    BY <1>37 DEF P!vars, P!tasks, P!books, P!store, P!clean, PrepInv, PrepTypes
<1> QED
    BY <1>4, <1>5, <1>6, <1>7, <1>8, <1>9, <1>10, <1>11, <1>12, <1>13, <1>14, <1>15, <1>16,
        <1>17, <1>18, <1>19, <1>20, <1>21, <1>22, <1>23, <1>24, <1>25, <1>26, <1>27, <1>28,
        <1>29, <1>30, <1>31, <1>32, <1>33, <1>34, <1>35, <1>36, <1>37, NextCases

\* Every step keeps one snapshot for a fingerprint, few of them, and a directory for them.
LEMMA NextSnapsInv ==
    ASSUME P!Sorts, PrepInv, [P!Next]_P!vars
    PROVE  SnapsInv'
<1>1. cast \subseteq P!Jobs
    BY DEF P!Sorts, PrepTypes, PrepInv
<1>3. MaxMishaps \in Nat /\ MaxSnapshots \in Nat \ {0}
    BY DEF P!Sorts
<1>4. ASSUME NEW j \in cast, P!StartAgent(j) PROVE SnapsInv'
    BY <1>4 DEF P!StartAgent, P!store, PrepInv, SnapsInv
<1>5. ASSUME NEW j \in cast, P!StartWarmup(j) PROVE SnapsInv'
    BY <1>5 DEF P!StartWarmup, P!store, PrepInv, SnapsInv
<1>6. ASSUME NEW j \in cast, P!StartManual(j) PROVE SnapsInv'
    BY <1>6 DEF P!StartManual, P!store, PrepInv, SnapsInv
<1>7. ASSUME NEW j \in cast, P!FailEarly(j) PROVE SnapsInv'
    BY <1>7 DEF P!FailEarly, P!store, PrepInv, SnapsInv
<1>8. ASSUME NEW j \in cast, P!TakeGit(j) PROVE SnapsInv'
    BY <1>8 DEF P!TakeGit, P!store, PrepInv, SnapsInv
<1>9. ASSUME NEW j \in cast, P!Enter(j) PROVE SnapsInv'
    BY <1>9 DEF P!Enter, PrepInv, SnapsInv
<1>10. ASSUME NEW j \in cast, P!GiveUp(j) PROVE SnapsInv'
    BY <1>10 DEF P!GiveUp, P!store, PrepInv, SnapsInv
<1>11. ASSUME NEW j \in cast, P!Cancel(j) PROVE SnapsInv'
    BY <1>11 DEF P!Cancel, P!store, PrepInv, SnapsInv
<1>12. ASSUME NEW j \in cast, P!Restore(j) PROVE SnapsInv'
  <2> DEFINE w == P!Without(Finger[j])
             x == P!Snap(Finger[j])
  <2>1. P!Has(Finger[j]) /\ snaps' = <<x>> \o w /\ cache' = cache
    BY <1>12 DEF P!Restore
  <2>2. x \in Snapshots /\ x.of = Finger[j] /\ Len(snaps) >= 1
    BY <2>1, HasSnap DEF PrepInv, SnapsInv
  <2>3. /\ w \in Seq(Snapshots) /\ OnePerFinger(w) /\ Len(w) = Len(snaps) - 1
        /\ \A i \in 1 .. Len(w) : w[i].of # Finger[j]
    BY <2>1, WithoutOne DEF PrepInv, SnapsInv
  <2> HIDE DEF w, x
  <2>4. snaps' \in Seq(Snapshots) /\ Len(snaps') = Len(snaps) /\ OnePerFinger(snaps')
    <3>1. snaps' \in Seq(Snapshots) /\ Len(snaps') = Len(w) + 1 /\ OnePerFinger(snaps')
        BY <2>1, <2>2, <2>3, PutFirst
    <3>2. Len(snaps) \in Nat
        OBVIOUS
    <3> QED
        BY <2>3, <3>1
  <2>5. cache
    BY <2>2 DEF PrepInv, SnapsInv
  <2> QED
    BY <2>1, <2>4 DEF PrepInv, SnapsInv
<1>13. ASSUME NEW j \in cast, P!Miss(j) PROVE SnapsInv'
    BY <1>13 DEF P!Miss, P!store, PrepInv, SnapsInv
<1>14. ASSUME NEW j \in cast, P!RestoreFails(j) PROVE SnapsInv'
    BY <1>14 DEF P!RestoreFails, P!store, PrepInv, SnapsInv
<1>15. ASSUME NEW j \in cast, P!DropDamaged(j) PROVE SnapsInv'
  <2>1. snaps' = snaps \/ snaps' = P!Without(Finger[j])
    BY <1>15 DEF P!DropDamaged, P!Dropped
  <2>2. cache' = cache
    BY <1>15 DEF P!DropDamaged
  <2> QED
    BY <2>1, <2>2, WithoutOne DEF P!Sorts, PrepInv, SnapsInv
<1>16. ASSUME NEW j \in cast, P!Build(j) PROVE SnapsInv'
    BY <1>16 DEF P!Build, P!store, PrepInv, SnapsInv
<1>17. ASSUME NEW j \in cast, P!BuildFails(j) PROVE SnapsInv'
    BY <1>17 DEF P!BuildFails, P!store, PrepInv, SnapsInv
<1>18. ASSUME NEW j \in cast, P!Save(j) PROVE SnapsInv'
  <2>1. CASE snaps' = snaps
    BY <1>18, <2>1 DEF P!Save, PrepInv, SnapsInv
  <2>2. CASE snaps' # snaps
    <3>1. PICK x \in P!SnapshotOf(j) : snaps' = P!Kept(<<x>> \o P!Without(Finger[j]))
        BY <1>18, <2>2 DEF P!Save
    <3>2. x \in Snapshots /\ x.of = Finger[j]
        BY <1>1 DEF P!SnapshotOf, Snapshots
    <3> DEFINE w == P!Without(Finger[j])
               v == <<x>> \o w
    <3>3. /\ w \in Seq(Snapshots) /\ OnePerFinger(w)
          /\ \A i \in 1 .. Len(w) : w[i].of # Finger[j]
        BY WithoutOne DEF PrepInv, SnapsInv
    <3>4. snaps' = P!Kept(v)
        BY <3>1
    <3> HIDE DEF w
    <3>5. v \in Seq(Snapshots) /\ OnePerFinger(v)
        BY <3>2, <3>3, PutFirst
    <3> HIDE DEF v
    <3>6. snaps' \in Seq(Snapshots) /\ Len(snaps') <= MaxSnapshots /\ OnePerFinger(snaps')
        BY <1>3, <3>4, <3>5, KeptFew
    <3>7. cache /\ cache' = cache
        BY <1>18, <1>1 DEF P!Save, P!CacheInUse, P!Using, P!Go, PrepInv
    <3> QED
        BY <3>6, <3>7 DEF SnapsInv
  <2> QED
    BY <2>1, <2>2
<1>19. ASSUME NEW j \in cast, P!SaveNothing(j) PROVE SnapsInv'
    BY <1>19 DEF P!SaveNothing, P!store, PrepInv, SnapsInv
<1>20. ASSUME NEW j \in cast, P!Check(j) PROVE SnapsInv'
    BY <1>20 DEF P!Check, P!store, PrepInv, SnapsInv
<1>21. ASSUME NEW j \in cast, P!CheckFails(j) PROVE SnapsInv'
    BY <1>21 DEF P!CheckFails, P!store, PrepInv, SnapsInv
<1>22. ASSUME NEW j \in cast, P!Discard(j) PROVE SnapsInv'
  <2>1. snaps' = snaps \/ snaps' = P!Without(Finger[j])
    BY <1>22 DEF P!Discard, P!Dropped
  <2>2. cache' = cache
    BY <1>22 DEF P!Discard
  <2> QED
    BY <2>1, <2>2, WithoutOne DEF P!Sorts, PrepInv, SnapsInv
<1>23. ASSUME NEW j \in cast, P!Stop(j) PROVE SnapsInv'
    BY <1>23 DEF P!Stop, P!store, PrepInv, SnapsInv
<1>24. ASSUME NEW j \in cast, P!Work(j) PROVE SnapsInv'
    BY <1>24 DEF P!Work, P!store, PrepInv, SnapsInv
<1>25. ASSUME NEW j \in cast, P!Steps(j) PROVE SnapsInv'
    BY <1>25 DEF P!Steps, P!store, PrepInv, SnapsInv
<1>26. ASSUME NEW j \in cast, P!Leave(j) PROVE SnapsInv'
    BY <1>26 DEF P!Leave, PrepInv, SnapsInv
<1>27. ASSUME NEW j \in cast, P!Unlock(j) PROVE SnapsInv'
    BY <1>27 DEF P!Unlock, P!store, PrepInv, SnapsInv
<1>28. ASSUME NEW j \in cast, P!Tidy(j) PROVE SnapsInv'
    BY <1>28 DEF P!Tidy, P!store, PrepInv, SnapsInv
<1>29. CASE P!Close
    BY <1>29 DEF P!Close, P!store, PrepInv, SnapsInv
<1>30. CASE P!Age
    BY <1>30 DEF P!Age, PrepInv, SnapsInv
<1>31. CASE P!Own
    BY <1>31 DEF P!Own, P!store, PrepInv, SnapsInv
<1>32. CASE P!CheckAgain
    BY <1>32 DEF P!CheckAgain, P!store, PrepInv, SnapsInv
<1>33. CASE P!Remove
  <2>1. snaps' = <<>> /\ OnePerFinger(<<>>)
    BY <1>33 DEF P!Remove, OnePerFinger
  <2>2. <<>> \in Seq(Snapshots) /\ Len(<<>>) = 0
    OBVIOUS
  <2> QED
    BY <1>3, <2>1 DEF SnapsInv
<1>34. CASE P!Halt
    BY <1>34 DEF P!Halt, P!store, PrepInv, SnapsInv
<1>35. CASE P!Damage
  <2>1. PICK i \in 1 .. Len(snaps) : snaps' = [snaps EXCEPT ![i].quality = "damaged"]
    BY <1>35 DEF P!Damage
  <2> DEFINE x == [snaps[i] EXCEPT !.quality = "damaged"]
  <2>2. snaps[i] \in Snapshots
    BY DEF PrepInv, SnapsInv
  <2>3. x \in Snapshots /\ x.of = snaps[i].of
    BY <2>2 DEF Snapshots
  <2>4. snaps' = [snaps EXCEPT ![i] = x]
    BY <2>1
  <2> HIDE DEF x
  <2>5. /\ snaps' \in Seq(Snapshots) /\ Len(snaps') = Len(snaps)
        /\ \A k \in 1 .. Len(snaps) : snaps'[k] = IF k = i THEN x ELSE snaps[k]
    BY <2>3, <2>4 DEF PrepInv, SnapsInv
  <2>6. \A k \in 1 .. Len(snaps) : snaps'[k].of = snaps[k].of
    BY <2>3, <2>5
  <2>7. cache' = cache /\ (snaps' # <<>> => snaps # <<>>)
    BY <1>35 DEF P!Damage
  <2> QED
    BY <2>5, <2>6, <2>7 DEF OnePerFinger, PrepInv, SnapsInv
<1>36. CASE P!Crash
    BY <1>36 DEF P!Crash, P!store, PrepInv, SnapsInv
<1>37. CASE UNCHANGED P!vars
    BY <1>37 DEF P!vars, P!store, PrepInv, SnapsInv
<1> QED
    BY <1>4, <1>5, <1>6, <1>7, <1>8, <1>9, <1>10, <1>11, <1>12, <1>13, <1>14, <1>15, <1>16,
        <1>17, <1>18, <1>19, <1>20, <1>21, <1>22, <1>23, <1>24, <1>25, <1>26, <1>27, <1>28,
        <1>29, <1>30, <1>31, <1>32, <1>33, <1>34, <1>35, <1>36, <1>37, NextCases

\* Every step keeps what works to what was checked or built.
LEMMA NextVerified ==
    ASSUME P!Sorts, PrepInv, [P!Next]_P!vars
    PROVE  P!WorksVerified'
<1>4. ASSUME NEW j \in cast, P!StartAgent(j) PROVE P!WorksVerified'
    BY <1>4 DEF P!StartAgent, P!Go, PrepInv, P!WorksVerified
<1>5. ASSUME NEW j \in cast, P!StartWarmup(j) PROVE P!WorksVerified'
    BY <1>5 DEF P!StartWarmup, P!Go, PrepInv, P!WorksVerified
<1>6. ASSUME NEW j \in cast, P!StartManual(j) PROVE P!WorksVerified'
    BY <1>6 DEF P!StartManual, P!Go, PrepInv, P!WorksVerified
<1>7. ASSUME NEW j \in cast, P!FailEarly(j) PROVE P!WorksVerified'
    BY <1>7 DEF P!FailEarly, P!Go, PrepInv, P!WorksVerified
<1>8. ASSUME NEW j \in cast, P!TakeGit(j) PROVE P!WorksVerified'
    BY <1>8 DEF P!TakeGit, P!Go, PrepInv, P!WorksVerified
<1>9. ASSUME NEW j \in cast, P!Enter(j) PROVE P!WorksVerified'
    BY <1>9 DEF P!Enter, P!Go, PrepInv, PrepTypes, P!WorksVerified
<1>10. ASSUME NEW j \in cast, P!GiveUp(j) PROVE P!WorksVerified'
    BY <1>10 DEF P!GiveUp, P!Go, PrepInv, P!WorksVerified
<1>11. ASSUME NEW j \in cast, P!Cancel(j) PROVE P!WorksVerified'
    BY <1>11 DEF P!Cancel, PrepInv, P!WorksVerified
<1>12. ASSUME NEW j \in cast, P!Restore(j) PROVE P!WorksVerified'
    BY <1>12 DEF P!Restore, P!Go, PrepInv, P!WorksVerified
<1>13. ASSUME NEW j \in cast, P!Miss(j) PROVE P!WorksVerified'
    BY <1>13 DEF P!Miss, P!Go, PrepInv, P!WorksVerified
<1>14. ASSUME NEW j \in cast, P!RestoreFails(j) PROVE P!WorksVerified'
    BY <1>14 DEF P!RestoreFails, P!Go, PrepInv, P!WorksVerified
<1>15. ASSUME NEW j \in cast, P!DropDamaged(j) PROVE P!WorksVerified'
    BY <1>15 DEF P!DropDamaged, P!Go, PrepInv, P!WorksVerified
<1>16. ASSUME NEW j \in cast, P!Build(j) PROVE P!WorksVerified'
    BY <1>16 DEF P!Build, P!Go, PrepInv, P!WorksVerified
<1>17. ASSUME NEW j \in cast, P!BuildFails(j) PROVE P!WorksVerified'
    BY <1>17 DEF P!BuildFails, P!Go, PrepInv, P!WorksVerified
<1>18. ASSUME NEW j \in cast, P!Save(j) PROVE P!WorksVerified'
    BY <1>18 DEF P!Save, P!Go, PrepInv, P!WorksVerified
<1>19. ASSUME NEW j \in cast, P!SaveNothing(j) PROVE P!WorksVerified'
    BY <1>19 DEF P!SaveNothing, P!Go, PrepInv, P!WorksVerified
<1>20. ASSUME NEW j \in cast, P!Check(j) PROVE P!WorksVerified'
    BY <1>20 DEF P!Check, P!Passes, P!Go, PrepInv, P!WorksVerified
<1>21. ASSUME NEW j \in cast, P!CheckFails(j) PROVE P!WorksVerified'
    BY <1>21 DEF P!CheckFails, P!Go, PrepInv, P!WorksVerified
<1>22. ASSUME NEW j \in cast, P!Discard(j) PROVE P!WorksVerified'
    BY <1>22 DEF P!Discard, P!Go, PrepInv, PrepTypes, P!WorksVerified
<1>23. ASSUME NEW j \in cast, P!Stop(j) PROVE P!WorksVerified'
    BY <1>23 DEF P!Stop, P!Go, PrepInv, PrepTypes, P!WorksVerified
<1>24. ASSUME NEW j \in cast, P!Work(j) PROVE P!WorksVerified'
    BY <1>24 DEF P!Work, P!Go, PrepInv, P!WorksVerified
<1>25. ASSUME NEW j \in cast, P!Steps(j) PROVE P!WorksVerified'
    BY <1>25 DEF P!Steps, P!Go, PrepInv, P!WorksVerified
<1>26. ASSUME NEW j \in cast, P!Leave(j) PROVE P!WorksVerified'
    BY <1>26 DEF P!Leave, P!Go, PrepInv, P!WorksVerified
<1>27. ASSUME NEW j \in cast, P!Unlock(j) PROVE P!WorksVerified'
    BY <1>27 DEF P!Unlock, P!Go, PrepInv, P!WorksVerified
<1>28. ASSUME NEW j \in cast, P!Tidy(j) PROVE P!WorksVerified'
    BY <1>28 DEF P!Tidy, P!Go, PrepInv, P!WorksVerified
<1>29. CASE P!Close
    BY <1>29 DEF P!Close, PrepInv, P!WorksVerified
<1>30. CASE P!Age
    BY <1>30 DEF P!Age, P!tasks, PrepInv, P!WorksVerified
<1>31. CASE P!Own
    BY <1>31 DEF P!Own, P!tasks, PrepInv, P!WorksVerified
<1>32. CASE P!CheckAgain
    BY <1>32 DEF P!CheckAgain, P!tasks, PrepInv, P!WorksVerified
<1>33. CASE P!Remove
    BY <1>33 DEF P!Remove, P!tasks, PrepInv, P!WorksVerified
<1>34. CASE P!Halt
    BY <1>34 DEF P!Halt, P!tasks, PrepInv, P!WorksVerified
<1>35. CASE P!Damage
    BY <1>35 DEF P!Damage, P!tasks, PrepInv, P!WorksVerified
<1>36. CASE P!Crash
    BY <1>36 DEF P!Crash, P!WorksVerified
<1>37. CASE UNCHANGED P!vars
    BY <1>37 DEF P!vars, P!tasks, PrepInv, P!WorksVerified
<1> QED
    BY <1>4, <1>5, <1>6, <1>7, <1>8, <1>9, <1>10, <1>11, <1>12, <1>13, <1>14, <1>15, <1>16,
        <1>17, <1>18, <1>19, <1>20, <1>21, <1>22, <1>23, <1>24, <1>25, <1>26, <1>27, <1>28,
        <1>29, <1>30, <1>31, <1>32, <1>33, <1>34, <1>35, <1>36, <1>37, NextCases

\* Every step keeps the cache that is used; the cleaner has the file lock alone.
LEMMA NextInUse ==
    ASSUME P!Sorts, PrepInv, [P!Next]_P!vars
    PROVE  (P!CacheInUse /\ LockInv)'
<1>4. ASSUME NEW j \in cast, P!StartAgent(j) PROVE (P!CacheInUse /\ LockInv)'
    BY <1>4 DEF P!StartAgent, P!clean, P!store, P!Go, PrepInv, P!CacheInUse, P!Using,
        LockInv
<1>5. ASSUME NEW j \in cast, P!StartWarmup(j) PROVE (P!CacheInUse /\ LockInv)'
    BY <1>5 DEF P!StartWarmup, P!clean, P!store, P!Go, PrepInv, P!CacheInUse, P!Using,
        LockInv
<1>6. ASSUME NEW j \in cast, P!StartManual(j) PROVE (P!CacheInUse /\ LockInv)'
    BY <1>6 DEF P!StartManual, P!clean, P!store, P!Go, PrepInv, P!CacheInUse, P!Using,
        LockInv
<1>7. ASSUME NEW j \in cast, P!FailEarly(j) PROVE (P!CacheInUse /\ LockInv)'
    BY <1>7 DEF P!FailEarly, P!clean, P!store, P!Go, PrepInv, P!CacheInUse, P!Using, LockInv
<1>8. ASSUME NEW j \in cast, P!TakeGit(j) PROVE (P!CacheInUse /\ LockInv)'
    BY <1>8 DEF P!TakeGit, P!clean, P!store, P!Go, PrepInv, P!CacheInUse, P!Using, LockInv
<1>9. ASSUME NEW j \in cast, P!Enter(j) PROVE (P!CacheInUse /\ LockInv)'
    BY <1>9 DEF P!Enter, P!clean, P!Go, PrepInv, PrepTypes, P!CacheInUse, LockInv
<1>10. ASSUME NEW j \in cast, P!GiveUp(j) PROVE (P!CacheInUse /\ LockInv)'
    BY <1>10 DEF P!GiveUp, P!clean, P!store, P!Go, PrepInv, P!CacheInUse, P!Using, LockInv
<1>11. ASSUME NEW j \in cast, P!Cancel(j) PROVE (P!CacheInUse /\ LockInv)'
    BY <1>11 DEF P!Cancel, P!clean, P!store, PrepInv, P!CacheInUse, LockInv
<1>12. ASSUME NEW j \in cast, P!Restore(j) PROVE (P!CacheInUse /\ LockInv)'
    BY <1>12 DEF P!Restore, P!clean, P!Go, PrepInv, P!CacheInUse, P!Using, LockInv
<1>13. ASSUME NEW j \in cast, P!Miss(j) PROVE (P!CacheInUse /\ LockInv)'
    BY <1>13 DEF P!Miss, P!clean, P!store, P!Go, PrepInv, P!CacheInUse, P!Using, LockInv
<1>14. ASSUME NEW j \in cast, P!RestoreFails(j) PROVE (P!CacheInUse /\ LockInv)'
    BY <1>14 DEF P!RestoreFails, P!clean, P!store, P!Go, PrepInv, P!CacheInUse, P!Using,
        LockInv
<1>15. ASSUME NEW j \in cast, P!DropDamaged(j) PROVE (P!CacheInUse /\ LockInv)'
    BY <1>15 DEF P!DropDamaged, P!clean, P!Go, PrepInv, P!CacheInUse, P!Using, LockInv
<1>16. ASSUME NEW j \in cast, P!Build(j) PROVE (P!CacheInUse /\ LockInv)'
    BY <1>16 DEF P!Build, P!clean, P!store, P!Go, PrepInv, P!CacheInUse, P!Using, LockInv
<1>17. ASSUME NEW j \in cast, P!BuildFails(j) PROVE (P!CacheInUse /\ LockInv)'
    BY <1>17 DEF P!BuildFails, P!clean, P!store, P!Go, PrepInv, P!CacheInUse, P!Using,
        LockInv
<1>18. ASSUME NEW j \in cast, P!Save(j) PROVE (P!CacheInUse /\ LockInv)'
    BY <1>18 DEF P!Save, P!clean, P!Go, PrepInv, P!CacheInUse, P!Using, LockInv
<1>19. ASSUME NEW j \in cast, P!SaveNothing(j) PROVE (P!CacheInUse /\ LockInv)'
    BY <1>19 DEF P!SaveNothing, P!clean, P!store, P!Go, PrepInv, P!CacheInUse, P!Using,
        LockInv
<1>20. ASSUME NEW j \in cast, P!Check(j) PROVE (P!CacheInUse /\ LockInv)'
    BY <1>20 DEF P!Check, P!clean, P!store, P!Go, PrepInv, P!CacheInUse, P!Using, LockInv
<1>21. ASSUME NEW j \in cast, P!CheckFails(j) PROVE (P!CacheInUse /\ LockInv)'
    BY <1>21 DEF P!CheckFails, P!clean, P!store, P!Go, PrepInv, P!CacheInUse, P!Using,
        LockInv
<1>22. ASSUME NEW j \in cast, P!Discard(j) PROVE (P!CacheInUse /\ LockInv)'
    BY <1>22 DEF P!Discard, P!clean, P!Go, PrepInv, PrepTypes, P!CacheInUse, P!Using,
        LockInv
<1>23. ASSUME NEW j \in cast, P!Stop(j) PROVE (P!CacheInUse /\ LockInv)'
    BY <1>23 DEF P!Stop, P!clean, P!store, P!Go, PrepInv, PrepTypes, P!CacheInUse, P!Using,
        LockInv
<1>24. ASSUME NEW j \in cast, P!Work(j) PROVE (P!CacheInUse /\ LockInv)'
    BY <1>24 DEF P!Work, P!clean, P!store, P!Go, PrepInv, P!CacheInUse, P!Using, LockInv
<1>25. ASSUME NEW j \in cast, P!Steps(j) PROVE (P!CacheInUse /\ LockInv)'
    BY <1>25 DEF P!Steps, P!clean, P!store, P!Go, PrepInv, P!CacheInUse, P!Using, LockInv
<1>26. ASSUME NEW j \in cast, P!Leave(j) PROVE (P!CacheInUse /\ LockInv)'
    BY <1>26 DEF P!Leave, P!clean, P!Go, PrepInv, PrepTypes, P!CacheInUse, P!Using, LockInv
<1>27. ASSUME NEW j \in cast, P!Unlock(j) PROVE (P!CacheInUse /\ LockInv)'
    BY <1>27 DEF P!Unlock, P!clean, P!store, P!Go, PrepInv, P!CacheInUse, P!Using, LockInv
<1>28. ASSUME NEW j \in cast, P!Tidy(j) PROVE (P!CacheInUse /\ LockInv)'
    BY <1>28 DEF P!Tidy, P!clean, P!store, P!Go, PrepInv, P!CacheInUse, P!Using, LockInv
<1>29. CASE P!Close
    BY <1>29 DEF P!Close, P!clean, P!store, PrepInv, P!CacheInUse, LockInv
<1>30. CASE P!Age
    BY <1>30 DEF P!Age, P!tasks, P!clean, PrepInv, P!CacheInUse, LockInv
<1>31. CASE P!Own
    BY <1>31 DEF P!Own, P!tasks, PrepInv, P!CacheInUse, LockInv
<1>32. CASE P!CheckAgain
    BY <1>32 DEF P!CheckAgain, P!tasks, PrepInv, P!CacheInUse, LockInv
<1>33. CASE P!Remove
    BY <1>33 DEF P!Remove, P!tasks, PrepInv, P!CacheInUse, LockInv
<1>34. CASE P!Halt
    BY <1>34 DEF P!Halt, P!tasks, PrepInv, P!CacheInUse, LockInv
<1>35. CASE P!Damage
    BY <1>35 DEF P!Damage, P!tasks, P!clean, PrepInv, P!CacheInUse, LockInv
<1>36. CASE P!Crash
    BY <1>36 DEF P!Crash, P!CacheInUse, P!Using, LockInv
<1>37. CASE UNCHANGED P!vars
    BY <1>37 DEF P!vars, P!tasks, P!clean, P!store, PrepInv, P!CacheInUse, LockInv
<1> QED
    BY <1>4, <1>5, <1>6, <1>7, <1>8, <1>9, <1>10, <1>11, <1>12, <1>13, <1>14, <1>15, <1>16,
        <1>17, <1>18, <1>19, <1>20, <1>21, <1>22, <1>23, <1>24, <1>25, <1>26, <1>27, <1>28,
        <1>29, <1>30, <1>31, <1>32, <1>33, <1>34, <1>35, <1>36, <1>37, NextCases

\* It holds at first.
LEMMA PrepInvInit ==
    ASSUME P!Sorts, P!Init PROVE PrepInv
<1>1. MaxMishaps \in Nat /\ MaxSnapshots \in Nat \ {0}
    BY DEF P!Sorts
<1>2. snaps = <<>> /\ <<>> \in Seq(Snapshots) /\ Len(<<>>) = 0
    BY DEF P!Init
<1>3. SnapsInv
    BY <1>1, <1>2 DEF SnapsInv, OnePerFinger
<1>4. PrepTypes
  <2>1. /\ mishaps \in 0 .. MaxMishaps /\ users \subseteq P!Jobs /\ cast \in Casts
        /\ current \in Warmups \cup {NoTask} /\ git \in P!Jobs \cup {NoTask}
    BY <1>1 DEF P!Init
  <2> QED
    BY <2>1 DEF P!Init, PrepTypes
<1>5. P!WorksVerified /\ P!CacheInUse /\ LockInv
    BY DEF P!Init, P!WorksVerified, P!CacheInUse, P!Using, LockInv
<1> QED
    BY <1>3, <1>4, <1>5 DEF PrepInv

\* And always, without fairness.
LEMMA PrepInvHolds == ASSUME P!Sorts PROVE P!Spec => []PrepInv
<1>1. P!Init => PrepInv
    BY PrepInvInit
<1>2. PrepInv /\ [P!Next]_P!vars => PrepInv'
    BY NextPrepTypes, NextSnapsInv, NextVerified, NextInUse DEF PrepInv
<1> QED
    BY <1>1, <1>2, PTL DEF P!Spec, P!SafeSpec

\* Its sorts are those that are assumed.
LEMMA SortsGiven == P!Sorts
BY PreparationAssumption DEF Sorts, P!Sorts, Jobs, P!Jobs

\* An Agent or a CI works in an environment that passed its check or was built there and
\* then, and no more snapshots are kept than allowed, one for a fingerprint
\* (prepare_agent_workspace, workspace_snapshot.py).
THEOREM WorksInVerified == P!Spec => []PreparationInv
<1>1. PrepInv => P!PreparationInv
  <2> SUFFICES ASSUME PrepInv PROVE P!PreparationInv
    OBVIOUS
  <2>1. Len(snaps) \in Nat /\ \A i \in 1 .. Len(snaps) : snaps[i] \in Snapshots
    BY DEF PrepInv, SnapsInv
  <2>2. P!PreparationTypes
    BY <2>1 DEF PrepInv, PrepTypes, P!PreparationTypes, Snapshots
  <2>3. P!SnapshotsBounded
    BY DEF PrepInv, SnapsInv, OnePerFinger, P!SnapshotsBounded
  <2> QED
    BY <2>2, <2>3 DEF PrepInv, P!PreparationInv
<1>2. P!PreparationInv => PreparationInv
    BY Zenon DEF P!PreparationInv, PreparationInv, P!PreparationTypes, PreparationTypes,
        P!WorksVerified, WorksVerified, P!SnapshotsBounded, SnapshotsBounded, P!Jobs, Jobs
<1> QED
    BY <1>1, <1>2, SortsGiven, PrepInvHolds, PTL

\* A cache that a task uses is not removed from under it, whatever the cleaner measured
\* before (dependency_cache.py).
THEOREM CacheStays == P!Spec => []CacheInUse
<1>1. PrepInv => CacheInUse
    BY DEF PrepInv, P!CacheInUse, CacheInUse, P!Using, Using, P!Jobs, Jobs
<1> QED
    BY <1>1, SortsGiven, PrepInvHolds, PTL
================================================================================
