-------------------------------- MODULE Scan --------------------------------
(***************************************************************************)
(* The scan of one repository: what the platform's change requests look    *)
(* like is read, compared with the stored snapshots and turned into events:*)
(*                                                                         *)
(*   orchestrator.py      _scan_repository, the watermark                  *)
(*   events.py            detect_events, detect_activity_events, ...       *)
(*   state.py             save_snapshot_and_events                         *)
(*   providers/*.py       list_change_requests, the activity batches       *)
(*                                                                         *)
(* The platform keeps a history of activities per change request (CR); a   *)
(* snapshot is the state after a prefix of it, so that the length of the   *)
(* prefix stands for the snapshot.                                         *)
(*                                                                         *)
(* Abstracted: of a snapshot's fields, head and state; labels, draft and   *)
(* the others are compared the same way, and a merge is a close.  The      *)
(* change_request.updated that comes with every event is left out, and all *)
(* target branches are one.                                                *)
(***************************************************************************)
EXTENDS Integers, FiniteSets, Sequences

CONSTANTS
    CRs,            \* change requests of the repository
    Providers,      \* a subset of {"gitlab", "github"}
    Overlap,        \* max(60, 2 * interval_seconds)
    Interval,       \* interval_seconds
    Grain,          \* Grain[p]: what the dates of platform p are rounded down to
    Skew,           \* Skew[p]: how far its clock is ahead of the service's
    Lag,            \* how far a date may be behind the service's clock
    MaxItems,       \* max_items_per_repository
    MaxScan,        \* bound: how long a scan takes
    MaxTime,        \* bound: the clock
    MaxActs,        \* bound: activities of a CR
    MaxMoves        \* bound: commits on the target branch

ASSUME ScanAssumption ==
    /\ Providers \subseteq {"gitlab", "github"}
    /\ {Overlap, Lag, MaxScan, MaxTime, MaxActs, MaxMoves} \subseteq Nat
    /\ {Interval, MaxItems} \subseteq Nat \ {0}
    /\ Grain \in [Providers -> Nat \ {0}] /\ Skew \in [Providers -> Int]
    /\ \A p \in Providers : Grain[p] - Skew[p] <= Lag + 1

VARIABLES
    provider,
    remote,     \* remote[c]: the platform's history of c, <<>> before c is created
    target,     \* the target branch's head
    clock,      \* the service's clock: datetime.now(UTC)
    snap,       \* snap[c]: the stored snapshot, 0 if there is none
    snapTarget, \* snapTarget[c]: its target_head_sha
    cursor,     \* cursor[c]: the state events and the versions read so far
    rebase,     \* CRs whose cursor holds activity_error
    unread,     \* history: CRs whose activities could once not be read
    events,     \* event_inbox
    watermark,  \* [started, completed] of the last successful scan
    scan        \* the scan in progress, or the last one

platform == <<provider, remote, target, clock>>
stored == <<snap, snapTarget, cursor, rebase, unread, events, watermark>>
vars == <<platform, stored, scan>>

Never == -1
NoHead == -1
Kinds == {"opened", "committed", "closed", "reopened"}
States == {"opened", "closed"}

ShaAt(c, n) == Cardinality({k \in 1 .. n : remote[c][k].kind = "committed"})
StateAfter(kind) == IF kind = "closed" THEN "closed" ELSE "opened"
State(c, n) ==
    LET turns == {k \in 1 .. n : remote[c][k].kind # "committed"}
        last == CHOOSE k \in turns : \A j \in turns : j <= k
    IN  StateAfter(remote[c][last].kind)

View(c, n) == [head |-> ShaAt(c, n), state |-> State(c, n)]
Now(c) == Len(remote[c])
UpdatedAt(c) == remote[c][Now(c)].at
Created == {c \in CRs : remote[c] # <<>>}
Stored == {c \in CRs : snap[c] # 0}
OpenStored == {c \in Stored : State(c, snap[c]) = "opened"}

Init ==
    /\ provider \in Providers
    /\ remote = [c \in CRs |-> <<>>]
    /\ target = 0
    /\ clock = 0
    /\ snap = [c \in CRs |-> 0]
    /\ snapTarget = [c \in CRs |-> NoHead]
    /\ cursor = [c \in CRs |-> [state |-> 0, version |-> 0]]
    /\ rebase = {}
    /\ unread = {}
    /\ events = {}
    /\ watermark = [started |-> Never, completed |-> Never]
    /\ scan = [phase |-> "idle", started |-> Never, seen |-> [c \in CRs |-> 0], left |-> {},
               target |-> NoHead]

-----------------------------------------------------------------------------
\* The platform

\* created_at, updated_at, ...: the platform's own clock, in full seconds on GitHub
\* and in milliseconds on GitLab, where the service's has microseconds.
Dated ==
    LET time == clock + Skew[provider]
    IN  time - (time % Grain[provider])

Act(c, kind) ==
    /\ Now(c) < MaxActs
    /\ remote' = [remote EXCEPT ![c] = Append(@, [kind |-> kind, at |-> Dated])]
    /\ UNCHANGED <<provider, target, clock, stored, scan>>

Create(c) == remote[c] = <<>> /\ Act(c, "opened")
Commit(c) == c \in Created /\ State(c, Now(c)) = "opened" /\ Act(c, "committed")
Close(c) == c \in Created /\ State(c, Now(c)) = "opened" /\ Act(c, "closed")
Reopen(c) == c \in Created /\ State(c, Now(c)) = "closed" /\ Act(c, "reopened")

MoveTarget ==
    /\ target < MaxMoves
    /\ target' = target + 1
    /\ UNCHANGED <<provider, remote, clock, stored, scan>>

Tick ==
    /\ clock < MaxTime
    /\ scan.phase # "idle" => clock < scan.started + MaxScan
    /\ clock' = clock + 1
    /\ UNCHANGED <<provider, remote, target, stored, scan>>

-----------------------------------------------------------------------------
\* Events.  `old` and `new` hold the field that changed; `via` and `key` are
\* what the identifier is made of: the activity, the creation, the scan, or the
\* snapshot's time (and then the two values).

Blank == [head |-> NoHead, state |-> "any"]

Field(type, view) ==
    CASE type = "committed" -> [view EXCEPT !.state = "any"]
      [] type \in {"closed", "reopened"} -> [view EXCEPT !.head = NoHead]

Event(c, type, old, new, via, key) ==
    [cr |-> c, type |-> type, old |-> Field(type, old), new |-> Field(type, new),
     via |-> via, key |-> key]

OpenedEvent(c) ==
    [cr |-> c, type |-> "opened", old |-> Blank, new |-> Blank, via |-> "created", key |-> 0]

TargetEvent(c, old, new) ==
    [cr |-> c, type |-> "target", old |-> [Blank EXCEPT !.head = old],
     new |-> [Blank EXCEPT !.head = new], via |-> "scan", key |-> scan.started]

SameKind(e, f) == <<e.cr, e.type, e.via>> = <<f.cr, f.type, f.via>>
SameId(e, f) ==
    /\ <<e.cr, e.type, e.via, e.key>> = <<f.cr, f.type, f.via, f.key>>
    /\ e.via \in {"diff", "scan"} => e.old = f.old /\ e.new = f.new

\* INSERT OR IGNORE
Inserted(new) == events \union {e \in new : ~\E f \in events : SameId(e, f)}

\* detect_events: the differences between two snapshots
Differences(c, old, new, at) ==
    LET type == IF new.state = "closed" THEN "closed" ELSE "reopened"
    IN  {Event(c, t, old, new, "diff", at) : t \in
            (IF old.state # new.state THEN {type} ELSE {})
            \union (IF old.head # new.head THEN {"committed"} ELSE {})}

\* _apply_activity: what activity k of c makes of a snapshot
Applied(c, view, k) ==
    IF remote[c][k].kind = "committed" THEN [view EXCEPT !.head = ShaAt(c, k)]
    ELSE [view EXCEPT !.state = StateAfter(remote[c][k].kind)]

\* detect_activity_events: the activities one by one, from `old`, then what they
\* leave different from the snapshot `new`.  `read` are the activities that come
\* with an identifier of their own; a close beyond them is in the details only.
Replay(c, old, new, acts, read, at) ==
    LET Step(acc, k) ==
            LET after == Applied(c, acc.view, k)
                e == Event(c, remote[c][k].kind, acc.view, after,
                           IF k <= read THEN "activity" ELSE "detail", k)
            IN  IF provider = "gitlab" /\ after = acc.view THEN acc   \* skip_if_unchanged
                ELSE [view |-> after, events |-> acc.events \union {e}]
        upTo[k \in 0 .. Now(c)] ==
            IF k = 0 THEN [view |-> old, events |-> {}]
            ELSE IF k \in acts THEN Step(upTo[k - 1], k) ELSE upTo[k - 1]
        replayed == upTo[Now(c)]
    IN  replayed.events \union Differences(c, replayed.view, new, at)

\* _rewind_first_seen_snapshot: the snapshot before the activities
Rewound(c, new, acts) ==
    LET turns == {k \in acts : remote[c][k].kind # "committed"}
        first == CHOOSE k \in turns : \A j \in turns : k <= j
    IN  [head |-> IF acts = turns THEN new.head ELSE NoHead,
         state |-> IF turns = {} THEN new.state
                   ELSE IF remote[c][first].kind = "closed" THEN "opened" ELSE "closed"]

-----------------------------------------------------------------------------
\* The scan

\* What the platform answers when it is asked for the activities of c: each
\* request sees the history as of some moment since the snapshot was read.
\* GitLab answers with the details, the state events and the versions; GitHub
\* with one timeline.  Details and versions that differ are an error.
Readings(c) ==
    LET moments == scan.seen[c] .. Now(c)
    IN  {a \in [detail : moments, state : moments, version : moments] :
            IF provider = "gitlab" THEN ShaAt(c, a.detail) = ShaAt(c, a.version)
            ELSE a.detail = a.state /\ a.state = a.version}

\* observed_head_sha and observed_state, which only GitLab has
AnyVersion(c, a) == TRUE
SameVersion(c, a) == provider = "gitlab" => View(c, a.detail) = View(c, scan.seen[c])

\* The activities in an answer that the cursor has not passed.
Fresh(c, a) ==
    LET IsTurn(k) == remote[c][k].kind \in {"closed", "reopened"}
        closes == {k \in 1 .. a.detail : remote[c][k].kind = "closed"}
        IsLast(k) == \A j \in closes : j <= k
        closedAt == IF provider = "gitlab" /\ State(c, a.detail) = "closed"
                    THEN {k \in closes : IsLast(k)} ELSE {}
    IN  {k \in 1 .. Now(c) :
            \/ IsTurn(k) /\ cursor[c].state < k /\ k <= a.state
            \/ ~IsTurn(k) /\ k > 1 /\ cursor[c].version < k /\ k <= a.version}
        \union {k \in closedAt : k > a.state}

WindowAfterEnd == IF watermark.completed # Never THEN watermark.completed
                  ELSE scan.started - Interval
Window == IF watermark.started # Never THEN watermark.started
          ELSE scan.started - Interval

Candidates == {c \in Created : watermark.completed # Never =>
                                   UpdatedAt(c) >= watermark.completed - Overlap}

Begin ==
    /\ scan.phase = "idle"
    /\ scan.started # Never => clock >= scan.started + Interval
    /\ scan' = [scan EXCEPT !.phase = "started", !.started = clock]
    /\ UNCHANGED <<platform, stored>>

\* _initialize_activity_cursors: a cursor with an error starts again from now
Rebaseline(c) ==
    /\ scan.phase = "started"
    /\ c \in rebase
    /\ cursor' = [cursor EXCEPT ![c] = [state |-> Now(c), version |-> Now(c)]]
    /\ rebase' = rebase \ {c}
    /\ UNCHANGED <<platform, snap, snapTarget, unread, events, watermark, scan>>

\* list_change_requests and _target_branch_heads
List ==
    /\ scan.phase = "started"
    /\ \E listed \in SUBSET Candidates :
        /\ \/ listed = Candidates /\ Cardinality(listed) <= MaxItems
           \/ Cardinality(listed) = MaxItems
        /\ \A c \in listed, d \in Candidates \ listed : UpdatedAt(c) >= UpdatedAt(d)
        /\ scan' = [scan EXCEPT
                        !.phase = "listed",
                        !.seen = [c \in CRs |-> IF c \in listed THEN Now(c) ELSE 0],
                        !.left = listed,
                        !.target = IF \/ OpenStored # {}
                                      \/ \E c \in listed : State(c, Now(c)) = "opened"
                                   THEN target ELSE NoHead]
    /\ UNCHANGED <<platform, stored>>

\* save_snapshot_and_events: one transaction
Save(c, new) ==
    LET head == IF scan.target # NoHead THEN scan.target ELSE snapTarget[c]
        moved == /\ snap[c] # 0 /\ State(c, scan.seen[c]) = "opened"
                 /\ snapTarget[c] # NoHead /\ head # snapTarget[c]
    IN  /\ snap' = [snap EXCEPT ![c] = scan.seen[c]]
        /\ snapTarget' = [snapTarget EXCEPT ![c] = head]
        /\ events' = Inserted(new \union (IF moved THEN {TargetEvent(c, snapTarget[c], head)}
                                          ELSE {}))

\* detect_first_seen_events; `dated` are the activities the platform dates
\* inside the window: GitHub's commits carry the time they were written
FirstSeen(c, dated, read) ==
    LET new == View(c, scan.seen[c])
    IN  (IF remote[c][1].at >= Window THEN {OpenedEvent(c)} ELSE {})
        \union Replay(c, Rewound(c, new, dated), new, dated, read,
                      remote[c][scan.seen[c]].at)

Changes(c, acts, read) ==
    Replay(c, View(c, snap[c]), View(c, scan.seen[c]), acts, read, remote[c][scan.seen[c]].at)

\* One change request of the list, with its activities.
Process(c) ==
    /\ scan.phase = "listed"
    /\ c \in scan.left
    /\ \E a \in Readings(c) :
        /\ SameVersion(c, a)
        /\ \/ /\ snap[c] = 0
              /\ \E dated \in SUBSET {k \in Fresh(c, a) : remote[c][k].at >= Window} :
                    /\ \A k \in Fresh(c, a) :
                          /\ remote[c][k].at >= Window
                          /\ provider = "gitlab" \/ remote[c][k].kind # "committed"
                          => k \in dated
                    /\ Save(c, FirstSeen(c, dated, a.state))
           \/ snap[c] # 0 /\ c \notin rebase /\ Save(c, Changes(c, Fresh(c, a), a.state))
           \/ snap[c] # 0 /\ c \in rebase /\ Save(c, Changes(c, {}, 0))
        /\ cursor' = [cursor EXCEPT ![c] = [state |-> a.state, version |-> a.version]]
    /\ rebase' = rebase \ {c}
    /\ scan' = [scan EXCEPT !.left = @ \ {c}]
    /\ UNCHANGED <<platform, unread, watermark>>

\* GitLab's activities cannot be read: the snapshot alone is compared.
ProcessUnread(c) ==
    /\ provider = "gitlab"
    /\ scan.phase = "listed"
    /\ c \in scan.left
    /\ Save(c, IF snap[c] = 0 THEN FirstSeen(c, {}, 0) ELSE Changes(c, {}, 0))
    /\ rebase' = rebase \union {c}
    /\ unread' = unread \union {c}
    /\ scan' = [scan EXCEPT !.left = @ \ {c}]
    /\ UNCHANGED <<platform, cursor, watermark>>

\* Stored change requests that were not listed, but whose target has moved.
NoneLagging == {}
Lagging == {c \in OpenStored : scan.seen[c] = 0 /\ scan.target \notin {NoHead, snapTarget[c]}}

TargetPass(c) ==
    /\ scan.phase = "listed" /\ scan.left = {}
    /\ c \in Lagging
    /\ events' = Inserted(IF snapTarget[c] = NoHead THEN {}
                          ELSE {TargetEvent(c, snapTarget[c], scan.target)})
    /\ snapTarget' = [snapTarget EXCEPT ![c] = scan.target]
    /\ UNCHANGED <<platform, snap, cursor, rebase, unread, watermark, scan>>

\* _mark_scan_completed
Complete ==
    /\ scan.phase = "listed" /\ scan.left = {} /\ Lagging = {}
    /\ watermark' = [started |-> scan.started, completed |-> clock]
    /\ scan' = [scan EXCEPT !.phase = "idle", !.seen = [c \in CRs |-> 0],
                            !.target = NoHead]
    /\ UNCHANGED <<platform, snap, snapTarget, cursor, rebase, unread, events>>

\* A request fails, the details of a change request are newer than its snapshot,
\* or the process stops.
FailAsDone ==
    /\ scan.phase # "idle"
    /\ watermark' = [started |-> scan.started, completed |-> clock]
    /\ scan' = [scan EXCEPT !.phase = "idle", !.seen = [c \in CRs |-> 0],
                            !.left = {}, !.target = NoHead]
    /\ UNCHANGED <<platform, snap, snapTarget, cursor, rebase, unread, events>>
Fail ==
    /\ scan.phase # "idle"
    /\ scan' = [scan EXCEPT !.phase = "idle", !.seen = [c \in CRs |-> 0],
                            !.left = {}, !.target = NoHead]
    /\ UNCHANGED <<platform, stored>>

Next ==
    \/ \E c \in CRs : Create(c) \/ Commit(c) \/ Close(c) \/ Reopen(c)
    \/ MoveTarget \/ Tick
    \/ Begin \/ List \/ Complete \/ Fail
    \/ \E c \in CRs : Rebaseline(c) \/ Process(c) \/ ProcessUnread(c) \/ TargetPass(c)

Spec == Init /\ [][Next]_vars

-----------------------------------------------------------------------------
\* Properties

Shas == (NoHead .. MaxActs) \union (NoHead .. MaxMoves)
Views == [head : Shas, state : States \union {"any"}]
EventType == [cr : CRs, type : {"opened", "committed", "closed", "reopened", "target"},
              old : Views, new : Views,
              via : {"created", "activity", "detail", "diff", "scan"}, key : Int]

\* Every variable stays in its type: in particular what is stored of a change
\* request is a prefix of its history.
TypeOK ==
    /\ provider \in Providers
    /\ \A c \in CRs : remote[c] \in Seq([kind : Kinds, at : Int]) /\ Now(c) <= MaxActs
    /\ target \in 0 .. MaxMoves
    /\ clock \in 0 .. MaxTime
    /\ \A c \in CRs : /\ {snap[c], cursor[c].state, cursor[c].version, scan.seen[c]}
                            \subseteq 0 .. Now(c)
                      /\ snapTarget[c] \in NoHead .. target
    /\ rebase \subseteq unread /\ unread \subseteq Stored
    /\ events \subseteq EventType
    /\ watermark \in [started : Never .. clock, completed : Never .. clock]
    /\ scan.phase \in {"idle", "started", "listed"}
    /\ scan.started \in Never .. clock /\ scan.left \subseteq CRs
    /\ scan.target \in NoHead .. target

\* The list is read newest first and stops at the watermark, yet no change is
\* left behind it: a change request that differs from its snapshot, or has none,
\* is among the candidates of the next scan.  (_updated_since,
\* _mark_scan_completed; when the overlap is as long as a scan and the lag of the
\* platform's clock together.)
NothingMissed ==
    \A c \in Created :
        snap[c] = 0 \/ View(c, snap[c]) # View(c, Now(c)) => c \in Candidates

\* A change request is seen for the first time, after a successful scan.
Appears(c) == snap[c] = 0 /\ snap'[c] # 0 /\ watermark.started # Never
AnnouncedOpen(c) == \E e \in events' : e.cr = c /\ e.type = "opened"

\* After the first successful scan, a change request that appears is announced
\* as opened, whenever it was created and however many scans failed in between
\* (the event window starts where the last successful scan started).  Only one that
\* the platform dates before that start may be left out, and none of those is
\* dated further back than the platform's clock rounds and lags.
CreationAnnounced ==
    [][\A c \in CRs : Appears(c) =>
            \/ AnnouncedOpen(c)
            \/ watermark.started - remote[c][1].at \in 1 .. Lag]_vars

CountOf(c, type) == Cardinality({e \in events : e.cr = c /\ e.type = type})
Turns(c, type, n) == Cardinality({k \in 1 .. n : remote[c][k].kind = type})

\* A change request is not closed and reopened within one instant of the platform's clock.
TurnsApart(c) ==
    \A j, k \in 1 .. Now(c) :
        /\ {remote[c][j].kind, remote[c][k].kind} \subseteq {"closed", "reopened"}
        /\ remote[c][j].at = remote[c][k].at
        => j = k

\* Of a change request announced as opened, no change that the cursor has
\* passed stays without an event, unless its activities could not be read:
\* each head has one, and there is one for each close and each reopening.
\* (Snapshot, cursor and events are saved in one transaction.)  A difference of
\* snapshots is told from an earlier one by its time alone (_event_id).
ChangesAnnounced ==
    \A c \in CRs \ unread :
        (\E e \in events : e.cr = c /\ e.type = "opened") =>
            /\ TurnsApart(c) =>
                    \A type \in {"closed", "reopened"} :
                        CountOf(c, type) >= Turns(c, type, cursor[c].state)
            /\ provider = "gitlab" =>
                    \A h \in 1 .. ShaAt(c, cursor[c].version) :
                        \E e \in events : e.cr = c /\ e.type = "committed" /\ e.new.head = h

\* What every state of a scan is: of its types, and with its changes announced.
ScanInv == TypeOK /\ ChangesAnnounced

\* A commit starts its rules once.  On GitLab a new head does, whether the diff
\* versions or the snapshot showed it first, and whatever reading failed (the
\* version marks, gitlab_rebaseline, observed_head_sha); and so does a commit on
\* the target branch, although the identifier of the event names the scan and a
\* scan that failed is repeated.
AnnouncedOnce ==
    \A e, f \in events :
        /\ e.cr = f.cr /\ e.type = f.type /\ e.new = f.new
        /\ e.type = "target" \/ (e.type = "committed" /\ provider = "gitlab")
        => e = f

\* A scan only counts as successful when every open change request, listed or
\* not, has been compared with the target's head the scan read.
TargetFresh ==
    [][watermark' # watermark =>
           \A c \in OpenStored : scan.target = snapTarget[c]]_vars

=============================================================================
