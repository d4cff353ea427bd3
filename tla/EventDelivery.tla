---------------------------- MODULE EventDelivery ----------------------------
(***************************************************************************)
(* What the event queue promises to the rules that use it, without saying  *)
(* how: an event that has been stored stays open until it is closed once,  *)
(* and each Agent invocation planned for it succeeds at most once, while   *)
(* its event is open.  EventDispatch implements it.                        *)
(***************************************************************************)
CONSTANTS
    Events,     \* events of event_inbox
    Invs,       \* Agent invocations: (rule, Agent, event) triples
    EventOf     \* EventOf[i]: the event invocation i is planned for

VARIABLES
    state,      \* state[e]: "absent", "open" or "closed"
    succeeded   \* invocations whose Agent run has completed

vars == <<state, succeeded>>

Init ==
    /\ state = [e \in Events |-> "absent"]
    /\ succeeded = {}

Store(e) ==
    /\ state[e] = "absent"
    /\ state' = [state EXCEPT ![e] = "open"]
    /\ UNCHANGED succeeded

Succeed(i) ==
    /\ i \notin succeeded
    /\ state[EventOf[i]] = "open"
    /\ succeeded' = succeeded \union {i}
    /\ UNCHANGED state

Close(e) ==
    /\ state[e] = "open"
    /\ state' = [state EXCEPT ![e] = "closed"]
    /\ UNCHANGED succeeded

Next ==
    \/ \E e \in Events : Store(e) \/ Close(e)
    \/ \E i \in Invs : Succeed(i)

Spec == Init /\ [][Next]_vars

=============================================================================
