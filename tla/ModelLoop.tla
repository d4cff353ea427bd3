------------------------------- MODULE ModelLoop -------------------------------
(***************************************************************************)
(* The embedded model loop of one run: rounds of a request to a model and  *)
(* the execution of the tools it calls (codex_model_runner.py), the chain  *)
(* of models a request may fall back to (model_provider_runtime.py), what  *)
(* their clients make of an error (codex_model_client.py,                  *)
(* model_provider_client.py), and the history, which is replaced by a      *)
(* summary before it outgrows the window of the model                      *)
(* (context_compaction.py).                                                *)
(*                                                                         *)
(* The semaphores of the providers, shared with other runs, only delay a   *)
(* request.                                                                *)
(***************************************************************************)
EXTENDS ModelLoopState, FiniteSetsExt

chain == <<plan, compaction, idx, tries, eff, exhausted>>
talk  == <<rounds, summary>>
vars  == <<chain, talk, pc, round, retried, force, draft, calls, result>>

NoDraft == [prefix |-> 0, target |-> 0, requests |-> 0, rewrites |-> 0]

Smaller(a, b) == IF a < b THEN a ELSE b
Larger(a, b)  == IF a > b THEN a ELSE b

-----------------------------------------------------------------------------
(* The chain.                                                              *)

\* activate skips what is exhausted, disabled, unresolved, without a key, or a
\* complete Codex CLI.
Available(i) == i \notin exhausted /\ plan[i].usable
From(i) == {j \in i .. Len(plan) : Available(j)}
Activate(i) == From(i) # {} /\ idx' = Min(From(i))

\* next_reasoning_effort: one step down; below the lowest it is left out.
LowEffort(e) == IF e = 1 THEN 1 ELSE e - 1
NextEffort(e) == e - 1

Init ==
    /\ \E p \in Chains : plan = p.models /\ compaction = p.compaction
    /\ pc = "round" /\ round = 0 /\ tries = 0
    /\ idx = 0 /\ eff = [i \in 1 .. Len(plan) |-> plan[i].effort]
    /\ exhausted = {} /\ retried = {} /\ force = FALSE
    /\ rounds = <<>> /\ summary = [of |-> 0, size |-> 0]
    /\ draft = NoDraft /\ calls = [left |-> 0, size |-> 0] /\ result = "none"

End(r) == pc' = "end" /\ result' = r
Fail == End("failed")

-----------------------------------------------------------------------------
(* The budget.                                                             *)

Recent(k) == SubSeq(rounds, Len(rounds) - k + 1, Len(rounds))

UncappedTrigger == plan[idx].trigger
Trigger == Smaller(plan[idx].trigger, Larger(0, Window - Handover))
Target0 == Smaller(SummaryTarget, Larger(LeastTarget, (Window - Fixed) \div 4))
Goal ==
    LET least == Fixed + Target0 + Slack
        goal  == Larger(Window \div 2, least)
    IN IF force THEN Smaller(goal, Larger(least, (Before * 6) \div 10)) ELSE goal

\* As many of the recent rounds as fit in beside a summary of the size aimed at; a
\* forced compaction takes at least one round out.
Fitting == {k \in 0 .. Smaller(KeepRecent, Len(rounds)) : Cost(Target0, Recent(k)) <= Goal}
Kept ==
    LET k == IF Fitting = {} THEN 0 ELSE Max(Fitting)
    IN IF force /\ k = Len(rounds) /\ k > 0 THEN k - 1 ELSE k
Cut == Len(rounds) - Kept

NoHistory == rounds = <<>> /\ summary.size = 0
Unneeded ==
    \/ ~force /\ Before < Trigger
    \/ NoHistory
    \/ Cut = 0 /\ summary.size = 0
    \/ ~force /\ Before <= Window /\ Cost(1, Recent(Kept)) >= Before
TooLarge == Fixed >= Window \/ (force /\ NoHistory)

\* A request for a summary is the whole conversation and the handover: it must fit.
MayRequest(d) == d.requests < MaxSummaries /\ Before + Handover <= Window

Budget ==
    /\ pc = "budget"
    /\ IF ~compaction THEN pc' = "ask" /\ UNCHANGED <<draft, result>>
       ELSE \/ TooLarge /\ End("final") /\ UNCHANGED draft
            \/ ~TooLarge /\ Unneeded /\ pc' = "ask" /\ UNCHANGED <<draft, result>>
            \/ /\ ~TooLarge /\ ~Unneeded
               /\ LET d == [NoDraft EXCEPT !.prefix = Cut, !.target = Target0] IN
                  IF MayRequest(d)
                  THEN pc' = "summary" /\ draft' = [d EXCEPT !.requests = 1] /\ UNCHANGED result
                  ELSE End("final") /\ UNCHANGED draft
    /\ force' = IF pc' = "ask" THEN FALSE ELSE force
    /\ tries' = 0
    /\ UNCHANGED <<plan, compaction, idx, eff, exhausted, talk, round, retried, calls>>

\* The summary arrives.  It replaces the rounds it stands for in one step, when the
\* request becomes smaller and fits; else the original goes on if it fits and nothing
\* forces a change; else a shorter one is asked for, from the same original.
Usable(size) ==
    LET after == Cost(size, Recent(Len(rounds) - draft.prefix)) IN after < Before /\ after <= Window
Commit(size) ==
    /\ summary' = [of |-> summary.of + draft.prefix, size |-> size]
    /\ rounds' = Recent(Len(rounds) - draft.prefix)
OriginalFits == Before <= Window /\ ~force
Summarised(size) ==
    \/ /\ Usable(size) /\ Commit(size)
       /\ pc' = "ask" /\ force' = FALSE /\ draft' = NoDraft /\ UNCHANGED result
    \/ /\ ~Usable(size) /\ OriginalFits
       /\ pc' = "ask" /\ draft' = NoDraft /\ UNCHANGED <<talk, force, result>>
    \/ /\ ~Usable(size) /\ ~OriginalFits /\ UNCHANGED <<talk, force>>
       /\ IF draft.rewrites < MaxRewrites /\ MayRequest(draft)
          THEN /\ draft' = [draft EXCEPT !.requests = @ + 1, !.rewrites = @ + 1,
                                         !.target = Larger(1, @ \div 2)]
               /\ UNCHANGED <<pc, result>>
          ELSE End("final") /\ draft' = NoDraft
Summary ==
    /\ pc = "summary" /\ tries' = 0
    /\ \/ \E size \in DraftSizes : Summarised(size)
       \/ End("final") /\ draft' = NoDraft /\ UNCHANGED <<talk, force>>   \* empty, incomplete, a call
    /\ UNCHANGED <<plan, compaction, idx, eff, exhausted, round, retried, calls>>

-----------------------------------------------------------------------------
(* Requests and their errors.                                              *)

Asking == pc \in {"ask", "summary"}

\* The other clients ask once; the Codex client tries a gateway's error again, when no
\* event has arrived.
AsksOnce == plan[idx].driver # "codex"
Retry ==
    /\ Asking /\ ~AsksOnce /\ tries < Retries /\ tries' = tries + 1
    /\ UNCHANGED <<plan, compaction, idx, eff, exhausted, talk, pc, round, retried, force, draft, calls, result>>

\* What the clients make of an error: the quota is used up, the context is too long,
\* the effort is rejected, the provider is not available for now (its answer says so,
\* or there is none), or the request is bad.  Quotas count as "not available".
Errors == {"quota", "context", "effort", "unavailable", "bad"}
Fallbackable(e) == e \in {"quota", "unavailable"}

\* The same request once more: with another candidate, effort or history.
Again == pc' = "budget" /\ draft' = NoDraft /\ UNCHANGED result
Fallback(e) ==
    IF Fallbackable(e) /\ From(idx + 1) # {}
    THEN Activate(idx + 1) /\ Again /\ force' = FALSE
    ELSE Fail /\ draft' = NoDraft /\ UNCHANGED <<idx, force>>

\* The handler of the errors, in its order.
Refused ==
    /\ Asking /\ tries' = 0
    /\ \E e \in Errors :
        /\ exhausted' = IF e = "quota" THEN exhausted \cup {idx} ELSE exhausted
        /\ \/ /\ e = "context" /\ UNCHANGED <<idx, eff>>
              /\ IF pc = "ask" /\ compaction /\ idx \notin retried
                 THEN retried' = retried \cup {idx} /\ force' = TRUE /\ Again
                 ELSE End("final") /\ draft' = NoDraft /\ UNCHANGED <<retried, force>>
           \/ /\ e = "effort" /\ eff[idx] > 0
              /\ eff' = [eff EXCEPT ![idx] = NextEffort(@)]
              /\ Again /\ force' = FALSE /\ UNCHANGED <<idx, retried>>
           \/ /\ e \in {"quota", "unavailable", "bad"} \/ (e = "effort" /\ eff[idx] = 0)
              /\ Fallback(e) /\ UNCHANGED <<eff, retried>>
    /\ UNCHANGED <<plan, compaction, talk, round, calls>>

\* The answer: a last message (one that is empty or not of the schema fails the run),
\* or calls of tools.
Answer ==
    /\ pc = "ask" /\ tries' = 0
    /\ \/ End("completed") /\ UNCHANGED calls
       \/ Fail /\ UNCHANGED calls
       \/ \E n \in 1 .. MaxCalls, size \in RoundSizes :
              calls' = [left |-> n, size |-> size] /\ pc' = "tools" /\ UNCHANGED result
    /\ UNCHANGED <<plan, compaction, idx, eff, exhausted, talk, round, retried, force, draft>>

-----------------------------------------------------------------------------
(* Rounds and tools.                                                       *)

\* A round begins with the first candidate of the chain that can be used.
Begin ==
    /\ pc = "round" /\ retried' = {} /\ force' = FALSE
    /\ IF round < MaxRounds /\ From(1) # {}
       THEN Activate(1) /\ round' = round + 1 /\ pc' = "budget" /\ UNCHANGED result
       ELSE End(IF round = MaxRounds THEN "final" ELSE "failed") /\ UNCHANGED <<idx, round>>
    /\ UNCHANGED <<plan, compaction, tries, eff, exhausted, talk, draft, calls>>

\* A result goes into the history as it is when there is room for it, for its share of
\* what is left after the handover; else as a reference to a file (as is a result over
\* the limit for inline ones, of a reference's size here); else the run fails.
Room == (Window - (Before + calls.size + (IF compaction THEN Handover ELSE 0))) \div calls.left
Recorded(size) == IF size <= Room THEN size ELSE Reference
Record(size) ==
    LET before == IF rounds = <<>> THEN 0 ELSE rounds[Len(rounds)].upto
    IN rounds' = Append(rounds, [n |-> round, size |-> size, upto |-> before + size])
Tool ==
    /\ pc = "tools"
    /\ \/ \E size \in RoundSizes :
            /\ Recorded(size) <= Room
            /\ LET total == calls.size + Recorded(size) IN
               IF calls.left > 1
               THEN calls' = [left |-> calls.left - 1, size |-> total] /\ UNCHANGED <<rounds, pc>>
               ELSE Record(total) /\ calls' = [left |-> 0, size |-> 0] /\ pc' = "round"
            /\ UNCHANGED result
       \/ \* it fits in no form, or cannot be stored
          End("final") /\ UNCHANGED <<rounds, calls>>
       \/ \* not a call; or Git in the sandbox broke down
          Fail /\ UNCHANGED <<rounds, calls>>
    /\ UNCHANGED <<chain, summary, round, retried, force, draft>>

\* The watchdog, or a stop of the run above: at any await.
Stop ==
    /\ pc # "end" /\ End("stopped")
    /\ UNCHANGED <<chain, talk, round, retried, force, draft, calls>>

Next == Begin \/ Budget \/ Summary \/ Retry \/ Refused \/ Answer \/ Tool \/ Stop
        \/ (pc = "end" /\ UNCHANGED vars)

\* Requests have a time limit in their client; tools have one of their own, or the
\* watchdog's, and the rest is the loop's own code.
Spec == Init /\ [][Next]_vars /\ WF_vars(Next)

-----------------------------------------------------------------------------
\* The loop ends: however the providers refuse, no request is repeated for ever with
\* another candidate, effort or summary, and the rounds are counted.
LoopEnds == <>(pc = "end")

================================================================================
