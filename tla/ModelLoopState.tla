---------------------------- MODULE ModelLoopState ----------------------------
(***************************************************************************)
(* What the embedded model loop keeps of a run (codex_model_runner.py,     *)
(* context_compaction.py), and what must hold of it whatever step comes.   *)
(* The steps are those of ModelLoop.                                       *)
(*                                                                         *)
(* Sizes are whole units of the estimator; windows are what is left of     *)
(* them without the room reserved for the output.                          *)
(***************************************************************************)
EXTENDS Integers, Sequences

CONSTANTS
    Chains,         \* bound: the chains of candidates, and whether compaction is on
    Fixed,          \* instructions, tools and the task
    Handover,       \* what asking for a summary adds to a request
    Prefix,         \* what introduces a summary
    Slack, SummaryTarget, LeastTarget,  \* the soft target of a summary and its room
    KeepRecent, MaxRewrites, MaxSummaries, MaxRounds, Retries,
    RoundSizes, DraftSizes, Reference,  \* bound: sizes of answers, summaries; of a reference
    MaxCalls        \* bound: tools called in one round

Models == [driver : STRING, limit : Nat, trigger : Nat, effort : Nat, usable : BOOLEAN]

\* The sorts of the constants.  What introduces a summary is longer (SUMMARY_PREFIX)
\* than the slack of its target (256).
Sorts ==
    /\ {Fixed, Handover, Prefix, Slack, KeepRecent, MaxRewrites, MaxSummaries, Retries,
        Reference, MaxCalls} \subseteq Nat
    /\ {SummaryTarget, LeastTarget, MaxRounds} \cup RoundSizes \cup DraftSizes \subseteq Nat \ {0}
    /\ Slack <= Prefix
    /\ \A p \in Chains : p.models \in Seq(Models) /\ p.compaction \in BOOLEAN
ASSUME ModelLoopAssumption == Sorts

VARIABLES
    plan,       \* the candidates, the primary model first
    compaction, \* context_compaction.enabled
    pc,         \* where the loop is
    round,      \* round_index
    idx,        \* current_index, the candidate
    tries,      \* the attempts of the client for one request
    eff,        \* reasoning effort of the candidates, 0 when it is left out
    exhausted,  \* exhausted_models
    retried,    \* context_retried, of this round
    force,      \* force_compaction
    rounds,     \* the rounds of the history: number, size, size of all up to it
    summary,    \* the rounds it stands for, and its size
    draft,      \* ensure_budget while it waits for a summary
    calls,      \* the calls of the round that are to be made, and what it weighs so far
    result      \* of the run: "final" is failed and not to be tried again

\* The window of the candidate, and what a request to it weighs.
Window == plan[idx].limit
Weight(s) == IF s = <<>> THEN 0 ELSE s[Len(s)].upto - s[1].upto + s[1].size
Cost(size, s) == Fixed + (IF size = 0 THEN 0 ELSE Prefix + size) + Weight(s)
Before == Cost(summary.size, rounds)

-----------------------------------------------------------------------------
\* Every variable stays in its type.
ModelLoopTypes ==
    /\ \E p \in Chains : plan = p.models /\ compaction = p.compaction
    /\ pc \in {"round", "budget", "summary", "ask", "tools", "end"}
    /\ round \in 0 .. MaxRounds /\ idx \in 0 .. Len(plan) /\ tries \in 0 .. Retries
    /\ \A i \in 1 .. Len(plan) : eff[i] \in 0 .. plan[i].effort
    /\ {exhausted, retried} \subseteq SUBSET (1 .. Len(plan)) /\ force \in BOOLEAN
    /\ summary \in [of : 0 .. MaxRounds, size : {0} \cup DraftSizes]
    /\ draft.requests <= MaxSummaries /\ draft.rewrites <= MaxRewrites
    /\ draft.prefix \in 0 .. Len(rounds)
    /\ calls.left \in 0 .. MaxCalls
    /\ result \in {"none", "completed", "failed", "final", "stopped"}
    /\ pc = "end" <=> result # "none"

\* Every round whose tools were run is in the history or in the rounds its summary
\* stands for, once and in order, whatever summaries were refused, shortened or lost
\* on the way and whichever models were asked.
HistoryComplete ==
    /\ \A i \in 1 .. Len(rounds) : rounds[i].n = summary.of + i
    /\ pc # "end" => summary.of + Len(rounds) = IF pc = "round" THEN round ELSE round - 1

\* With compaction on, what is sent for an answer fits in the window of the model it
\* is sent to, whichever model of the chain the history was made with.
WithinWindow == compaction /\ pc = "ask" => Before <= Window

\* A model whose quota is used up is not asked again in this run.
QuotaRemembered == pc \in {"budget", "summary", "ask"} => idx \notin exhausted

LoopInv == ModelLoopTypes /\ HistoryComplete /\ WithinWindow /\ QuotaRemembered
================================================================================
