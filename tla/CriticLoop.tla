----------------------------- MODULE CriticLoop -----------------------------
(***************************************************************************)
(* One call of a critic node: AnalysisCriticNode.__call__                  *)
(* (src/nodes/llm/analysis_critic.py), which ends phases 1 and 4, and      *)
(* CodeCriticNode.__call__ (src/nodes/llm/code_critic.py), which ends      *)
(* phase 5.  Both review, and on "iterate" run the blamed node again inside*)
(* their own call, within a budget per target and a cap on all cycles.     *)
(*                                                                         *)
(* The budget comes from the phase YAML at every call and is not validated *)
(* there, so it may be any integer.                                        *)
(***************************************************************************)
EXTENDS Integers, Sequences, FiniteSets

CONSTANTS
    Targets,      \* critic.targets of the phase YAML
    Fallback,     \* allowed_targets[0]
    Frozen,       \* the target whose output is write-once, or NoTarget
    NoTarget,     \* any target name outside critic.targets, or none
    RetryBudgets  \* values of critic.max_retries

ASSUME TargetsAssumption ==
    IsFiniteSet(Targets) /\ Fallback \in Targets /\ NoTarget \notin Targets
ASSUME BudgetsAssumption == RetryBudgets \subseteq Int

VARIABLES
    max_retries,   \* the budget this call has read
    pc,            \* "review", "retry", "decided", "recorded", "raised"
    cycle,         \* completed iterations of the for loop
    retry_counts,  \* retry_counts.get(target, 0)
    blamed,        \* the target being run again
    reviews,       \* LLM calls made: the critic's own accumulated_messages
    attempts       \* the record's attempts

vars == <<max_retries, pc, cycle, retry_counts, blamed, reviews, attempts>>

Pcs == {"review", "retry", "decided", "recorded", "raised"}

Attempts == [verdict : {"pass", "iterate"}, target : Targets,
             forced : BOOLEAN, frozen : BOOLEAN]

Attempt(v, t, forced, frozen) ==
    [verdict |-> v, target |-> t, forced |-> forced, frozen |-> frozen]

\* What the LLM answers: "garbage" is any verdict but the two valid ones and
\* any response without a JSON object.
Replies == [verdict : {"pass", "iterate", "garbage"},
            target : Targets \cup {NoTarget}]

TypeOK ==
    /\ max_retries \in RetryBudgets
    /\ pc \in Pcs
    /\ cycle \in Nat
    /\ retry_counts \in [Targets -> Nat]
    /\ blamed \in Targets
    /\ reviews \in Nat
    /\ attempts \in Seq(Attempts)

Init ==
    /\ max_retries \in RetryBudgets
    /\ pc = "review"
    /\ cycle = 0
    /\ retry_counts = [t \in Targets |-> 0]
    /\ blamed = Fallback
    /\ reviews = 0
    /\ attempts = <<>>

-----------------------------------------------------------------------------
(* _parse_verdict                                                          *)

Verdict(reply) == IF reply.verdict = "pass" THEN "pass" ELSE "iterate"

Target(reply) == IF reply.target \in Targets THEN reply.target ELSE Fallback

\* Mutant: the cap has no room for the review after the last retry.
CapWithoutLastReview == max_retries * Cardinality(Targets)

\* max_total_cycles
MaxTotalCycles == (max_retries + 1) * Cardinality(Targets)

Decide(a) ==
    /\ attempts' = Append(attempts, a)
    /\ pc' = "decided"

-----------------------------------------------------------------------------
(* The loop                                                                *)

\* One turn of the for loop starts with a call of the LLM.
Reviewed ==
    /\ pc = "review"
    /\ cycle < MaxTotalCycles
    /\ reviews' = reviews + 1

ReviewPasses(reply) ==
    /\ Reviewed
    /\ Verdict(reply) = "pass"
    /\ Decide(Attempt("pass", Target(reply), FALSE, FALSE))
    /\ UNCHANGED <<max_retries, cycle, retry_counts, blamed>>

\* Mutant: one retry too many.
BudgetOverdrawn(t) == retry_counts[t] > max_retries

BudgetSpent(t) == retry_counts[t] >= max_retries

\* The budget of the blamed target is spent: forced pass.
ReviewForced(reply) ==
    /\ Reviewed
    /\ Verdict(reply) = "iterate"
    /\ BudgetSpent(Target(reply))
    /\ Decide(Attempt("pass", Target(reply), TRUE, FALSE))
    /\ UNCHANGED <<max_retries, cycle, retry_counts, blamed>>

\* Mutant: the name the LLM gave is resolved as it is.
ReviewIteratesRawTarget(reply) ==
    /\ Reviewed
    /\ Verdict(reply) = "iterate"
    /\ ~BudgetSpent(Target(reply))
    /\ blamed' = reply.target
    /\ retry_counts' = [retry_counts EXCEPT ![Target(reply)] = @ + 1]
    /\ pc' = "retry"
    /\ UNCHANGED <<max_retries, cycle, attempts>>

ReviewIterates(reply) ==
    /\ Reviewed
    /\ Verdict(reply) = "iterate"
    /\ ~BudgetSpent(Target(reply))
    /\ blamed' = Target(reply)
    /\ retry_counts' = [retry_counts EXCEPT ![Target(reply)] = @ + 1]
    /\ pc' = "retry"
    /\ UNCHANGED <<max_retries, cycle, attempts>>

\* Mutant: the last retry the budget allows is accepted unseen.
RetryEndsUnreviewed ==
    /\ pc = "retry"
    /\ blamed # Frozen
    /\ attempts' = Append(attempts, Attempt("iterate", blamed, FALSE, FALSE))
    /\ cycle' = cycle + 1
    /\ pc' = IF BudgetSpent(blamed) THEN "decided" ELSE "review"
    /\ UNCHANGED <<max_retries, retry_counts, blamed, reviews>>

\* The target ran again; the next cycle reviews what it wrote.
RetrySucceeds ==
    /\ pc = "retry"
    /\ blamed # Frozen
    /\ attempts' = Append(attempts, Attempt("iterate", blamed, FALSE, FALSE))
    /\ cycle' = cycle + 1
    /\ pc' = "review"
    /\ UNCHANGED <<max_retries, retry_counts, blamed, reviews>>

\* Mutant: the write-once error ends the loop without being told apart.
RetryFrozenUnmarked ==
    /\ pc = "retry"
    /\ blamed = Frozen
    /\ Decide(Attempt("pass", blamed, TRUE, FALSE))
    /\ UNCHANGED <<max_retries, cycle, retry_counts, blamed, reviews>>

\* validation_strategist finds its fold_config.json: forced pass.
RetryFrozen ==
    /\ pc = "retry"
    /\ blamed = Frozen
    /\ Decide(Attempt("pass", blamed, TRUE, TRUE))
    /\ UNCHANGED <<max_retries, cycle, retry_counts, blamed, reviews>>

\* The LLM call or the target raises anything else: no record, the run fails.
Raises ==
    /\ pc \in {"review", "retry"}
    /\ pc = "review" => cycle < MaxTotalCycles
    /\ pc' = "raised"
    /\ UNCHANGED <<max_retries, cycle, retry_counts, blamed, reviews, attempts>>

\* The else branch of the for loop.
CapReached ==
    /\ pc = "review"
    /\ cycle >= MaxTotalCycles
    /\ Decide(Attempt("pass", Fallback, TRUE, FALSE))
    /\ UNCHANGED <<max_retries, cycle, retry_counts, blamed, reviews>>

\* Mutant: a forced pass is not worth a record.
WriteGenuineRecord ==
    /\ pc = "decided"
    /\ ~attempts[Len(attempts)].forced
    /\ pc' = "recorded"
    /\ UNCHANGED <<max_retries, cycle, retry_counts, blamed, reviews, attempts>>

\* The verdict record is written to disk and the node returns.
WriteRecord ==
    /\ pc = "decided"
    /\ pc' = "recorded"
    /\ UNCHANGED <<max_retries, cycle, retry_counts, blamed, reviews, attempts>>

Review ==
    \E reply \in Replies :
        ReviewPasses(reply) \/ ReviewForced(reply) \/ ReviewIterates(reply)

Next ==
    \/ Review
    \/ RetrySucceeds \/ RetryFrozen \/ Raises
    \/ CapReached \/ WriteRecord

Spec == Init /\ [][Next]_vars

\* The LLM and the target return or raise.
FairSpec == Spec /\ WF_vars(Next)

-----------------------------------------------------------------------------
(* Properties                                                              *)

CapUnreachable ==
    max_retries >= 0 /\ pc = "review" => cycle < MaxTotalCycles

\* The number of times the record says t was run again.
Reruns(t) ==
    Cardinality({i \in DOMAIN attempts :
                    attempts[i].verdict = "iterate" /\ attempts[i].target = t})

BudgetRespected ==
    \A t \in Targets :
        /\ Reruns(t) <= IF max_retries > 0 THEN max_retries ELSE 0
        /\ pc = "review" => Reruns(t) = retry_counts[t]

\* No target is run again more often than its budget (design.md: "max 3
\* retries per output"), and the record tells how often it was.  The global
\* cap never cuts a call short: with a budget the phase YAML may sensibly
\* hold, the per-target budgets end every call first, whatever the LLM answers
\* (the comment above max_total_cycles in both critics).
BudgetsEndCalls == BudgetRespected /\ CapUnreachable

RecordIsConclusive ==
    pc \in {"decided", "recorded"} =>
        LET final == attempts[Len(attempts)]
        IN  /\ final.verdict = "pass"
            /\ \A i \in 1..(Len(attempts) - 1) : attempts[i].verdict = "iterate"
            /\ final.frozen => final.forced /\ final.target = Frozen
            /\ final.forced /\ ~final.frozen
                 => Reruns(final.target) >= max_retries

ReviewedLast ==
    pc \in {"decided", "recorded"} /\ max_retries >= 0
        => reviews = cycle + 1

\* A finished record ends in its only "pass".  A forced one names a target
\* that has used its budget up or is frozen, and says which of the two.  No
\* output leaves the loop unread: of a call that ends there is one review more
\* than completed reruns, so the last of them came after the last rerun.
CallIsConclusive == RecordIsConclusive /\ ReviewedLast

\* The retries that have been granted: the k-th one of a target t is <<t, k>>,
\* counted from 0.
Granted ==
    {g \in Targets \X (0..(max_retries - 1)) : g[2] < retry_counts[g[1]]}

\* No count exceeds the budget, and every cycle that was completed or is
\* under way was paid for with one granted retry.
CyclesAreGranted ==
    /\ \A t \in Targets : retry_counts[t] <= IF max_retries > 0 THEN max_retries ELSE 0
    /\ pc = "review" => cycle = Cardinality(Granted)
    /\ pc = "retry" => cycle + 1 = Cardinality(Granted)

\* While the loop goes on the record holds completed reruns only, one per cycle.
LoopRecordsReruns ==
    /\ pc \in {"review", "retry"} =>
          \A i \in DOMAIN attempts : attempts[i].verdict = "iterate"
    /\ pc = "review" => reviews = cycle
    /\ pc = "retry" => reviews = cycle + 1

\* The record of reruns against the retry counts, in every state of the call.
RerunsAreCounted ==
    /\ \A t \in Targets :
          /\ Reruns(t) <= retry_counts[t]
          /\ pc = "review" => Reruns(t) = retry_counts[t]
          /\ pc = "retry" => Reruns(t) = retry_counts[t] - IF t = blamed THEN 1 ELSE 0
    /\ pc \in {"decided", "recorded"} => attempts # <<>>

\* The inductive invariant of a call.
IInv ==
    /\ TypeOK
    /\ CyclesAreGranted
    /\ LoopRecordsReruns
    /\ RerunsAreCounted
    /\ RecordIsConclusive
    /\ ReviewedLast

\* Every call ends, with a record on disk or with the exception it raised.
Concludes == <>(pc \in {"recorded", "raised"})
=============================================================================
