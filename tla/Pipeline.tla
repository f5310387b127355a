------------------------------ MODULE Pipeline ------------------------------
(***************************************************************************)
(* One run of the pipeline graph: the seven phases wired by                *)
(* src/graph/builder.py, the routing of src/graph/supervisor.py, the human *)
(* checkpoints, and the nodes that write the control and score fields of   *)
(* LabState (src/state.py): baseline_runner, coder, code_critic,           *)
(* score_evaluator and experiment_designer.  The nodes that only read and  *)
(* write reports appear as the phase they belong to; any node may raise.   *)
(*                                                                         *)
(* Scores are integers.  The workspace is what score_evaluator reads and   *)
(* writes there: the score that results.json of each experiments/exp_{N}   *)
(* directory holds, the direction problem_definition.json gives, and the   *)
(* reports/score_evaluation_{N}.json files.                                *)
(***************************************************************************)
EXTENDS Integers, Sequences

CONSTANTS
    MaxScore,      \* raw cv scores are 0..MaxScore
    MaxIterations, \* max_iterations of the run
    MaxRetries,    \* critic.max_retries of phase5_implementation.yaml
    MaxChanges     \* bound: changes of problem_definition.json after phase 1

ASSUME MaxScoreAssumption == MaxScore \in Nat
ASSUME MaxIterationsAssumption == MaxIterations \in Nat \ {0}
ASSUME MaxRetriesAssumption == MaxRetries \in Nat
ASSUME MaxChangesAssumption == MaxChanges \in Nat

VARIABLES
    status,       \* "running", "paused" at a checkpoint, "failed", "completed"
    node,         \* the phase, or node of phases 5 and 6, that runs next
    phase,        \* LabState.phase, stamped by _wrap_phase
    definition,   \* what success_metric of problem_definition.json says now
    baseline_score,
    current_iteration,
    iterations_without_improvement,
    best_score,
    best_experiment_path,
    experiments,  \* index entries, in the order coder appended them
    results,      \* results.json of each experiment directory on disk
    evaluations,  \* reports/score_evaluation_{N}.json, by N
    changes,      \* changes of problem_definition.json so far
    retries       \* code_critic's retry count for coder in this phase

lab == <<phase, baseline_score, current_iteration,
         iterations_without_improvement, best_score, best_experiment_path,
         experiments>>
\* What only problem_framer, score_evaluator and the outside world touch.
files == <<definition, evaluations, changes>>
vars == <<status, node, lab, files, results, retries>>

RawScores == 0..MaxScore
NoScore == -1                    \* no readable results.json, or no baseline
NoPath == -1                     \* best_experiment_path = ""
NegInf == -(MaxScore + 1)        \* float("-inf"): below every normalized score
NormalizedScores == -MaxScore..MaxScore
Directions == {"minimize", "maximize"}

\* What a score evaluation report keeps of the score and of how it was read.
Reports == [raw_score : RawScores \cup {NoScore}, direction : Directions]

Phases == {"none", "phase1_understanding", "phase2_research", "phase3_baseline",
           "phase4_design", "phase5_implementation", "phase6_evaluation",
           "phase7_delivery"}

\* Phase 5 and 6 are entered at their first modelled node.
Nodes == {"phase1_understanding", "phase2_research", "phase3_baseline",
          "phase4_design", "coder", "code_critic", "score_evaluator",
          "experiment_designer", "phase7_delivery", "END"}

\* An index entry: directory N stands for experiments/exp_{N}.
Entries == [path : Nat, cv_score : RawScores, iteration : Nat]

TypeOK ==
    /\ status \in {"running", "paused", "failed", "completed"}
    /\ node \in Nodes
    /\ phase \in Phases
    /\ definition \in Directions \cup {"none"}
    /\ baseline_score \in RawScores \cup {NoScore}
    /\ current_iteration \in Nat
    /\ iterations_without_improvement \in Nat
    /\ best_score \in NormalizedScores \cup {NegInf}
    /\ best_experiment_path \in Nat \cup {NoPath}
    /\ experiments \in Seq(Entries)
    /\ DOMAIN results \subseteq Nat
    /\ \A d \in DOMAIN results : results[d] \in RawScores \cup {NoScore}
    /\ DOMAIN evaluations \subseteq Nat
    /\ \A i \in DOMAIN evaluations : evaluations[i] \in Reports
    /\ changes \in 0..MaxChanges
    /\ retries \in 0..MaxRetries

\* new_state
Init ==
    /\ status = "running"
    /\ node = "phase1_understanding"
    /\ phase = "none"
    /\ definition = "none"
    /\ baseline_score = NoScore
    /\ current_iteration = 0
    /\ iterations_without_improvement = 0
    /\ best_score = NegInf
    /\ best_experiment_path = NoPath
    /\ experiments = <<>>
    /\ results = <<>>
    /\ evaluations = <<>>
    /\ changes = 0
    /\ retries = 0

-----------------------------------------------------------------------------
(* Routing                                                                 *)

\* Mutant: one stale evaluation too many.
SupervisorOffByOne(ph, iteration, iwi) ==
    IF ph = "phase2_research"
    THEN IF iteration = 0 THEN "phase3_baseline" ELSE "phase4_design"
    ELSE IF iwi > MaxIterations THEN "phase7_delivery" ELSE "phase4_design"

\* supervisor: "error" stands for the GraphBuilderError it raises.
Supervisor(ph, iteration, iwi) ==
    IF ph = "phase2_research"
    THEN IF iteration = 0 THEN "phase3_baseline" ELSE "phase4_design"
    ELSE IF ph = "phase6_evaluation"
    THEN IF iwi >= MaxIterations THEN "phase7_delivery" ELSE "phase4_design"
    ELSE "error"

Running(n) == status = "running" /\ node = n

\* Mutant: the phase subgraph's own delta is returned, unstamped.
StampNothing(ph) == phase' = phase

\* _wrap_phase stamps the phase that just finished.
Stamp(ph) == phase' = ph

\* interrupt_after stops the run behind a phase whose YAML sets it.
PauseBefore(n) ==
    /\ node' = n
    /\ status' = "paused"

Enter(n) ==
    /\ node' = n
    /\ UNCHANGED status

-----------------------------------------------------------------------------
(* Phases 1 to 4                                                           *)

\* problem_framer writes problem_definition.json, whose success_metric tells
\* score_evaluator the direction.
Understanding ==
    /\ Running("phase1_understanding")
    /\ definition' \in Directions
    /\ Stamp("phase1_understanding")
    /\ PauseBefore("phase2_research")
    /\ UNCHANGED <<evaluations, changes, baseline_score, current_iteration,
                   iterations_without_improvement, best_score,
                   best_experiment_path, experiments, results, retries>>

Research ==
    /\ Running("phase2_research")
    /\ Stamp("phase2_research")
    /\ Enter(Supervisor(phase', current_iteration, iterations_without_improvement))
    /\ UNCHANGED <<files, baseline_score, current_iteration,
                   iterations_without_improvement, best_score,
                   best_experiment_path, experiments, results, retries>>

\* baseline_runner is the only writer of baseline_score.  Nothing here is
\* compared with it: one score stands for all.
Baseline ==
    /\ Running("phase3_baseline")
    /\ baseline_score' = 0
    /\ Stamp("phase3_baseline")
    /\ Enter("phase4_design")
    /\ UNCHANGED <<files, current_iteration,
                   iterations_without_improvement, best_score,
                   best_experiment_path, experiments, results, retries>>

Design ==
    /\ Running("phase4_design")
    /\ Stamp("phase4_design")
    /\ PauseBefore("coder")
    /\ UNCHANGED <<files, baseline_score, current_iteration,
                   iterations_without_improvement, best_score,
                   best_experiment_path, experiments, results, retries>>

-----------------------------------------------------------------------------
(* Phase 5: coder, then code_critic                                        *)

\* coder trains in exp_{current_iteration}: results.json is overwritten.
Train(score) ==
    results' = [d \in DOMAIN results \cup {current_iteration} |->
                  IF d = current_iteration THEN score ELSE results[d]]

\* The index entry coder appends for a successful run.
Entry(score) ==
    [path |-> current_iteration, cv_score |-> score,
     iteration |-> current_iteration]

Coder ==
    /\ Running("coder")
    /\ \E score \in RawScores :
         /\ Train(score)
         /\ experiments' = Append(experiments, Entry(score))
    /\ Enter("code_critic")
    /\ UNCHANGED <<files, phase, baseline_score, current_iteration,
                   iterations_without_improvement, best_score,
                   best_experiment_path, retries>>

\* Mutant: the critic returns coder's whole delta.
CriticReturnsDelta ==
    /\ Running("code_critic")
    /\ retries < MaxRetries
    /\ \E score \in RawScores :
         /\ Train(score)
         /\ experiments' = Append(experiments, Entry(score))
    /\ retries' = retries + 1
    /\ UNCHANGED <<status, node, files, phase, baseline_score,
                   current_iteration, iterations_without_improvement,
                   best_score, best_experiment_path>>

\* Mutant: the retry count is never raised.
CriticNeverGivesUp ==
    /\ Running("code_critic")
    /\ retries < MaxRetries
    /\ \E score \in RawScores : Train(score)
    /\ UNCHANGED <<status, node, lab, files, retries>>

\* "iterate" within the budget runs coder again inside the critic: the disk
\* changes, the entry of the first call stays (messages-only delta).
CriticRetriesCoder ==
    /\ Running("code_critic")
    /\ retries < MaxRetries
    /\ \E score \in RawScores : Train(score)
    /\ retries' = retries + 1
    /\ UNCHANGED <<status, node, lab, files>>

\* "pass", or "iterate" once the budget is spent.
CriticPasses ==
    /\ Running("code_critic")
    /\ Stamp("phase5_implementation")
    /\ Enter("score_evaluator")
    /\ retries' = 0
    /\ UNCHANGED <<files, baseline_score, current_iteration,
                   iterations_without_improvement, best_score,
                   best_experiment_path, experiments, results>>

\* The workspace is an ordinary directory: results.json may be gone or
\* unreadable by the time score_evaluator opens it.
ResultsLost ==
    /\ Running("score_evaluator")
    /\ results[current_iteration] # NoScore
    /\ results' = [results EXCEPT ![current_iteration] = NoScore]
    /\ UNCHANGED <<status, node, lab, files, retries>>

\* So may problem_definition.json, at any time, and it may come back; another
\* run of the workspace or a user may also replace it by one with another
\* metric while this run works or waits.
DefinitionChanges ==
    /\ status \in {"running", "paused"}
    /\ node # "phase1_understanding"
    /\ changes < MaxChanges
    /\ changes' = changes + 1
    /\ definition' \in (Directions \cup {"none"}) \ {definition}
    /\ UNCHANGED <<status, node, lab, results, evaluations, retries>>

-----------------------------------------------------------------------------
(* Phase 6: score_evaluator ... experiment_designer                        *)

\* read_experiment_results: the directory of the last index entry; the
\* fallback exp_{current_iteration} is the same directory.
EvaluatedDir == experiments[Len(experiments)].path

\* Mutant: the score is taken from the index.
IndexedScore == experiments[Len(experiments)].cv_score

RawScore == results[EvaluatedDir]

\* The direction is derived again at every evaluation: a file that is missing
\* or unreadable, like a metric of no known name, is read as "maximize".
Direction == IF definition = "minimize" THEN "minimize" ELSE "maximize"

NormalizedAs(raw, dir) == IF dir = "maximize" THEN raw ELSE -raw

\* Mutant: the sign of a score to be minimized is kept.
Unsigned(raw) == raw

Normalized(raw) == NormalizedAs(raw, Direction)

\* Mutant: a tie is an improvement.
ImprovesOrTies(raw) == raw # NoScore /\ Normalized(raw) >= best_score

Improves(raw) == raw # NoScore /\ Normalized(raw) > best_score

\* reports/score_evaluation_{N}.json keeps the raw score and its direction.
WriteEvaluation ==
    evaluations' =
        [i \in DOMAIN evaluations \cup {current_iteration} |->
            IF i = current_iteration
            THEN [raw_score |-> RawScore, direction |-> Direction]
            ELSE evaluations[i]]

\* Mutant: an iteration without a score is not counted.
ScoreEvaluatorSkipsMissing ==
    /\ Running("score_evaluator")
    /\ IF Improves(RawScore)
       THEN /\ best_score' = Normalized(RawScore)
            /\ best_experiment_path' = EvaluatedDir
            /\ iterations_without_improvement' = 0
       ELSE /\ iterations_without_improvement' =
                 iterations_without_improvement + IF RawScore = NoScore THEN 0 ELSE 1
            /\ UNCHANGED <<best_score, best_experiment_path>>
    /\ WriteEvaluation
    /\ Enter("experiment_designer")
    /\ UNCHANGED <<definition, changes, phase, baseline_score,
                   current_iteration, experiments, results, retries>>

ScoreEvaluator ==
    /\ Running("score_evaluator")
    /\ IF Improves(RawScore)
       THEN /\ best_score' = Normalized(RawScore)
            /\ best_experiment_path' = EvaluatedDir
            /\ iterations_without_improvement' = 0
       ELSE /\ iterations_without_improvement' = iterations_without_improvement + 1
            /\ UNCHANGED <<best_score, best_experiment_path>>
    /\ WriteEvaluation
    /\ Enter("experiment_designer")
    /\ UNCHANGED <<definition, changes, phase, baseline_score,
                   current_iteration, experiments, results, retries>>

\* The last node of the phase increments current_iteration; the conditional
\* edge and the interrupt follow.
ExperimentDesigner ==
    /\ Running("experiment_designer")
    /\ current_iteration' = current_iteration + 1
    /\ Stamp("phase6_evaluation")
    /\ PauseBefore(Supervisor(phase', current_iteration',
                              iterations_without_improvement))
    /\ UNCHANGED <<files, baseline_score, iterations_without_improvement,
                   best_score, best_experiment_path, experiments, results, retries>>

-----------------------------------------------------------------------------
(* Phase 7, failures and the human                                         *)

Delivery ==
    /\ Running("phase7_delivery")
    /\ Stamp("phase7_delivery")
    /\ node' = "END"
    /\ status' = "completed"
    /\ UNCHANGED <<files, baseline_score, current_iteration,
                   iterations_without_improvement, best_score,
                   best_experiment_path, experiments, results, retries>>

\* Any node may raise: graph.invoke raises and the run is "failed" for good.
\* A coder that gives up, called by the graph or by the critic, has cleared
\* results.json before each attempt; its last script may have written it.
NodeRaises ==
    /\ status = "running"
    /\ status' = "failed"
    /\ \/ UNCHANGED results
       \/ /\ node \in {"coder", "code_critic"}
          /\ \E score \in RawScores \cup {NoScore} : Train(score)
    /\ UNCHANGED <<node, lab, files, retries>>

\* update_state writes human_feedback, which no node and no edge reads.
Resume ==
    /\ status = "paused"
    /\ status' = "running"
    /\ UNCHANGED <<node, lab, files, results, retries>>

NodeStep ==
    \/ Understanding \/ Research \/ Baseline \/ Design
    \/ Coder \/ CriticRetriesCoder \/ CriticPasses
    \/ ScoreEvaluator \/ ExperimentDesigner
    \/ Delivery \/ NodeRaises

Next == NodeStep \/ ResultsLost \/ DefinitionChanges \/ Resume

Spec == Init /\ [][Next]_vars

\* graph.invoke runs the next node as long as there is one.  Nothing obliges
\* a human to resume, and a lost file is never needed.
FairSpec == Spec /\ WF_vars(NodeStep)

-----------------------------------------------------------------------------
(* Properties                                                              *)

Evaluations ==
    IF node = "experiment_designer" THEN current_iteration + 1
    ELSE current_iteration

Evaluated == 0..(Evaluations - 1)

\* The index has one entry per implementation phase, in order, whatever the
\* critic retries: entry i describes iteration i - 1 and its own directory.
IndexFollowsIterations ==
    /\ \A i \in DOMAIN experiments :
          experiments[i].iteration = i - 1 /\ experiments[i].path = i - 1
    /\ Len(experiments) =
          current_iteration
            + IF node \in {"code_critic", "score_evaluator", "experiment_designer"}
              THEN 1 ELSE 0

\* Every evaluation has left its report, and no evaluated directory is written
\* again: results.json still holds the score its report names.
EvaluationsOnDisk ==
    /\ DOMAIN evaluations = Evaluated
    /\ \A d \in Evaluated : results[d] = evaluations[d].raw_score

Value(d) == NormalizedAs(evaluations[d].raw_score, evaluations[d].direction)

\* best_score is the best of the normalized scores, each in the direction its
\* evaluation read, and best_experiment_path is the first to have it.
BestAsEvaluated ==
    /\ best_experiment_path = NoPath <=> best_score = NegInf
    /\ best_experiment_path # NoPath =>
         /\ best_experiment_path \in Evaluated
         /\ evaluations[best_experiment_path].raw_score # NoScore
         /\ best_score = Value(best_experiment_path)
    /\ \A d \in Evaluated :
         evaluations[d].raw_score # NoScore =>
           /\ Value(d) <= best_score
           /\ d < best_experiment_path => Value(d) < best_score

\* As long as the evaluations have read one direction, no evaluated directory
\* holds a better results.json than best_experiment_path, none holds a readable
\* one when there is no best experiment, and whichever comes first wins a tie.
BestInOneDirection ==
    \A dir \in Directions :
        (\A d \in Evaluated : evaluations[d].direction = dir) =>
            \A d \in Evaluated :
                results[d] # NoScore =>
                    /\ best_experiment_path # NoPath
                    /\ LET best == NormalizedAs(results[best_experiment_path], dir)
                       IN  /\ NormalizedAs(results[d], dir) <= best
                           /\ d < best_experiment_path
                                => NormalizedAs(results[d], dir) < best

\* best_score and best_experiment_path describe what the reports and the
\* evaluated directories hold on disk, whatever is retried, lost or fails.
\* They are about the best experiment of the run only while every evaluation
\* has read the same direction: problem_definition.json is read each time, and
\* once it is lost or replaced scores of opposite signs are compared.
BestIsOnDisk == EvaluationsOnDisk /\ BestAsEvaluated /\ BestInOneDirection

CounterCountsSinceBest ==
    iterations_without_improvement = Evaluations - (best_experiment_path + 1)

\* The baseline is there before anything is designed, and the design loop
\* never comes back to it.
BaselineFirst ==
    /\ node \notin {"phase1_understanding", "phase2_research", "phase3_baseline"}
         => baseline_score # NoScore
    /\ node = "phase3_baseline" => baseline_score = NoScore /\ experiments = <<>>

\* Each improvement buys at most MaxIterations further loops, so a run with
\* finitely many possible scores makes finitely many of them.
IterationsBounded ==
    Evaluations <= (best_score - NegInf) * MaxIterations
                     + iterations_without_improvement

DeliversWhenStale ==
    /\ node \in {"phase7_delivery", "END"}
         => iterations_without_improvement = MaxIterations
    /\ iterations_without_improvement <= MaxIterations

\* iterations_without_improvement counts the evaluations since the best one,
\* scored or not; and the loop is left only after max_iterations of them in a
\* row that brought nothing, and then it is left at once.
CounterSteersLoop == CounterCountsSinceBest /\ DeliversWhenStale

\* Before the design loop the score fields still have their zero values.
LoopNotEntered ==
    node \in {"phase1_understanding", "phase2_research", "phase3_baseline"} =>
        /\ current_iteration = 0
        /\ iterations_without_improvement = 0
        /\ best_experiment_path = NoPath
        /\ best_score = NegInf
        /\ experiments = <<>>
        /\ node # "phase3_baseline" => baseline_score = NoScore

\* Every directory the index names has been written.
IndexedIsOnDisk == 0..(Len(experiments) - 1) \subseteq DOMAIN results

\* An iteration is only started while there is patience left.
PatienceLeft ==
    node \in {"phase4_design", "coder", "code_critic", "score_evaluator"}
        => iterations_without_improvement < MaxIterations

\* The inductive invariant of the pipeline.
IInv ==
    /\ TypeOK
    /\ LoopNotEntered
    /\ IndexFollowsIterations
    /\ IndexedIsOnDisk
    /\ EvaluationsOnDisk
    /\ BestAsEvaluated
    /\ CounterCountsSinceBest
    /\ BaselineFirst
    /\ IterationsBounded
    /\ DeliversWhenStale
    /\ PatienceLeft

\* The graph never runs for ever: it ends, fails or waits for a human.
EventuallyRests == <>[](status # "running")
=============================================================================
