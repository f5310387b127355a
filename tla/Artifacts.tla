------------------------------ MODULE Artifacts ------------------------------
(***************************************************************************)
(* What the nodes of the pipeline tell each other: the files of a          *)
(* workspace (src/workspace/workspace_manager.py), which node writes which *)
(* one from which others, and the paths LabState carries between them.     *)
(*                                                                         *)
(* The workspace is the client's choice (create_run), so several runs may  *)
(* use one.  Only one run executes at a time, but a run that waits at a    *)
(* checkpoint does not execute: another one may start in its workspace.    *)
(*                                                                         *)
(* A file is a name <<kind, iteration>>; its content is who wrote it, how  *)
(* often it was written (its version), the versions of the files its       *)
(* writer read, and for a critic's record the nodes it ran again.          *)
(***************************************************************************)
EXTENDS PhaseGraph, FiniteSets

CONSTANTS
    Runs,            \* runs of one workspace
    MaxIterations,   \* max_iterations of the runs
    LastImprovement, \* bound: iterations from this one on improve nothing
    MaxReruns        \* bound: reruns the critics of a run ask for

ASSUME RunsAssumption == MaxIterations \in Nat \ {0} /\ LastImprovement \in Nat
ASSUME RerunsAssumption == MaxReruns \in Nat

VARIABLES
    status,     \* of each run
    phase,      \* where its graph is
    todo,       \* nodes of the current superstep that have not returned
    ran,        \* nodes of the current superstep that have
    lab,        \* the LabState of each run
    reruns,     \* nodes the critic at work has run again
    budget,     \* reruns left to the critics of the run
    files       \* the workspace

vars == <<status, phase, todo, ran, lab, reruns, budget, files>>

NoPath == <<"none", 0>>

Nodes == UNION {{Sequence[ph][i] : i \in 1..Len(Sequence[ph])} : ph \in Phases}

Iterations == 0..(LastImprovement + MaxIterations - 1)

\* "bdesign" and "bresults" are experiments/baseline, "exp" is train.py with
\* the artifacts of its run, "verdicts" and "code_verdicts" are the critics'.
OnceKinds == {"eda", "problem", "folds", "leakage", "verdicts1", "literature",
              "web", "competition", "memory", "bdesign", "bresults", "review",
              "report", "submission"}
IterationKinds == {"plan", "spec", "verdicts4", "design", "exp", "code_verdicts",
                   "score", "importance", "diagnosis", "hypotheses", "next_plan"}

Names == (OnceKinds \X {0}) \cup (IterationKinds \X Iterations)

Eda == <<"eda", 0>>
Problem == <<"problem", 0>>
Folds == <<"folds", 0>>

\* WORKSPACE_SOURCE_FILES: the repository's own code, which no node writes.
SourceFiles == {"src/features.py", "src/models.py", "src/train.py"} \X {0}

\* LabState: the path fields, the counters the pipeline is steered by, and the
\* experiment index as the iterations of its entries.
Labs == [eda_report_path : {NoPath, Eda}, problem_definition_path : {NoPath, Problem},
         validation_config_path : {NoPath, Folds},
         baseline_results_path : {NoPath, <<"bresults", 0>>},
         solution_plan_path : {NoPath} \cup ({"plan"} \X Iterations),
         feature_spec_path : {NoPath} \cup ({"spec"} \X Iterations),
         best_experiment_path : {NoPath} \cup ({"exp"} \X Iterations),
         current_iteration : Iterations \cup {LastImprovement + MaxIterations},
         iterations_without_improvement : 0..MaxIterations,
         experiments : {[j \in 1..n |-> j - 1] :
                          n \in 0..(LastImprovement + MaxIterations)}]

\* A file that was never written has version 0 and no author.
Nobody == "nobody"
Absent == [by |-> Nobody, ver |-> 0, saw |-> <<>>, reran |-> {}]

Present(f) == files[f].ver > 0

TypeOK ==
    /\ status \in [Runs -> {"new", "running", "paused", "failed", "completed"}]
    /\ phase \in [Runs -> Phases \cup {END}]
    /\ todo \in [Runs -> SUBSET Nodes]
    /\ ran \in [Runs -> SUBSET Nodes]
    /\ lab \in [Runs -> Labs]
    /\ reruns \in [Runs -> SUBSET Nodes]
    /\ budget \in [Runs -> 0..MaxReruns]
    /\ DOMAIN files = Names
    /\ \A f \in Names :
         /\ files[f].by \in Runs \cup {Nobody}
         /\ files[f].ver \in Nat
         /\ DOMAIN files[f].saw \subseteq Names \cup {NoPath} \cup SourceFiles
         /\ files[f].reran \subseteq Nodes

\* new_state
NewLab == [eda_report_path |-> NoPath, problem_definition_path |-> NoPath,
           validation_config_path |-> NoPath, baseline_results_path |-> NoPath,
           solution_plan_path |-> NoPath, feature_spec_path |-> NoPath,
           best_experiment_path |-> NoPath, current_iteration |-> 0,
           iterations_without_improvement |-> 0, experiments |-> <<>>]

Init ==
    /\ status = [r \in Runs |-> "new"]
    /\ phase = [r \in Runs |-> "phase1_understanding"]
    /\ todo = [r \in Runs |-> {}]
    /\ ran = [r \in Runs |-> {}]
    /\ lab = [r \in Runs |-> NewLab]
    /\ reruns = [r \in Runs |-> {}]
    /\ budget = [r \in Runs |-> MaxReruns]
    /\ files = [f \in Names |-> Absent]

-----------------------------------------------------------------------------
(* Reading and writing the workspace                                       *)

\* What reading the files of ins finds; a path LabState does not hold yet
\* reads as "not yet available", like a file that is missing.
Seen(ins) == [g \in ins |-> IF g \in Names THEN files[g].ver ELSE 0]

\* The nodes that raise instead read their inputs under this guard.
Readable(ins) == \A g \in ins : g # NoPath /\ Present(g)

\* write_json, write_text and the atomic replace behind them: the file is the
\* old one or the new one.
Put(r, f, ins, again) ==
    files' = [files EXCEPT ![f] = [by |-> r, ver |-> files[f].ver + 1,
                                   saw |-> Seen(ins), reran |-> again]]

Writes(r, f, ins) == Put(r, f, ins, {})

At(r) == lab[r].current_iteration

-----------------------------------------------------------------------------
(* What each node reads and writes                                         *)

\* The report and the notebook beside it, which no node reads.
DataAnalystWrites(r) == Writes(r, Eda, {})

ProblemFramerWrites(r) ==
    /\ Readable({lab[r].eda_report_path})
    /\ Writes(r, Problem, {lab[r].eda_report_path})

\* Mutant: the folds are computed anew, as for a path that does not exist.
StrategistOverwrites(r) ==
    Writes(r, Folds, {lab[r].problem_definition_path, lab[r].eda_report_path})

\* FoldsAlreadyFrozenError otherwise.
ValidationStrategistWrites(r) ==
    /\ ~Present(Folds)
    /\ Writes(r, Folds, {lab[r].problem_definition_path, lab[r].eda_report_path})

LeakageAuditorWrites(r) ==
    /\ Readable({lab[r].eda_report_path, lab[r].problem_definition_path})
    /\ Writes(r, <<"leakage", 0>>,
              {lab[r].eda_report_path, lab[r].problem_definition_path})

LiteratureResearcherWrites(r) ==
    Writes(r, <<"literature", 0>>, {lab[r].problem_definition_path})

WebResearcherWrites(r) == Writes(r, <<"web", 0>>, {lab[r].problem_definition_path})

CompetitionAnalystWrites(r) == Writes(r, <<"competition", 0>>, {})

MemoryManagerWrites(r) == Writes(r, <<"memory", 0>>, {lab[r].problem_definition_path})

BaselineDesignerWrites(r) ==
    Writes(r, <<"bdesign", 0>>, {lab[r].problem_definition_path, lab[r].eda_report_path})

BaselineRunnerWrites(r) ==
    /\ Readable({<<"bdesign", 0>>, Folds})
    /\ Writes(r, <<"bresults", 0>>, {<<"bdesign", 0>>, Folds})

SolutionArchitectWrites(r) ==
    Writes(r, <<"plan", At(r)>>, {lab[r].baseline_results_path})

FeatureEngineerWrites(r) ==
    Writes(r, <<"spec", At(r)>>, {lab[r].solution_plan_path, lab[r].eda_report_path})

\* resolve_feature_spec_ref
FeatureSpecRef(r) ==
    IF lab[r].feature_spec_path = NoPath THEN <<"spec", At(r)>>
    ELSE lab[r].feature_spec_path

\* _build_base_experiments: the OOF files of every entry of the index.
BaseExperiments(r) ==
    {<<"exp", lab[r].experiments[j]>> : j \in 1..Len(lab[r].experiments)}

\* _should_ensemble: the plan's strategy may refuse an ensemble, two entries
\* are needed for one.
MayEnsemble(r) == Len(lab[r].experiments) >= 2

\* The specialist writes the design; the selector read problem and plan.
SpecialistWrites(r) ==
    \E ensemble \in {FALSE} \cup {MayEnsemble(r)} :
        Writes(r, <<"design", At(r)>>,
               {lab[r].problem_definition_path, lab[r].solution_plan_path,
                lab[r].validation_config_path}
                 \cup (IF ensemble THEN BaseExperiments(r) ELSE {}))

CoderWrites(r) ==
    Writes(r, <<"exp", At(r)>>,
           {<<"design", At(r)>>, FeatureSpecRef(r), lab[r].validation_config_path,
            <<"bdesign", 0>>})

\* Mutant: the first index entry.
EvaluatedIterationFirst(r) ==
    IF lab[r].experiments # <<>> THEN lab[r].experiments[1] ELSE At(r)

\* candidate_experiment_dirs: the directory of the last index entry, else that
\* of the current iteration.
EvaluatedIteration(r) ==
    IF lab[r].experiments # <<>> THEN lab[r].experiments[Len(lab[r].experiments)]
    ELSE At(r)

ScoreEvaluatorWrites(r) ==
    Writes(r, <<"score", EvaluatedIteration(r)>>,
           {<<"exp", EvaluatedIteration(r)>>, lab[r].problem_definition_path})

ImportanceExtractorWrites(r) ==
    Writes(r, <<"importance", EvaluatedIteration(r)>>,
           {<<"exp", EvaluatedIteration(r)>>, <<"design", EvaluatedIteration(r)>>})

\* experiment_dir of a score evaluation: where its results came from.
ExperimentDirOf(score) == {g[2] : g \in {h \in DOMAIN files[score].saw : h[1] = "exp"}}

ErrorAnalystWrites(r) ==
    Writes(r, <<"diagnosis", At(r)>>,
           {<<"score", At(r)>>, <<"importance", At(r)>>}
             \cup {<<k, d>> : k \in {"exp", "design"},
                              d \in ExperimentDirOf(<<"score", At(r)>>)})

HypothesisGeneratorWrites(r) ==
    Writes(r, <<"hypotheses", At(r)>>, {<<"diagnosis", At(r)>>})

ExperimentDesignerWrites(r) ==
    Writes(r, <<"next_plan", At(r)>>, {<<"hypotheses", At(r)>>, <<"diagnosis", At(r)>>})

\* Mutant: experiment_designer has not counted the iteration yet.
PreviousIterationSame(r) == At(r)

\* experiment_designer has counted the iteration that delivery reports on.
PreviousIteration(r) == At(r) - 1

\* The directories delivery looks into, the best one only when there is one.
ExperimentDirs(r) ==
    {lab[r].best_experiment_path, <<"exp", PreviousIteration(r)>>} \ {NoPath}

\* _candidate_paths, what is missing shown as such.
ReviewerWrites(r) ==
    Writes(r, <<"review", 0>>, SourceFiles \cup ExperimentDirs(r))

ReportWriterWrites(r) ==
    Writes(r, <<"report", 0>>,
           {lab[r].problem_definition_path, <<"review", 0>>}
             \cup ({"score", "diagnosis", "hypotheses"} \X {PreviousIteration(r)}))

\* _resolve_submission: the first directory that holds a submission file, if
\* any does; an experiment need not have written one.
KaggleClientWrites(r) ==
    \E found \in {{}} \cup {{d} : d \in ExperimentDirs(r)} :
        Writes(r, <<"submission", 0>>, found \cup {<<"score", PreviousIteration(r)>>})

-----------------------------------------------------------------------------
(* Running the graph                                                       *)

Executes(r, n) == status[r] = "running" /\ n \in todo[r]

\* The node has returned: the rest of the superstep is still at work, or the
\* next superstep begins, or the phase is over and the next one begins, behind
\* a checkpoint where the phase has one.
Finish(r, n) ==
    LET done == ran[r] \cup {n}
        next_step == Successors(phase[r], done)
        next_phase == Route(phase[r], At(r), lab[r].iterations_without_improvement,
                            MaxIterations)
    IN  \/ /\ todo[r] # {n}
           /\ todo' = [todo EXCEPT ![r] = todo[r] \ {n}]
           /\ ran' = [ran EXCEPT ![r] = done]
           /\ UNCHANGED <<phase, status>>
        \/ /\ todo[r] = {n} /\ next_step # {}
           /\ todo' = [todo EXCEPT ![r] = next_step]
           /\ ran' = [ran EXCEPT ![r] = {}]
           /\ UNCHANGED <<phase, status>>
        \/ /\ todo[r] = {n} /\ next_step = {}
           /\ phase' = [phase EXCEPT ![r] = next_phase]
           /\ todo' = [todo EXCEPT ![r] = IF next_phase = END THEN {} ELSE Entry(next_phase)]
           /\ ran' = [ran EXCEPT ![r] = {}]
           /\ status' = [status EXCEPT ![r] =
                 IF next_phase = END THEN "completed"
                 ELSE IF phase[r] \in InterruptAfter THEN "paused" ELSE "running"]

\* A node that returns no path and no counter.
Returns(r, n) ==
    /\ Executes(r, n)
    /\ Finish(r, n)
    /\ UNCHANGED <<lab, reruns, budget>>

\* A node that does.
ReturnsLab(r, n, new_lab) ==
    /\ Executes(r, n)
    /\ lab' = [lab EXCEPT ![r] = new_lab]
    /\ Finish(r, n)
    /\ UNCHANGED <<reruns, budget>>

DataAnalyst(r) ==
    /\ DataAnalystWrites(r)
    /\ ReturnsLab(r, "data_analyst", [lab[r] EXCEPT !.eda_report_path = Eda])

ProblemFramer(r) ==
    /\ ProblemFramerWrites(r)
    /\ ReturnsLab(r, "problem_framer",
                  [lab[r] EXCEPT !.problem_definition_path = Problem])

ValidationStrategist(r) ==
    /\ ValidationStrategistWrites(r)
    /\ ReturnsLab(r, "validation_strategist",
                  [lab[r] EXCEPT !.validation_config_path = Folds])

LeakageAuditor(r) == LeakageAuditorWrites(r) /\ Returns(r, "leakage_auditor")

LiteratureResearcher(r) ==
    LiteratureResearcherWrites(r) /\ Returns(r, "literature_researcher")

WebResearcher(r) == WebResearcherWrites(r) /\ Returns(r, "web_researcher")

CompetitionAnalyst(r) ==
    CompetitionAnalystWrites(r) /\ Returns(r, "competition_analyst")

MemoryManager(r) == MemoryManagerWrites(r) /\ Returns(r, "memory_manager")

BaselineDesigner(r) == BaselineDesignerWrites(r) /\ Returns(r, "baseline_designer")

BaselineRunner(r) ==
    /\ BaselineRunnerWrites(r)
    /\ ReturnsLab(r, "baseline_runner",
                  [lab[r] EXCEPT !.baseline_results_path = <<"bresults", 0>>])

SolutionArchitect(r) ==
    /\ SolutionArchitectWrites(r)
    /\ ReturnsLab(r, "solution_architect",
                  [lab[r] EXCEPT !.solution_plan_path = <<"plan", At(r)>>])

FeatureEngineer(r) ==
    /\ FeatureEngineerWrites(r)
    /\ ReturnsLab(r, "feature_engineer",
                  [lab[r] EXCEPT !.feature_spec_path = <<"spec", At(r)>>])

SpecialistSelector(r) == SpecialistWrites(r) /\ Returns(r, "specialist_selector")

Coder(r) ==
    /\ CoderWrites(r)
    /\ ReturnsLab(r, "coder",
                  [lab[r] EXCEPT !.experiments = Append(lab[r].experiments, At(r))])

\* The score is an improvement, or it is none, or the results hold no score.
ScoreEvaluator(r) ==
    /\ ScoreEvaluatorWrites(r)
    /\ \/ /\ At(r) < LastImprovement
          /\ ReturnsLab(r, "score_evaluator",
               [lab[r] EXCEPT !.best_experiment_path = <<"exp", EvaluatedIteration(r)>>,
                              !.iterations_without_improvement = 0])
       \/ ReturnsLab(r, "score_evaluator",
            [lab[r] EXCEPT !.iterations_without_improvement =
                             lab[r].iterations_without_improvement + 1])

FeatureImportanceExtractor(r) ==
    ImportanceExtractorWrites(r) /\ Returns(r, "feature_importance_extractor")

ErrorAnalyst(r) == ErrorAnalystWrites(r) /\ Returns(r, "error_analyst")

HypothesisGenerator(r) ==
    HypothesisGeneratorWrites(r) /\ Returns(r, "hypothesis_generator")

ExperimentDesigner(r) ==
    /\ ExperimentDesignerWrites(r)
    /\ ReturnsLab(r, "experiment_designer",
                  [lab[r] EXCEPT !.current_iteration = At(r) + 1])

Reviewer(r) == ReviewerWrites(r) /\ Returns(r, "reviewer")

ReportWriter(r) == ReportWriterWrites(r) /\ Returns(r, "report_writer")

KaggleClient(r) == KaggleClientWrites(r) /\ Returns(r, "kaggle_client")

-----------------------------------------------------------------------------
(* The critics                                                             *)

CriticNode(r) ==
    IF phase[r] = "phase5_implementation" THEN "code_critic" ELSE "analysis_critic"

\* What the critic's prompt shows: the outputs of its targets.
Reviewed(r) ==
    CASE phase[r] = "phase1_understanding" ->
           {lab[r].eda_report_path, lab[r].problem_definition_path,
            lab[r].validation_config_path, <<"leakage", 0>>}
      [] phase[r] = "phase4_design" ->
           {lab[r].solution_plan_path, lab[r].feature_spec_path}
      [] OTHER ->
           {<<"exp", EvaluatedIteration(r)>>, <<"design", EvaluatedIteration(r)>>,
            lab[r].validation_config_path}

\* _detect_phase_stem and the output patterns of both critics.
VerdictFile(r) ==
    IF CriticNode(r) = "code_critic" THEN <<"code_verdicts", At(r)>>
    ELSE IF lab[r].feature_spec_path # NoPath THEN <<"verdicts4", At(r)>>
    ELSE <<"verdicts1", 0>>

Rewrites(r, target) ==
    \/ target = "data_analyst" /\ DataAnalystWrites(r)
    \/ target = "problem_framer" /\ ProblemFramerWrites(r)
    \/ target = "leakage_auditor" /\ LeakageAuditorWrites(r)
    \/ target = "solution_architect" /\ SolutionArchitectWrites(r)
    \/ target = "feature_engineer" /\ FeatureEngineerWrites(r)
    \/ target = "coder" /\ CoderWrites(r)

\* "iterate": the target alone is called again.  What it returns reaches the
\* critic's working state only, and names the paths LabState holds already.
CriticReruns(r, target) ==
    /\ Executes(r, CriticNode(r))
    /\ target \in CriticTargets(phase[r])
    /\ budget[r] > 0
    /\ Rewrites(r, target)
    /\ reruns' = [reruns EXCEPT ![r] = reruns[r] \cup {target}]
    /\ budget' = [budget EXCEPT ![r] = budget[r] - 1]
    /\ UNCHANGED <<status, phase, todo, ran, lab>>

\* Mutant: the record names the last verdict only.
CriticForgets(r) ==
    /\ Put(r, VerdictFile(r), Reviewed(r), {})
    /\ Executes(r, CriticNode(r))
    /\ Finish(r, CriticNode(r))
    /\ reruns' = [reruns EXCEPT ![r] = {}]
    /\ UNCHANGED <<lab, budget>>

\* A pass, forced or not; a rerun of validation_strategist is one, since the
\* folds are frozen.  The record holds every attempt.
CriticPasses(r) ==
    /\ Put(r, VerdictFile(r), Reviewed(r), reruns[r])
    /\ Executes(r, CriticNode(r))
    /\ Finish(r, CriticNode(r))
    /\ reruns' = [reruns EXCEPT ![r] = {}]
    /\ UNCHANGED <<lab, budget>>

-----------------------------------------------------------------------------
(* Runs                                                                    *)

Idle == \A r \in Runs : status[r] # "running"

\* create_run
Start(r) ==
    /\ Idle
    /\ status[r] = "new"
    /\ status' = [status EXCEPT ![r] = "running"]
    /\ todo' = [todo EXCEPT ![r] = Entry("phase1_understanding")]
    /\ UNCHANGED <<phase, ran, lab, reruns, budget, files>>

\* do_resume
Resume(r) ==
    /\ Idle
    /\ status[r] = "paused"
    /\ status' = [status EXCEPT ![r] = "running"]
    /\ UNCHANGED <<phase, todo, ran, lab, reruns, budget, files>>

\* A node raises, its reply is refused, or the server dies: the run is over,
\* its files stay.  What a critic at work has called again is forgotten, since
\* it writes its record when it is done.
Fail(r) ==
    /\ status[r] = "running"
    /\ status' = [status EXCEPT ![r] = "failed"]
    /\ reruns' = [reruns EXCEPT ![r] = {}]
    /\ UNCHANGED <<phase, todo, ran, lab, budget, files>>

NodeStep(r) ==
    \/ DataAnalyst(r) \/ ProblemFramer(r) \/ ValidationStrategist(r) \/ LeakageAuditor(r)
    \/ LiteratureResearcher(r) \/ WebResearcher(r) \/ CompetitionAnalyst(r)
    \/ MemoryManager(r) \/ BaselineDesigner(r) \/ BaselineRunner(r)
    \/ SolutionArchitect(r) \/ FeatureEngineer(r) \/ SpecialistSelector(r) \/ Coder(r)
    \/ ScoreEvaluator(r) \/ FeatureImportanceExtractor(r) \/ ErrorAnalyst(r)
    \/ HypothesisGenerator(r) \/ ExperimentDesigner(r)
    \/ Reviewer(r) \/ ReportWriter(r) \/ KaggleClient(r)
    \/ CriticPasses(r) \/ \E target \in CriticTargets(phase[r]) : CriticReruns(r, target)

Next == \E r \in Runs : NodeStep(r) \/ Start(r) \/ Resume(r) \/ Fail(r)

Spec == Init /\ [][Next]_vars

-----------------------------------------------------------------------------
(* Properties                                                              *)

\* The frozen folds guard the workspace: they are written once, and whatever
\* else lies in the workspace is the work of the run that wrote them, but for
\* the two reports written before them (the notebook goes with the first),
\* which any later run may overwrite before the folds stop it (FoldsAlreadyFrozenError).
FoldsGuardWorkspace ==
    /\ files[Folds].ver <= 1
    /\ \A f \in Names \ {Eda, Problem} :
         Present(f) => Present(Folds) /\ files[f].by = files[Folds].by

\* The node that writes a file of this kind when a critic asks for it.
Author(kind) ==
    CASE kind = "eda" -> "data_analyst"
      [] kind = "problem" -> "problem_framer"
      [] kind = "leakage" -> "leakage_auditor"
      [] kind = "plan" -> "solution_architect"
      [] kind = "spec" -> "feature_engineer"
      [] kind = "exp" -> "coder"
      [] OTHER -> "nobody"

\* The record of the critic that may have asked for g again.
Record(g) ==
    CASE g[1] \in {"plan", "spec"} -> <<"verdicts4", g[2]>>
      [] g[1] = "exp" -> <<"code_verdicts", g[2]>>
      [] OTHER -> <<"verdicts1", 0>>

\* The critic at r's phase may have asked for g again and has not come to its
\* record: it is at work, or the run failed in its hands.
Unrecorded(r, g) ==
    /\ Author(g[1]) \in CriticTargets(phase[r])
    /\ Record(g) = VerdictFile(r)
    /\ \/ Author(g[1]) \in reruns[r]
       \/ status[r] = "failed" /\ CriticNode(r) \in todo[r]

Rerun(r, g) ==
    \/ Author(g[1]) \in files[Record(g)].reran
    \/ Unrecorded(r, g) /\ ~Present(Record(g))

\* Every node finds the files it reads, of those that some node writes, and
\* nothing it read is outdated afterwards without an explanation: another run
\* began in the workspace and replaced the file, or a critic of its own run had
\* it made again, and the record of that critic names the node, or there is no
\* record because the critic is still at work or failed at it.
NoStaleReads ==
    \A f \in Names : Present(f) =>
        \A g \in DOMAIN files[f].saw \ SourceFiles :
            /\ files[f].saw[g] > 0
            /\ \/ files[f].saw[g] = files[g].ver
               \/ files[g].by # files[f].by
               \/ Rerun(files[f].by, g)

\* Everything that belongs to an iteration was made from files of the same
\* iteration, an ensemble's bases apart, which are the earlier experiments,
\* each once; and delivery speaks of the last iteration that was evaluated.
IterationsDoNotMix ==
    \A f \in Names : Present(f) =>
        LET read == {g \in DOMAIN files[f].saw : g[1] \in IterationKinds}
            others == {g \in read : g[2] # f[2]}
        IN  /\ f[1] = "design" => others \in {{}, {"exp"} \X (0..(f[2] - 1))}
            /\ f[1] \in IterationKinds \ {"design"} => others = {}
            /\ f[1] \in {"report", "review", "submission"} =>
                 \A g \in Names : g[1] = "score" /\ Present(g) =>
                     \E h \in read : h[2] >= g[2]

\* Once a run has gone on to the next iteration, what the past ones left on
\* disk is final, whatever the run or another one does.
PastIterationsAreFinal ==
    [][\A f \in Names, r \in Runs :
         f[1] \in IterationKinds /\ files[f].by = r /\ f[2] < At(r) =>
             files'[f] = files[f]]_vars

\* Why FoldsGuardWorkspace holds: phase 1 is a chain, and whoever is beyond
\* its first three nodes has frozen the folds itself.
Early(r) ==
    /\ phase[r] = "phase1_understanding"
    /\ todo[r] \subseteq {"data_analyst", "problem_framer", "validation_strategist"}

Froze(r) == Present(Folds) /\ files[Folds].by = r

Chained(r) ==
    phase[r] = "phase1_understanding" =>
        ran[r] = {} /\ \A m, n \in todo[r] : m = n

IInv ==
    /\ DOMAIN files = Names /\ DOMAIN phase = Runs
    /\ DOMAIN todo = Runs /\ DOMAIN ran = Runs
    /\ \A f \in Names : files[f].ver \in Nat
    /\ FoldsGuardWorkspace
    /\ \A r \in Runs : Chained(r) /\ (Early(r) \/ Froze(r))

\* Why the other three hold.  A run is at one of 25 places: the nodes in the
\* order they first run in, the two of the parallel block being one, and the
\* end.
Stations == <<
    "data_analyst", "problem_framer", "validation_strategist", "leakage_auditor",
    "analysis_critic", "literature_researcher", "competition_analyst",
    "memory_manager", "baseline_designer", "baseline_runner",
    "solution_architect", "feature_engineer", "analysis_critic",
    "specialist_selector", "coder", "code_critic",
    "score_evaluator", "feature_importance_extractor", "error_analyst",
    "hypothesis_generator", "experiment_designer",
    "reviewer", "report_writer", "kaggle_client">>

Places == 1..25

PhaseAt(p) ==
    IF p <= 5 THEN "phase1_understanding"
    ELSE IF p <= 8 THEN "phase2_research"
    ELSE IF p <= 10 THEN "phase3_baseline"
    ELSE IF p <= 13 THEN "phase4_design"
    ELSE IF p <= 16 THEN "phase5_implementation"
    ELSE IF p <= 21 THEN "phase6_evaluation"
    ELSE IF p <= 24 THEN "phase7_delivery"
    ELSE END

Researchers == {"literature_researcher", "web_researcher"}

AtPlace(r, p) ==
    /\ phase[r] = PhaseAt(p)
    /\ status[r] = "new" => p = 1
    /\ reruns[r] # {} => p \in {5, 13, 16}
    /\ IF p = 6
       THEN todo[r] # {} /\ todo[r] \cup ran[r] = Researchers /\ todo[r] \cap ran[r] = {}
       ELSE /\ ran[r] = {}
            /\ todo[r] = IF p = 25 \/ status[r] = "new" THEN {} ELSE {Stations[p]}

\* What LabState says there.
PathOf(kind, r, p, station) ==
    IF station < p /\ p <= 21 THEN <<kind, At(r)>>
    ELSE IF At(r) > 0 THEN <<kind, At(r) - 1>>
    ELSE NoPath

LabAt(r, p) ==
    LET l == lab[r]
        scored == 17 < p /\ p <= 21
        runs == IF 15 < p /\ p <= 21 THEN At(r) + 1 ELSE At(r)
    IN  /\ DOMAIN l = DOMAIN NewLab
        /\ l.eda_report_path = IF p > 1 THEN Eda ELSE NoPath
        /\ l.problem_definition_path = IF p > 2 THEN Problem ELSE NoPath
        /\ l.validation_config_path = IF p > 3 THEN Folds ELSE NoPath
        /\ l.baseline_results_path = IF p > 10 THEN <<"bresults", 0>> ELSE NoPath
        /\ l.solution_plan_path = PathOf("plan", r, p, 11)
        /\ l.feature_spec_path = PathOf("spec", r, p, 12)
        /\ l.experiments = [j \in 1..runs |-> j - 1]
        /\ \/ l.best_experiment_path = NoPath
           \/ /\ scored \/ At(r) > 0
              /\ \E i \in 0..(runs - 1) : l.best_experiment_path = <<"exp", i>>
        /\ At(r) \in Nat
        /\ p <= 10 => At(r) = 0
        /\ p > 21 => At(r) > 0
        /\ l.iterations_without_improvement \in 0..MaxIterations
        /\ p <= 17 => l.iterations_without_improvement < MaxIterations
        /\ At(r) + (IF scored THEN 1 ELSE 0)
             <= LastImprovement + l.iterations_without_improvement

\* And which files lie in the workspace of a run that froze the folds.
StationOf == [
    folds |-> 3, leakage |-> 4, verdicts1 |-> 5, literature |-> 6, web |-> 6,
    competition |-> 7, memory |-> 8, bdesign |-> 9, bresults |-> 10,
    plan |-> 11, spec |-> 12, verdicts4 |-> 13, design |-> 14, exp |-> 15,
    code_verdicts |-> 16, score |-> 17, importance |-> 18, diagnosis |-> 19,
    hypotheses |-> 20, next_plan |-> 21, review |-> 22, report |-> 23,
    submission |-> 24]

Written(r, p, f) ==
    CASE f[1] \in IterationKinds ->
           f[2] < At(r) \/ (f[2] = At(r) /\ StationOf[f[1]] < p /\ p <= 21)
      [] p = 6 /\ f[1] = "literature" -> "literature_researcher" \in ran[r]
      [] p = 6 /\ f[1] = "web" -> "web_researcher" \in ran[r]
      [] OTHER -> StationOf[f[1]] < p

FilesAt(r, p) ==
    /\ p > 1 => Present(Eda)
    /\ p > 2 => Present(Problem)
    /\ Froze(r) <=> p > 3
    /\ p > 3 => \A f \in Names \ {Eda, Problem} : Present(f) <=> Written(r, p, f)
    /\ p <= 2 => \A f \in Names : Present(f) /\ files[f].by = r => DOMAIN files[f].saw = {}

\* NoStaleReads with what makes it last: a version that was read was there,
\* and a critic at work will name the nodes it ran again in its own record,
\* unless it fails.
ReadsTraced ==
    \A f \in Names :
        /\ ~Present(f) => files[f].reran = {}
        /\ Present(f) => \A g \in DOMAIN files[f].saw \ SourceFiles :
             /\ g \in Names
             /\ files[f].saw[g] \in 1..files[g].ver
             /\ \/ files[f].saw[g] = files[g].ver
                \/ files[g].by # files[f].by
                \/ Author(g[1]) \in files[Record(g)].reran
                \/ Unrecorded(files[f].by, g)

TraceInv ==
    /\ IInv
    /\ DOMAIN status = Runs /\ DOMAIN lab = Runs /\ DOMAIN reruns = Runs
    /\ \A f \in Names : Present(f) => files[f].by \in Runs
    /\ \A r \in Runs : \E p \in Places : AtPlace(r, p) /\ LabAt(r, p) /\ FilesAt(r, p)
    /\ ReadsTraced
    /\ IterationsDoNotMix
=============================================================================
