------------------------------ MODULE Contracts ------------------------------
(***************************************************************************)
(* What the pipeline lets a language model decide.  A node's reply is free *)
(* text; what is written to the workspace is what the node's validator     *)
(* (src/nodes/llm/_experiment_design.py, _evaluation_llm_common.py and the *)
(* node modules) made of it, and a reply it refuses is a ValueError, which *)
(* ends the run.  The nodes come one after another, iteration by           *)
(* iteration, and one of them decides which specialist designs the next    *)
(* experiment.                                                             *)
(*                                                                         *)
(* A reply is a record of the fields its validator looks at.  A JSON value *)
(* is a pair of its kind and an integer, the number's value in the unit    *)
(* the model counts in; what is no number carries 0.                       *)
(***************************************************************************)
EXTENDS Integers, Sequences, FiniteSets

CONSTANTS
    Problems, FoldConfigs, Leakages, Baselines, Plans, Specs, Designs,
    Diagnoses, HypothesisLists, ChangeLists,    \* replies of the nodes
    Families,        \* families each specialist supports
    UsableNames,     \* keys that _PARAM_NAME_RE matches
    ForbiddenCvKeys, \* FORBIDDEN_CV_KEYS
    FittedAs,        \* families of fitted techniques an operation's spelling names
    MaxExact,        \* _MAX_EXACT_INT
    Slack,           \* _STEP_RANGE_TOLERANCE is 1 + 1 / Slack
    LastIteration    \* bound: the run ends behind this iteration

VARIABLES
    stage,     \* the node whose reply comes next, "failed" or "completed"
    iteration, \* current_iteration
    signals,   \* keyword groups problem_definition.json speaks of
    plan,      \* solution_plan.json
    oof,       \* the OOF file of each entry of state["experiments"]
    artifact   \* the file written last: its kind and its content

vars == <<stage, iteration, signals, plan, oof, artifact>>

Kinds == {"int", "float", "bool", "text", "null", "nan", "object", "absent"}
Json == [kind : Kinds, value : Int]
Absent == [kind |-> "absent", value |-> 0]

ParamSpec == [type : {"int", "float", "categorical", "other"}, low : Json, high : Json,
              log : Json, step : Json, choices : Seq(Json)]

ASSUME LimitsAssumption == MaxExact \in Nat /\ Slack \in Nat \ {0} /\ LastIteration \in Nat

\* What a design reply may be, whatever the model wrote.
ASSUME DesignsAssumption ==
    \A d \in Designs :
        /\ d.space \in [DOMAIN d.space -> ParamSpec]
        /\ d.fixed \in [DOMAIN d.fixed -> Seq(Json)]

ASSUME PlansAssumption == \A p \in Plans : p.order \in Seq(STRING \X STRING)

-----------------------------------------------------------------------------
(* JSON                                                                    *)

\* extract_json_object: an object, in a fence or not.
Parses(form) == form \in {"object", "fenced"}

\* The specialists and the evaluation nodes also look for an object between
\* the outermost braces of a text.
Salvages(form) == form \in {"object", "fenced", "prose"}

Numeric(j) == j.kind \in {"int", "float", "bool"}

\* Python's ==: 1, 1.0 and true are equal.
Same(a, b) == IF Numeric(a) /\ Numeric(b) THEN a.value = b.value ELSE a = b

Exact(j) == -MaxExact <= j.value /\ j.value <= MaxExact

\* is_json_scalar
Scalar(j) ==
    \/ j.kind \in {"null", "text", "bool", "float"}
    \/ j.kind = "int" /\ Exact(j)

\* validate_rank_permutation
RankPermutation(entries) ==
    {entries[i].rank : i \in 1..Len(entries)} = 1..Len(entries)

\* Mutant: the entries stay as the model listed them.
AsListed(entries) == entries

\* sorted(..., key=rank): entries of one rank keep their order.
RunsBefore(entries, k, j) ==
    \/ entries[k].rank < entries[j].rank
    \/ entries[k].rank = entries[j].rank /\ k < j

\* Python counts from 0: an entry's place is the number of entries before it.
Place(entries, j) == Cardinality({k \in 1..Len(entries) : RunsBefore(entries, k, j)})

Ranked(entries) ==
    [i \in 1..Len(entries) |->
        entries[CHOOSE j \in 1..Len(entries) : Place(entries, j) = i - 1]]

-----------------------------------------------------------------------------
(* Phases 1 to 3                                                           *)

\* _validate_problem_definition, _validate_leakage_audit, and the checks of
\* baseline_designer: its features are "all" or a list without the target.
ValidProblem(p) == p.problem_type # "blank" /\ p.success_metric # "blank"

ValidLeakage(l) == l.severity # "blank" /\ l.blocks_progression.kind = "bool"

ValidBaseline(b) ==
    /\ b.model # "blank" /\ b.target # "blank"
    /\ b.target \notin b.features

\* _validate_fold_config_shape.  That the validation rows of the folds cover
\* the data, or do not overlap, is not asked.
ValidFolds(c) ==
    /\ c.n_folds.kind = "int" /\ c.n_folds.value > 0
    /\ c.seed.kind = "int"
    /\ Len(c.fold_indices) = c.n_folds.value
    /\ \A i \in 1..Len(c.fold_indices) :
         LET fold == c.fold_indices[i]
         IN  /\ fold.train # {} /\ fold.val # {}
             /\ \A row \in fold.train \cup fold.val : row >= 0
             /\ fold.train \cap fold.val = {}

-----------------------------------------------------------------------------
(* Phase 4                                                                 *)

\* v.strip().lower(): a name is a pair of what it names and how it is spelt.
Normalized(names) == {names[i][1] : i \in 1..Len(names)}

\* _has_normalized_duplicates
Distinct(names) == Cardinality(Normalized(names)) = Len(names)

\* _validate_solution_plan
ValidPlan(p) ==
    /\ Len(p.model_families) \in 2..4
    /\ Distinct(p.model_families) /\ Distinct(p.order)
    /\ Normalized(p.order) = Normalized(p.model_families)
    /\ p.ensembling_strategy # "blank"
    /\ p.target_score.kind \in {"int", "float"}

\* _matched_fit_scope_family, over both readings of the operation's spelling.
Fitted(operation) == FittedAs[operation] # {}

\* _validate_feature_entry
ValidFeature(f) ==
    /\ f.columns # <<>>
    /\ \A i, j \in 1..Len(f.columns) : f.columns[i] = f.columns[j] => i = j
    /\ \A i \in 1..Len(f.params) : Scalar(f.params[i])
    /\ f.fit_scope \in {"per_fold", "global"}
    /\ Fitted(f.operation) => f.fit_scope = "per_fold"

\* _validate_features: coder derives one column from each entry.
ValidSpec(features) ==
    /\ \A i \in 1..Len(features) : ValidFeature(features[i])
    /\ \A i, j \in 1..Len(features) :
         /\ features[i].columns = features[j].columns
         /\ features[i].operation = features[j].operation
         => i = j

-----------------------------------------------------------------------------
(* Experiment designs                                                      *)

\* _validate_numeric
ValidNumeric(j, type) ==
    \/ j.kind = "int" /\ Exact(j)
    \/ j.kind = "float" /\ type = "float"

\* _validate_log
ValidLog(p) ==
    \/ p.log = Absent
    \/ /\ p.log.kind = "bool"
       /\ p.log.value = 1 => p.low.value > 0 /\ p.step = Absent

\* Mutant: the step is compared with the upper bound.
StepBelowHigh(p) == p.step.value * Slack <= p.high.value * (Slack + 1)

\* step > (high - low) * _STEP_RANGE_TOLERANCE is refused.
StepWithinRange(p) ==
    p.step.value * Slack <= (p.high.value - p.low.value) * (Slack + 1)

ValidStep(p) ==
    \/ p.step = Absent
    \/ ValidNumeric(p.step, p.type) /\ p.step.value > 0 /\ StepWithinRange(p)

\* _validate_numeric_param
ValidNumericParam(p) ==
    /\ ValidNumeric(p.low, p.type) /\ ValidNumeric(p.high, p.type)
    /\ p.low.value < p.high.value
    /\ ValidLog(p) /\ ValidStep(p)

\* _validate_choices
ValidChoices(choices) ==
    /\ choices # <<>>
    /\ \A i \in 1..Len(choices) : Scalar(choices[i])
    /\ \A i, j \in 1..Len(choices) : Same(choices[i], choices[j]) => i = j

\* _validate_param_spec
ValidParam(p) ==
    \/ p.type = "categorical" /\ ValidChoices(p.choices)
    \/ p.type \in {"int", "float"} /\ ValidNumericParam(p)

\* normalize_model_family: exactly one family is named.
NamesFamily(d, specialist, family) ==
    d.model_family \cap Families[specialist] = {family}

\* validate_experiment_design
ValidDesign(d, specialist) ==
    /\ (d.keys \cup DOMAIN d.space \cup DOMAIN d.fixed) \cap ForbiddenCvKeys = {}
    /\ \E family \in Families[specialist] : NamesFamily(d, specialist, family)
    /\ DOMAIN d.space # {}
    /\ DOMAIN d.space \cup DOMAIN d.fixed \subseteq UsableNames
    /\ \A name \in DOMAIN d.space : ValidParam(d.space[name])
    /\ \A name \in DOMAIN d.fixed :
         \A i \in 1..Len(d.fixed[name]) : Scalar(d.fixed[name][i])
    /\ d.preprocessing \subseteq {"step"}
    /\ DOMAIN d.space \cap DOMAIN d.fixed = {}

\* _build_base_experiments: every entry of the index with its OOF file.
BaseExperiments ==
    [j \in 1..Len(oof) |-> [experiment_id |-> j - 1, oof_path |-> oof[j]]]

\* Mutant: two entries may share a file.
SomeBases(bases) == bases # <<>>

\* _validate_base_experiments
ValidBases(bases) ==
    /\ bases # <<>>
    /\ \A i, j \in 1..Len(bases) : bases[i].oof_path = bases[j].oof_path => i = j

-----------------------------------------------------------------------------
(* specialist_selector                                                     *)

\* _should_ensemble
ShouldEnsemble ==
    /\ Len(oof) >= 2
    /\ plan.ensembling_strategy = "some"

\* _build_signal_blob and _select_by_signal: the first group that matches.
SelectBySignal ==
    LET blob == signals \cup plan.signals
    IN  IF "timeseries" \in blob THEN "timeseries_specialist"
        ELSE IF "nlp" \in blob THEN "nlp_specialist"
        ELSE IF "deep_learning" \in blob THEN "deep_learning_specialist"
        ELSE "classical_ml_specialist"

Chosen == IF ShouldEnsemble THEN "ensemble_specialist" ELSE SelectBySignal

-----------------------------------------------------------------------------
(* Phase 6                                                                 *)

\* _validate_diagnosis
ValidDiagnosis(d) ==
    /\ d.root_cause # "other"
    /\ d.confidence.kind \in {"int", "float"} /\ d.confidence.value \in 0..1
    /\ d.evidence \in 1..8

\* _validate_hypotheses; ids compare by their lower-case text.
ValidHypotheses(hs) ==
    /\ Len(hs) \in 1..5
    /\ \A i, j \in 1..Len(hs) : hs[i].id[1] = hs[j].id[1] => i = j
    /\ \A i \in 1..Len(hs) : hs[i].impact # "other"
    /\ RankPermutation(hs)

\* _validate_experiment_plan; that a change names a hypothesis is not asked.
ValidChanges(cs) ==
    /\ Len(cs) \in 1..6
    /\ \A i \in 1..Len(cs) : cs[i].target # "other"
    /\ RankPermutation(cs)

-----------------------------------------------------------------------------
(* The nodes                                                               *)

NoPlan == [signals |-> {}, ensembling_strategy |-> "none"]

Init ==
    /\ stage = "problem_framer"
    /\ iteration = 0
    /\ signals = {}
    /\ plan = NoPlan
    /\ oof = <<>>
    /\ artifact = [kind |-> "none", content |-> <<>>]

\* _write_output and the way on to the next node.
Write(node, kind, content, next) ==
    /\ stage = node
    /\ artifact' = [kind |-> kind, content |-> content]
    /\ stage' = next

Unchanged == UNCHANGED <<iteration, signals, plan, oof>>

ProblemFramer == \E p \in Problems, form \in {"object", "fenced", "prose"} :
    /\ Write("problem_framer", "problem", p, "validation_strategist")
    /\ Parses(form) /\ ValidProblem(p)
    /\ signals' = p.signals
    /\ UNCHANGED <<iteration, plan, oof>>

ValidationStrategist == \E c \in FoldConfigs :
    /\ Write("validation_strategist", "folds", c, "leakage_auditor")
    /\ ValidFolds(c)
    /\ Unchanged

\* blocks_progression is written and read by no code.
LeakageAuditor == \E l \in Leakages :
    /\ Write("leakage_auditor", "leakage", l, "baseline_designer")
    /\ ValidLeakage(l)
    /\ Unchanged

BaselineDesigner == \E b \in Baselines :
    /\ Write("baseline_designer", "baseline", b, "solution_architect")
    /\ ValidBaseline(b)
    /\ Unchanged

SolutionArchitect == \E p \in Plans :
    /\ Write("solution_architect", "plan", p, "feature_engineer")
    /\ ValidPlan(p)
    /\ plan' = [signals |-> p.signals, ensembling_strategy |-> p.ensembling_strategy]
    /\ UNCHANGED <<iteration, signals, oof>>

FeatureEngineer == \E features \in Specs :
    /\ Write("feature_engineer", "spec", features, "specialist_selector")
    /\ ValidSpec(features)
    /\ Unchanged

\* The fields every specialist writes; the references are the node's, not the
\* model's.
Design(d, specialist, family, bases) ==
    [specialist |-> specialist, model_family |-> family, search_space |-> d.space,
     fixed_params |-> d.fixed, base_experiments |-> bases]

Specialist == \E d \in Designs, family \in Families[Chosen] :
    /\ Write("specialist_selector", "design", Design(d, Chosen, family, <<>>), "coder")
    /\ Chosen # "ensemble_specialist"
    /\ ValidDesign(d, Chosen) /\ NamesFamily(d, Chosen, family)
    /\ Unchanged

EnsembleSpecialist == \E d \in Designs, family \in Families["ensemble_specialist"] :
    /\ Write("specialist_selector", "design",
             Design(d, Chosen, family, BaseExperiments), "coder")
    /\ Chosen = "ensemble_specialist"
    /\ ValidDesign(d, Chosen) /\ NamesFamily(d, Chosen, family)
    /\ ValidBases(BaseExperiments)
    /\ Unchanged

\* The generated code ran; its results.json may name the OOF file, that of
\* another experiment even (_oof_path_for_experiment).
Coder == \E path \in 0..LastIteration :
    /\ Write("coder", "experiment", path, "error_analyst")
    /\ oof' = Append(oof, path)
    /\ UNCHANGED <<iteration, signals, plan>>

ErrorAnalyst == \E d \in Diagnoses :
    /\ Write("error_analyst", "diagnosis", d, "hypothesis_generator")
    /\ ValidDiagnosis(d)
    /\ Unchanged

HypothesisGenerator == \E hs \in HypothesisLists, form \in {"object", "fenced", "prose"} :
    /\ Write("hypothesis_generator", "hypotheses", Ranked(hs), "experiment_designer")
    /\ Salvages(form) /\ ValidHypotheses(hs)
    /\ Unchanged

ExperimentDesigner == \E cs \in ChangeLists :
    /\ Write("experiment_designer", "changes", Ranked(cs),
             IF iteration < LastIteration THEN "solution_architect" ELSE "completed")
    /\ ValidChanges(cs)
    /\ iteration' = iteration + 1
    /\ UNCHANGED <<signals, plan, oof>>

\* No reply is accepted, or none comes: the ValueError ends the run.
Refused ==
    /\ stage \notin {"failed", "completed"}
    /\ stage' = "failed"
    /\ UNCHANGED <<iteration, signals, plan, oof, artifact>>

Next ==
    \/ ProblemFramer \/ ValidationStrategist \/ LeakageAuditor \/ BaselineDesigner
    \/ SolutionArchitect \/ FeatureEngineer \/ Specialist \/ EnsembleSpecialist
    \/ Coder \/ ErrorAnalyst \/ HypothesisGenerator \/ ExperimentDesigner \/ Refused

Spec == Init /\ [][Next]_vars

-----------------------------------------------------------------------------
(* Properties                                                              *)

\* The points Optuna's suggest_int or suggest_float chooses from: low, and
\* further steps up to high; the step of an int is 1 unless the design names
\* one.
Grid(p) ==
    LET step == IF p.step = Absent THEN 1 ELSE p.step.value
    IN  {x \in p.low.value..p.high.value :
           \E k \in 0..(p.high.value - p.low.value) : x = p.low.value + k * step}

\* What Optuna does with a numeric parameter: nothing it would raise on, and a
\* choice between two points at least, unless the range is so large that the
\* tolerance of the step swallows a whole unit.
Samplable(p) ==
    \/ /\ p.type = "categorical"
       /\ \A i, j \in 1..Len(p.choices) :
            i # j => ~Same(p.choices[i], p.choices[j])
    \/ /\ p.type \in {"int", "float"}
       /\ p.log.kind = "bool" /\ p.log.value = 1 =>
            p.low.value > 0 /\ p.step = Absent
       /\ p.step # Absent => p.step.value > 0
       /\ \/ p.high.value - p.low.value >= Slack
          \/ \E x, y \in Grid(p) : x # y

\* A design that is on disk can be searched: there is something to tune, every
\* parameter has values to choose from that Optuna accepts, none is tuned and
\* fixed at once, and none redefines the cross-validation.
DesignIsSamplable ==
    artifact.kind = "design" =>
        LET d == artifact.content
        IN  /\ DOMAIN d.search_space # {}
            /\ \A name \in DOMAIN d.search_space :
                 Samplable(d.search_space[name]) /\ name \notin DOMAIN d.fixed_params
            /\ (DOMAIN d.search_space \cup DOMAIN d.fixed_params) \cap ForbiddenCvKeys = {}

\* An ensemble's design reads the predictions of every earlier iteration, each
\* from a file of its own, and there are at least two of them.
EnsembleReadsEachExperiment ==
    artifact.kind = "design" /\ artifact.content.specialist = "ensemble_specialist" =>
        LET bases == artifact.content.base_experiments
        IN  /\ Len(bases) = iteration /\ iteration >= 2
            /\ \A i \in 1..Len(bases) : bases[i].experiment_id = i - 1
            /\ Cardinality({bases[i].oof_path : i \in 1..Len(bases)}) = iteration

\* The index has an entry of every iteration whose experiment has run.
IndexGrows ==
    /\ iteration \in Nat /\ oof \in Seq(Int)
    /\ stage \notin {"error_analyst", "hypothesis_generator", "experiment_designer",
                     "failed"} => Len(oof) = iteration
    /\ stage \in {"error_analyst", "hypothesis_generator", "experiment_designer"} =>
         Len(oof) = iteration + 1
    /\ artifact.kind = "design" => stage \in {"coder", "failed"}

\* The inductive invariant of the designs.
IInv == IndexGrows /\ DesignIsSamplable /\ EnsembleReadsEachExperiment

\* Whatever order the model listed them in, hypotheses and changes are read in
\* the order of their ranks, without a gap and without a tie, and the order of
\* a plan gives every model family exactly one place.
RankedInOrder ==
    /\ artifact.kind \in {"hypotheses", "changes"} =>
         \A i \in 1..Len(artifact.content) : artifact.content[i].rank = i
    /\ artifact.kind = "plan" =>
         LET p == artifact.content
         IN  \A i \in 1..Len(p.model_families) :
               \E k \in 1..Len(p.order) : \A l \in 1..Len(p.order) :
                 p.order[l][1] = p.model_families[i][1] <=> l = k
=============================================================================
