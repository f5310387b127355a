----------------------------- MODULE PhaseGraph -----------------------------
(***************************************************************************)
(* The phases of config/phases/*.yaml and the graphs built from them:      *)
(* build_phase_subgraph (src/graph/phases/generic.py) turns the sequence   *)
(* and the parallel_nodes of a phase into edges, build_graph               *)
(* (src/graph/builder.py) chains the phases.  LangGraph runs a graph in    *)
(* supersteps: the nodes of a superstep run concurrently, and the targets  *)
(* of their edges are the next superstep.                                  *)
(***************************************************************************)
EXTENDS Integers, Sequences

START == "__start__"
END == "__end__"

Phases == {"phase1_understanding", "phase2_research", "phase3_baseline",
           "phase4_design", "phase5_implementation", "phase6_evaluation",
           "phase7_delivery"}

\* sequence: of each phase's YAML.
Sequence == [
    phase1_understanding |->
      <<"data_analyst", "problem_framer", "validation_strategist",
        "leakage_auditor", "analysis_critic">>,
    phase2_research |->
      <<"literature_researcher", "web_researcher", "competition_analyst",
        "memory_manager">>,
    phase3_baseline |-> <<"baseline_designer", "baseline_runner">>,
    phase4_design |->
      <<"solution_architect", "feature_engineer", "analysis_critic">>,
    phase5_implementation |-> <<"specialist_selector", "coder", "code_critic">>,
    phase6_evaluation |->
      <<"score_evaluator", "feature_importance_extractor", "error_analyst",
        "hypothesis_generator", "experiment_designer">>,
    phase7_delivery |-> <<"reviewer", "report_writer", "kaggle_client">>]

\* parallel_nodes: of each phase's YAML.
ParallelNodes(ph) ==
    IF ph = "phase2_research" THEN {"literature_researcher", "web_researcher"}
    ELSE {}

\* critic.targets of each phase's YAML.
CriticTargets(ph) ==
    CASE ph = "phase1_understanding" ->
           {"data_analyst", "problem_framer", "validation_strategist", "leakage_auditor"}
      [] ph = "phase4_design" -> {"solution_architect", "feature_engineer"}
      [] ph = "phase5_implementation" -> {"coder"}
      [] OTHER -> {}

\* interrupt_after: true
InterruptAfter == {"phase1_understanding", "phase4_design", "phase6_evaluation"}

-----------------------------------------------------------------------------
(* build_phase_subgraph                                                    *)

\* Consecutive nodes, unless one of them belongs to the parallel block.
PairEdges(seq, par) ==
    {<<seq[i], seq[i + 1]>> :
        i \in {j \in 1..(Len(seq) - 1) : seq[j] \notin par /\ seq[j + 1] \notin par}}

Block(seq, par) == {i \in 1..Len(seq) : seq[i] \in par}

\* Anything else is a GraphBuilderError.
Contiguous(seq, par) ==
    \A i, j \in Block(seq, par), k \in 1..Len(seq) : i < k /\ k < j => seq[k] \in par

ASSUME GraphsBuild == \A ph \in Phases : Contiguous(Sequence[ph], ParallelNodes(ph))

Before(seq, i) == IF i > 1 THEN seq[i - 1] ELSE START
After(seq, i) == IF i < Len(seq) THEN seq[i + 1] ELSE END

\* Every member of the block hangs between the node before the block and the
\* node behind it.
BlockEdges(seq, par) ==
    LET block == Block(seq, par)
        first == {i \in block : \A b \in block : i <= b}
        last == {i \in block : \A b \in block : b <= i}
    IN  {<<Before(seq, i), seq[k]>> : i \in first, k \in block}
          \cup {<<seq[k], After(seq, j)>> : j \in last, k \in block}

Edges(ph) ==
    LET seq == Sequence[ph]
        par == ParallelNodes(ph)
    IN  PairEdges(seq, par) \cup BlockEdges(seq, par)
          \cup {<<START, seq[1]>>, <<seq[Len(seq)], END>>}

\* The superstep behind the nodes of ran.
Successors(ph, ran) == {e[2] : e \in {d \in Edges(ph) : d[1] \in ran}} \ {END}

Entry(ph) == Successors(ph, {START})

-----------------------------------------------------------------------------
(* build_graph and supervisor                                              *)

\* stale is iterations_without_improvement.
Exhausted(stale, max_iterations) == stale >= max_iterations

Route(ph, iteration, stale, max_iterations) ==
    CASE ph = "phase1_understanding" -> "phase2_research"
      [] ph = "phase2_research" ->
           IF iteration = 0 THEN "phase3_baseline" ELSE "phase4_design"
      [] ph = "phase3_baseline" -> "phase4_design"
      [] ph = "phase4_design" -> "phase5_implementation"
      [] ph = "phase5_implementation" -> "phase6_evaluation"
      [] ph = "phase6_evaluation" ->
           IF Exhausted(stale, max_iterations) THEN "phase7_delivery" ELSE "phase4_design"
      [] OTHER -> END
=============================================================================
