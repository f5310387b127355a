--------------------------- MODULE MCObservability ---------------------------
(* A run that comes to its second iteration: four segments, phase 2 with its *)
(* parallel nodes, the phases of the loop, and phase 4 a second time.  Some  *)
(* models never tell their usage; the critic of phase 5 runs the coder again *)
(* so that it sees both.                                                     *)
EXTENDS Observability

MCPlan == <<"phase1_understanding", "phase2_research", "phase3_baseline",
            "phase4_design", "phase5_implementation", "phase6_evaluation",
            "phase4_design">>
MCUsages ==
    [n \in PlanNodes |->
        CASE n = "code_critic" -> {Unknown, 2}
          [] n \in {"leakage_auditor", "web_researcher"} -> {Unknown}
          [] n = "literature_researcher" -> {0}
          [] OTHER -> {1}]
\* A phase and a node that come twice, one beside which another runs, one that
\* calls its model several times, and one that calls none.
MCLosable == {"phase4_design", "solution_architect", "web_researcher", "code_critic",
              "score_evaluator"}
MCTurns == [n \in Retrying |-> IF n = "code_critic" THEN 2 ELSE 1]
=============================================================================
