--------------------------- MODULE ArtifactsProofs ---------------------------
(***************************************************************************)
(* The frozen folds guard a workspace that any number of runs share: a run *)
(* cannot get past validation_strategist unless it is the one that froze   *)
(* them, so everything but the two reports of before is of one run (IInv). *)
(*                                                                         *)
(* That run goes through 25 places in a known order, and each place says   *)
(* what LabState holds and which files lie in the workspace (TraceInv).    *)
(* So every node finds what it reads, reads it of the iteration it is at,  *)
(* and writes a file that is not there yet; only a critic's rerun, and a   *)
(* later run's two reports, replace one that is.                           *)
(***************************************************************************)
EXTENDS Artifacts, TLAPS

Phase1 == "phase1_understanding"

\* Phase 1 is a chain.
LEMMA Phase1Edges ==
  Edges(Phase1) = {<<START, "data_analyst">>, <<"data_analyst", "problem_framer">>,
                   <<"problem_framer", "validation_strategist">>,
                   <<"validation_strategist", "leakage_auditor">>,
                   <<"leakage_auditor", "analysis_critic">>,
                   <<"analysis_critic", END>>}
<1> DEFINE seq == <<"data_analyst", "problem_framer", "validation_strategist",
                    "leakage_auditor", "analysis_critic">>
<1>1. Sequence[Phase1] = seq /\ ParallelNodes(Phase1) = {}
  BY DEF Sequence, ParallelNodes, Phase1
<1>2. Len(seq) = 5 /\ seq[1] = "data_analyst" /\ seq[2] = "problem_framer"
      /\ seq[3] = "validation_strategist" /\ seq[4] = "leakage_auditor"
      /\ seq[5] = "analysis_critic"
  OBVIOUS
<1> HIDE DEF seq
<1>3. PairEdges(seq, {}) = {<<seq[i], seq[i + 1]>> : i \in 1..4}
  BY <1>2 DEF PairEdges
<1>4. 1..4 = {1, 2, 3, 4}
  OBVIOUS
<1>5. {<<seq[i], seq[i + 1]>> : i \in {1, 2, 3, 4}}
        = {<<seq[1], seq[2]>>, <<seq[2], seq[3]>>, <<seq[3], seq[4]>>, <<seq[4], seq[5]>>}
  OBVIOUS
<1>6. BlockEdges(seq, {}) = {}
  BY DEF BlockEdges, Block
<1>7. Edges(Phase1) = PairEdges(seq, {}) \cup BlockEdges(seq, {})
                        \cup {<<START, seq[1]>>, <<seq[5], END>>}
  BY <1>1, <1>2 DEF Edges
<1> QED
  BY <1>2, <1>3, <1>4, <1>5, <1>6, <1>7

\* So a superstep of phase 1 is a single node.
LEMMA Phase1Steps ==
  /\ Entry(Phase1) = {"data_analyst"}
  /\ Successors(Phase1, {"data_analyst"}) = {"problem_framer"}
  /\ Successors(Phase1, {"problem_framer"}) = {"validation_strategist"}
  /\ \A n : \E k : Successors(Phase1, {n}) \subseteq {k}
<1>1. ASSUME NEW n, NEW k, k # END,
             \A e \in Edges(Phase1) : e[1] = n <=> e = <<n, k>>,
             <<n, k>> \in Edges(Phase1)
      PROVE  Successors(Phase1, {n}) = {k}
  <2>1. {d \in Edges(Phase1) : d[1] \in {n}} = {<<n, k>>}
    BY <1>1
  <2> QED BY <1>1, <2>1 DEF Successors
<1>2. Entry(Phase1) = {"data_analyst"}
  BY <1>1, Phase1Edges DEF Entry, START, END
<1>3. Successors(Phase1, {"data_analyst"}) = {"problem_framer"}
  <2>1. <<"data_analyst", "problem_framer">> \in Edges(Phase1)
    BY Phase1Edges
  <2>2. \A e \in Edges(Phase1) : e[1] = "data_analyst" => e = <<"data_analyst", "problem_framer">>
    BY Phase1Edges DEF START
  <2> QED BY <1>1, <2>1, <2>2 DEF END
<1>4. Successors(Phase1, {"problem_framer"}) = {"validation_strategist"}
  <2>1. <<"problem_framer", "validation_strategist">> \in Edges(Phase1)
    BY Phase1Edges
  <2>2. \A e \in Edges(Phase1) :
          e[1] = "problem_framer" => e = <<"problem_framer", "validation_strategist">>
    BY Phase1Edges DEF START
  <2> QED BY <1>1, <2>1, <2>2 DEF END
<1>5. ASSUME NEW n PROVE \E k : Successors(Phase1, {n}) \subseteq {k}
  <2>1. \A d, e \in Edges(Phase1) : d[1] = n /\ e[1] = n => d[2] = e[2]
    BY Phase1Edges DEF START, END
  <2>2. \A a, b \in Successors(Phase1, {n}) : a = b
    BY <2>1 DEF Successors
  <2> QED BY <2>2
<1> QED
  BY <1>2, <1>3, <1>4, <1>5

-----------------------------------------------------------------------------

FirstNodes == {"data_analyst", "problem_framer", "validation_strategist"}

LEMMA FoldsIsAName == Folds \in Names
BY DEF Folds, Names, OnceKinds

LEMMA InitInv == Init => IInv
<1> SUFFICES ASSUME Init PROVE IInv
  OBVIOUS
<1>1. \A f \in Names : files[f].ver = 0
  BY DEF Init, Absent
<1>2. FoldsGuardWorkspace
  BY <1>1, FoldsIsAName DEF FoldsGuardWorkspace, Present
<1>3. \A r \in Runs : Chained(r) /\ Early(r)
  BY DEF Init, Chained, Early
<1> QED
  BY <1>1, <1>2, <1>3 DEF Init, IInv

\* Finish moves nobody but r, and keeps phase 1 a chain.
LEMMA FinishKeepsChain ==
  ASSUME IInv, NEW r \in Runs, NEW n \in todo[r], Finish(r, n)
  PROVE  /\ DOMAIN phase' = Runs /\ DOMAIN todo' = Runs /\ DOMAIN ran' = Runs
         /\ \A q \in Runs \ {r} : /\ phase'[q] = phase[q]
                                  /\ todo'[q] = todo[q] /\ ran'[q] = ran[q]
         /\ \A q \in Runs : Chained(q)'
<1> USE DEF IInv
<1>1. CASE todo[r] # {n}
  <2>1. phase[r] # Phase1
    BY <1>1 DEF Chained, Phase1
  <2> QED BY <1>1, <2>1 DEF Finish, Chained, Phase1
<1>2. CASE todo[r] = {n} /\ Successors(phase[r], ran[r] \cup {n}) # {}
  <2>1. /\ todo' = [todo EXCEPT ![r] = Successors(phase[r], ran[r] \cup {n})]
        /\ ran' = [ran EXCEPT ![r] = {}] /\ phase' = phase
    BY <1>2 DEF Finish
  <2>2. ASSUME phase[r] = Phase1
        PROVE  \A a, b \in todo'[r] : a = b
    <3>1. ran[r] \cup {n} = {n}
      BY <2>2 DEF Chained, Phase1
    <3>2. \E k : Successors(Phase1, {n}) \subseteq {k}
      BY Phase1Steps
    <3> QED BY <2>1, <2>2, <3>1, <3>2
  <2> QED BY <2>1, <2>2 DEF Chained, Phase1
<1>3. CASE todo[r] = {n} /\ Successors(phase[r], ran[r] \cup {n}) = {}
  <2>1. PICK next_phase :
          /\ phase' = [phase EXCEPT ![r] = next_phase]
          /\ todo' = [todo EXCEPT ![r] = IF next_phase = END THEN {} ELSE Entry(next_phase)]
          /\ ran' = [ran EXCEPT ![r] = {}]
    BY <1>3 DEF Finish
  <2>2. next_phase = Phase1 => \A a, b \in todo'[r] : a = b
    BY <2>1, Phase1Steps
  <2> QED BY <2>1, <2>2 DEF Chained, Phase1
<1> QED BY <1>1, <1>2, <1>3

\* A write that does not touch the folds, by the run that froze them or to a
\* file the folds do not guard.
LEMMA PutKeepsGuard ==
  ASSUME IInv, NEW r, NEW f, f # Folds, NEW ins, NEW again,
         Froze(r) \/ f \in {Eda, Problem}, Put(r, f, ins, again)
  PROVE  /\ DOMAIN files' = Names
         /\ \A g \in Names : files'[g].ver \in Nat
         /\ FoldsGuardWorkspace'
         /\ files'[Folds] = files[Folds]
<1> USE DEF IInv
<1>1. DOMAIN files' = Names /\ files'[Folds] = files[Folds]
  BY DEF Put
<1>2. ASSUME NEW g \in Names
      PROVE  /\ files'[g].ver \in Nat
             /\ g # f => files'[g] = files[g]
             /\ g = f => files'[g].by = r
  BY <1>2 DEF Put
<1>3. FoldsGuardWorkspace'
  BY <1>1, <1>2 DEF FoldsGuardWorkspace, Present, Froze
<1> QED BY <1>1, <1>2, <1>3

\* So a node behind the first three changes nothing that matters.
LEMMA LateNode ==
  ASSUME IInv, NEW r \in Runs, NEW n \in todo[r], n \notin FirstNodes,
         NEW f, f # Folds, NEW ins, NEW again, Put(r, f, ins, again), Finish(r, n)
  PROVE  IInv'
<1>1. Froze(r)
  BY DEF IInv, Early, FirstNodes
<1>2. /\ DOMAIN files' = Names
      /\ \A g \in Names : files'[g].ver \in Nat
      /\ FoldsGuardWorkspace'
      /\ files'[Folds] = files[Folds]
  BY <1>1, PutKeepsGuard
<1>3. \A q \in Runs \ {r} : Early(q) \/ Froze(q) => Early(q)' \/ Froze(q)'
  BY <1>2, FinishKeepsChain DEF Early, Froze, Present
<1>4. Froze(r)'
  BY <1>1, <1>2 DEF Froze, Present
<1> QED
  BY <1>2, <1>3, <1>4, FinishKeepsChain DEF IInv

\* The two reports of before the folds.
LEMMA EarlyNode ==
  ASSUME IInv, NEW r \in Runs, NEW n \in {"data_analyst", "problem_framer"},
         n \in todo[r], NEW f \in {Eda, Problem}, NEW ins, Put(r, f, ins, {}),
         Finish(r, n)
  PROVE  IInv'
<1>0. f # Folds
  BY DEF Eda, Problem, Folds
<1>1. /\ DOMAIN files' = Names
      /\ \A g \in Names : files'[g].ver \in Nat
      /\ FoldsGuardWorkspace'
      /\ files'[Folds] = files[Folds]
  BY <1>0, PutKeepsGuard
<1>2. \A q \in Runs : Froze(q) => Froze(q)'
  BY <1>1 DEF Froze, Present
<1>3. \A q \in Runs \ {r} : Early(q) => Early(q)'
  BY FinishKeepsChain DEF Early
<1>4. ASSUME Early(r) PROVE Early(r)'
  <2>1. ran[r] = {} /\ todo[r] = {n}
    BY <1>4 DEF IInv, Chained, Early
  <2>2. Successors(phase[r], ran[r] \cup {n})
          \in {{"problem_framer"}, {"validation_strategist"}}
    <3>1. ran[r] \cup {n} = {n} /\ phase[r] = Phase1
      BY <1>4, <2>1 DEF Early, Phase1
    <3> QED BY <3>1, Phase1Steps
  <2>3. /\ phase' = phase
        /\ todo' = [todo EXCEPT ![r] = Successors(phase[r], ran[r] \cup {n})]
    BY <2>1, <2>2 DEF Finish
  <2> QED BY <1>4, <2>2, <2>3 DEF Early, IInv
<1> QED
  BY <1>1, <1>2, <1>3, <1>4, FinishKeepsChain DEF IInv

\* validation_strategist finds no folds, so nobody is beyond it.
LEMMA StrategistFreezes ==
  ASSUME IInv, NEW r \in Runs, ValidationStrategist(r)
  PROVE  IInv'
<1>1. /\ ~Present(Folds) /\ "validation_strategist" \in todo[r]
      /\ Finish(r, "validation_strategist")
  BY DEF ValidationStrategist, ValidationStrategistWrites, ReturnsLab, Executes
<1>2. PICK ins : Put(r, Folds, ins, {})
  BY DEF ValidationStrategist, ValidationStrategistWrites, Writes
<1>3. /\ DOMAIN files' = Names
      /\ files'[Folds].ver = 1 /\ files'[Folds].by = r
      /\ \A g \in Names \ {Folds} : files'[g] = files[g]
  <2>1. files[Folds].ver = 0
    BY <1>1, FoldsIsAName DEF IInv, Present
  <2> QED BY <1>2, <2>1, FoldsIsAName DEF IInv, Put
<1>4. \A g \in Names \ {Eda, Problem} : ~Present(g)
  BY <1>1 DEF IInv, FoldsGuardWorkspace
<1>5. FoldsGuardWorkspace'
  BY <1>3, <1>4 DEF FoldsGuardWorkspace, Present
<1>6. \A g \in Names : files'[g].ver \in Nat
  BY <1>3 DEF IInv
<1>7. \A q \in Runs \ {r} : Early(q)'
  BY <1>1, FinishKeepsChain DEF IInv, Early, Froze
<1>8. Froze(r)'
  BY <1>3 DEF Froze, Present
<1> QED
  BY <1>1, <1>3, <1>5, <1>6, <1>7, <1>8, FinishKeepsChain DEF IInv

\* A critic has its target write again.
LEMMA RerunKeeps ==
  ASSUME IInv, NEW r \in Runs, NEW target, CriticReruns(r, target)
  PROVE  IInv'
<1>1. Froze(r)
  BY DEF CriticReruns, Executes, CriticNode, IInv, Early
<1>2. PICK f, ins : f # Folds /\ Put(r, f, ins, {})
  BY DEF CriticReruns, Rewrites, DataAnalystWrites, ProblemFramerWrites,
         LeakageAuditorWrites, SolutionArchitectWrites, FeatureEngineerWrites,
         CoderWrites, Writes, Eda, Problem, Folds
<1>3. /\ DOMAIN files' = Names
      /\ \A g \in Names : files'[g].ver \in Nat
      /\ FoldsGuardWorkspace'
      /\ files'[Folds] = files[Folds]
  BY <1>1, <1>2, PutKeepsGuard
<1>4. \A q \in Runs : Froze(q) => Froze(q)'
  BY <1>3 DEF Froze, Present
<1>5. UNCHANGED <<phase, todo, ran>>
  BY DEF CriticReruns
<1> QED
  BY <1>3, <1>4, <1>5 DEF IInv, Chained, Early

LEMMA NodeInv ==
  ASSUME IInv, NEW r \in Runs, NodeStep(r)
  PROVE  IInv'
<1> USE DEF FirstNodes, Executes, Writes
<1>1. CASE DataAnalyst(r)
  BY <1>1, EarlyNode DEF DataAnalyst, DataAnalystWrites, ReturnsLab
<1>2. CASE ProblemFramer(r)
  BY <1>2, EarlyNode DEF ProblemFramer, ProblemFramerWrites, ReturnsLab
<1>3. CASE ValidationStrategist(r)
  BY <1>3, StrategistFreezes
<1>4. CASE LeakageAuditor(r)
  BY <1>4, LateNode DEF LeakageAuditor, LeakageAuditorWrites, Returns, Folds
<1>5. CASE LiteratureResearcher(r)
  BY <1>5, LateNode DEF LiteratureResearcher, LiteratureResearcherWrites, Returns, Folds
<1>6. CASE WebResearcher(r)
  BY <1>6, LateNode DEF WebResearcher, WebResearcherWrites, Returns, Folds
<1>7. CASE CompetitionAnalyst(r)
  BY <1>7, LateNode DEF CompetitionAnalyst, CompetitionAnalystWrites, Returns, Folds
<1>8. CASE MemoryManager(r)
  BY <1>8, LateNode DEF MemoryManager, MemoryManagerWrites, Returns, Folds
<1>9. CASE BaselineDesigner(r)
  BY <1>9, LateNode DEF BaselineDesigner, BaselineDesignerWrites, Returns, Folds
<1>10. CASE BaselineRunner(r)
  BY <1>10, LateNode DEF BaselineRunner, BaselineRunnerWrites, ReturnsLab, Folds
<1>11. CASE SolutionArchitect(r)
  BY <1>11, LateNode DEF SolutionArchitect, SolutionArchitectWrites, ReturnsLab, Folds
<1>12. CASE FeatureEngineer(r)
  BY <1>12, LateNode DEF FeatureEngineer, FeatureEngineerWrites, ReturnsLab, Folds
<1>13. CASE SpecialistSelector(r)
  BY <1>13, LateNode DEF SpecialistSelector, SpecialistWrites, Returns, Folds
<1>14. CASE Coder(r)
  BY <1>14, LateNode DEF Coder, CoderWrites, ReturnsLab, Folds
<1>15. CASE ScoreEvaluator(r)
  BY <1>15, LateNode DEF ScoreEvaluator, ScoreEvaluatorWrites, ReturnsLab, Folds
<1>16. CASE FeatureImportanceExtractor(r)
  BY <1>16, LateNode DEF FeatureImportanceExtractor, ImportanceExtractorWrites, Returns, Folds
<1>17. CASE ErrorAnalyst(r)
  BY <1>17, LateNode DEF ErrorAnalyst, ErrorAnalystWrites, Returns, Folds
<1>18. CASE HypothesisGenerator(r)
  BY <1>18, LateNode DEF HypothesisGenerator, HypothesisGeneratorWrites, Returns, Folds
<1>19. CASE ExperimentDesigner(r)
  BY <1>19, LateNode DEF ExperimentDesigner, ExperimentDesignerWrites, ReturnsLab, Folds
<1>20. CASE Reviewer(r)
  BY <1>20, LateNode DEF Reviewer, ReviewerWrites, Returns, Folds
<1>21. CASE ReportWriter(r)
  BY <1>21, LateNode DEF ReportWriter, ReportWriterWrites, Returns, Folds
<1>22. CASE KaggleClient(r)
  BY <1>22, LateNode DEF KaggleClient, KaggleClientWrites, Returns, Folds
<1>23. CASE CriticPasses(r)
  BY <1>23, LateNode DEF CriticPasses, CriticNode, VerdictFile, Folds
<1>24. ASSUME NEW target, CriticReruns(r, target) PROVE IInv'
  BY <1>24, RerunKeeps
<1> QED
  BY <1>1, <1>2, <1>3, <1>4, <1>5, <1>6, <1>7, <1>8, <1>9, <1>10, <1>11, <1>12, <1>13,
     <1>14, <1>15, <1>16, <1>17, <1>18, <1>19, <1>20, <1>21, <1>22, <1>23, <1>24 DEF NodeStep

LEMMA StepInv == IInv /\ [Next]_vars => IInv'
<1> SUFFICES ASSUME IInv, [Next]_vars PROVE IInv'
  OBVIOUS
<1>1. ASSUME NEW r \in Runs, NodeStep(r) PROVE IInv'
  BY <1>1, NodeInv
<1>2. ASSUME NEW r \in Runs, Start(r) PROVE IInv'
  <2>1. /\ UNCHANGED <<phase, ran, files>>
        /\ todo' = [todo EXCEPT ![r] = {"data_analyst"}]
    BY <1>2, Phase1Steps DEF Start, Phase1
  <2>2. FoldsGuardWorkspace' /\ \A q \in Runs : Froze(q)' <=> Froze(q)
    BY <2>1 DEF IInv, FoldsGuardWorkspace, Froze, Present
  <2>3. \A q \in Runs : Chained(q)' /\ (Early(q) => Early(q)')
    BY <2>1 DEF IInv, Chained, Early
  <2> QED BY <2>1, <2>2, <2>3 DEF IInv
<1>3. ASSUME UNCHANGED <<phase, todo, ran, files>> PROVE IInv'
  BY <1>3 DEF IInv, FoldsGuardWorkspace, Froze, Present, Chained, Early
<1>4. ASSUME NEW r \in Runs, Resume(r) \/ Fail(r) PROVE IInv'
  BY <1>3, <1>4 DEF Resume, Fail
<1>5. CASE UNCHANGED vars
  BY <1>3, <1>5 DEF vars
<1> QED
  BY <1>1, <1>2, <1>4, <1>5 DEF Next

\* However many runs share a workspace, and whenever they wait, fail or are
\* resumed: the folds are written once, and everything but the EDA report and
\* the problem definition is the work of the run that wrote them.
THEOREM WorkspaceIsGuarded == Spec => []FoldsGuardWorkspace
<1>1. IInv => FoldsGuardWorkspace
  BY DEF IInv
<1> QED
  BY InitInv, StepInv, <1>1, PTL DEF Spec

\* Behind a node comes the next one of the sequence, and nothing behind the
\* last one.
Chain(ph, seq, n) ==
    /\ \A m : m = seq[1] => Entry(ph) = {m}
    /\ \A i \in 1..(n - 1) : \A m, x :
         m = seq[i] /\ x = seq[i + 1] => Successors(ph, {m}) = {x}
    /\ \A m : m = seq[n] => Successors(ph, {m}) = {}

\* A phase without a parallel block is a chain.
LEMMA ChainSteps ==
  ASSUME NEW ph \in Phases, NEW seq, NEW n \in Nat \ {0}, Sequence[ph] = seq, Len(seq) = n,
         ParallelNodes(ph) = {},
         \A i \in 1..n : seq[i] \notin {START, END},
         \A i, j \in 1..n : seq[i] = seq[j] => i = j
  PROVE  Chain(ph, seq, n)
<1>1. PairEdges(seq, {}) = {<<seq[i], seq[i + 1]>> : i \in 1..(n - 1)}
  BY DEF PairEdges
<1>2. BlockEdges(seq, {}) = {}
  BY DEF BlockEdges, Block
<1>3. Edges(ph) = {<<seq[i], seq[i + 1]>> : i \in 1..(n - 1)}
                    \cup {<<START, seq[1]>>, <<seq[n], END>>}
  BY <1>1, <1>2 DEF Edges
<1>4. \A e : e \in Edges(ph) <=> \/ \E i \in 1..(n - 1) : e = <<seq[i], seq[i + 1]>>
                                 \/ e = <<START, seq[1]>> \/ e = <<seq[n], END>>
  BY <1>3
<1>5. \A m, x : x \in Successors(ph, {m}) <=> x # END /\ <<m, x>> \in Edges(ph)
  <2>1. TAKE m, x
  <2>2. \A e \in Edges(ph) : e = <<e[1], e[2]>>
    BY <1>4
  <2>3. x \in Successors(ph, {m}) <=> x # END /\ \E e \in Edges(ph) : e[1] = m /\ e[2] = x
    BY DEF Successors
  <2> QED BY <2>2, <2>3
<1>6. \A m, x : <<m, x>> \in Edges(ph) <=>
        \/ \E i \in 1..(n - 1) : m = seq[i] /\ x = seq[i + 1]
        \/ m = START /\ x = seq[1]
        \/ m = seq[n] /\ x = END
  BY <1>4
<1>7. Entry(ph) = {seq[1]}
  <2>1. \A x : x \in Successors(ph, {START}) <=> x = seq[1]
    <3>1. seq[1] \notin {START, END} /\ seq[n] # START
      OBVIOUS
    <3>2. \A i \in 1..(n - 1) : seq[i] # START
      OBVIOUS
    <3>3. TAKE x
    <3>4. <<START, x>> \in Edges(ph) <=> x = seq[1]
      BY <1>6, <3>1, <3>2
    <3> QED BY <1>5, <3>1, <3>4
  <2> HIDE DEF START
  <2> QED BY <2>1 DEF Entry
<1>8. ASSUME NEW i \in 1..n, NEW x
      PROVE  x \in Successors(ph, {seq[i]}) <=> i < n /\ x = seq[i + 1]
  <2>1. seq[i] # START /\ \A j \in 1..n : seq[j] # END
    OBVIOUS
  <2>2. \A k \in 1..(n - 1) : seq[i] = seq[k] <=> i = k
    OBVIOUS
  <2>3. seq[i] = seq[n] <=> i = n
    OBVIOUS
  <2>4. <<seq[i], x>> \in Edges(ph) <=> (i < n /\ x = seq[i + 1]) \/ (i = n /\ x = END)
    <3>1. <<seq[i], x>> \in Edges(ph) <=>
            \/ \E k \in 1..(n - 1) : seq[i] = seq[k] /\ x = seq[k + 1]
            \/ seq[i] = seq[n] /\ x = END
      BY <1>6, <2>1
    <3>2. (\E k \in 1..(n - 1) : seq[i] = seq[k] /\ x = seq[k + 1])
            <=> (i \in 1..(n - 1) /\ x = seq[i + 1])
      BY <2>2
    <3> QED BY <2>3, <3>1, <3>2
  <2>5. i < n => seq[i + 1] # END
    BY <2>1
  <2> QED BY <1>5, <2>4, <2>5
<1>9. ASSUME NEW i \in 1..(n - 1), NEW m, NEW x, m = seq[i], x = seq[i + 1]
      PROVE  Successors(ph, {m}) = {x}
  <2>1. \A y : y \in Successors(ph, {m}) <=> y = x
    BY <1>8, <1>9
  <2> QED BY <2>1
<1>10. ASSUME NEW m, m = seq[n]
       PROVE  Successors(ph, {m}) = {}
  <2>1. \A x : x \notin Successors(ph, {m})
    BY <1>8, <1>10
  <2> QED BY <2>1
<1>11. ASSUME NEW m, m = seq[1] PROVE Entry(ph) = {m}
  BY <1>7, <1>11
<1> QED
  BY <1>9, <1>10, <1>11 DEF Chain

\* What follows what, phase by phase.
LEMMA UnderstandingSteps ==
  /\ Entry("phase1_understanding") = {"data_analyst"}
  /\ Successors("phase1_understanding", {"data_analyst"}) = {"problem_framer"}
  /\ Successors("phase1_understanding", {"problem_framer"}) = {"validation_strategist"}
  /\ Successors("phase1_understanding", {"validation_strategist"}) = {"leakage_auditor"}
  /\ Successors("phase1_understanding", {"leakage_auditor"}) = {"analysis_critic"}
  /\ Successors("phase1_understanding", {"analysis_critic"}) = {}
<1> DEFINE ph == "phase1_understanding"
           seq == <<"data_analyst", "problem_framer", "validation_strategist",
                     "leakage_auditor", "analysis_critic">>
<1>1. Sequence[ph] = seq /\ ParallelNodes(ph) = {} /\ ph \in Phases
  BY DEF Sequence, ParallelNodes, Phases
<1>2. Len(seq) = 5 /\ 5 \in Nat \ {0}
  OBVIOUS
<1>3. /\ seq[1] = "data_analyst" /\ seq[2] = "problem_framer"
      /\ seq[3] = "validation_strategist" /\ seq[4] = "leakage_auditor"
      /\ seq[5] = "analysis_critic"
  OBVIOUS
<1> HIDE DEF seq, ph
<1>4. /\ \A i \in 1..5 : seq[i] \notin {START, END}
      /\ \A i, j \in 1..5 : seq[i] = seq[j] => i = j
  BY <1>3 DEF START, END
<1>5. Chain(ph, seq, 5)
  BY <1>1, <1>2, <1>4, ChainSteps, Zenon
<1>6. /\ \A m, x : m = seq[1] /\ x = seq[2] => Successors(ph, {m}) = {x}
      /\ \A m, x : m = seq[2] /\ x = seq[3] => Successors(ph, {m}) = {x}
      /\ \A m, x : m = seq[3] /\ x = seq[4] => Successors(ph, {m}) = {x}
      /\ \A m, x : m = seq[4] /\ x = seq[5] => Successors(ph, {m}) = {x}
  BY <1>5 DEF Chain
<1> QED
  BY <1>3, <1>5, <1>6, ZenonT(40) DEF Chain, ph

LEMMA BaselineSteps ==
  /\ Entry("phase3_baseline") = {"baseline_designer"}
  /\ Successors("phase3_baseline", {"baseline_designer"}) = {"baseline_runner"}
  /\ Successors("phase3_baseline", {"baseline_runner"}) = {}
<1> DEFINE ph == "phase3_baseline"
           seq == <<"baseline_designer", "baseline_runner">>
<1>1. Sequence[ph] = seq /\ ParallelNodes(ph) = {} /\ ph \in Phases
  BY DEF Sequence, ParallelNodes, Phases
<1>2. Len(seq) = 2 /\ 2 \in Nat \ {0}
  OBVIOUS
<1>3. seq[1] = "baseline_designer" /\ seq[2] = "baseline_runner"
  OBVIOUS
<1> HIDE DEF seq, ph
<1>4. /\ \A i \in 1..2 : seq[i] \notin {START, END}
      /\ \A i, j \in 1..2 : seq[i] = seq[j] => i = j
  BY <1>3 DEF START, END
<1>5. Chain(ph, seq, 2)
  BY <1>1, <1>2, <1>4, ChainSteps, Zenon
<1>6. \A m, x : m = seq[1] /\ x = seq[2] => Successors(ph, {m}) = {x}
  BY <1>5 DEF Chain
<1> QED
  BY <1>3, <1>5, <1>6, Zenon DEF Chain, ph

LEMMA DesignSteps ==
  /\ Entry("phase4_design") = {"solution_architect"}
  /\ Successors("phase4_design", {"solution_architect"}) = {"feature_engineer"}
  /\ Successors("phase4_design", {"feature_engineer"}) = {"analysis_critic"}
  /\ Successors("phase4_design", {"analysis_critic"}) = {}
<1> DEFINE ph == "phase4_design"
           seq == <<"solution_architect", "feature_engineer", "analysis_critic">>
<1>1. Sequence[ph] = seq /\ ParallelNodes(ph) = {} /\ ph \in Phases
  BY DEF Sequence, ParallelNodes, Phases
<1>2. Len(seq) = 3 /\ 3 \in Nat \ {0}
  OBVIOUS
<1>3. /\ seq[1] = "solution_architect" /\ seq[2] = "feature_engineer"
      /\ seq[3] = "analysis_critic"
  OBVIOUS
<1> HIDE DEF seq, ph
<1>4. /\ \A i \in 1..3 : seq[i] \notin {START, END}
      /\ \A i, j \in 1..3 : seq[i] = seq[j] => i = j
  BY <1>3 DEF START, END
<1>5. Chain(ph, seq, 3)
  BY <1>1, <1>2, <1>4, ChainSteps, Zenon
<1>6. /\ \A m, x : m = seq[1] /\ x = seq[2] => Successors(ph, {m}) = {x}
      /\ \A m, x : m = seq[2] /\ x = seq[3] => Successors(ph, {m}) = {x}
  BY <1>5 DEF Chain
<1> QED
  BY <1>3, <1>5, <1>6, Zenon DEF Chain, ph

LEMMA ImplementationSteps ==
  /\ Entry("phase5_implementation") = {"specialist_selector"}
  /\ Successors("phase5_implementation", {"specialist_selector"}) = {"coder"}
  /\ Successors("phase5_implementation", {"coder"}) = {"code_critic"}
  /\ Successors("phase5_implementation", {"code_critic"}) = {}
<1> DEFINE ph == "phase5_implementation"
           seq == <<"specialist_selector", "coder", "code_critic">>
<1>1. Sequence[ph] = seq /\ ParallelNodes(ph) = {} /\ ph \in Phases
  BY DEF Sequence, ParallelNodes, Phases
<1>2. Len(seq) = 3 /\ 3 \in Nat \ {0}
  OBVIOUS
<1>3. /\ seq[1] = "specialist_selector" /\ seq[2] = "coder"
      /\ seq[3] = "code_critic"
  OBVIOUS
<1> HIDE DEF seq, ph
<1>4. /\ \A i \in 1..3 : seq[i] \notin {START, END}
      /\ \A i, j \in 1..3 : seq[i] = seq[j] => i = j
  BY <1>3 DEF START, END
<1>5. Chain(ph, seq, 3)
  BY <1>1, <1>2, <1>4, ChainSteps, Zenon
<1>6. /\ \A m, x : m = seq[1] /\ x = seq[2] => Successors(ph, {m}) = {x}
      /\ \A m, x : m = seq[2] /\ x = seq[3] => Successors(ph, {m}) = {x}
  BY <1>5 DEF Chain
<1> QED
  BY <1>3, <1>5, <1>6, Zenon DEF Chain, ph

LEMMA EvaluationSteps ==
  /\ Entry("phase6_evaluation") = {"score_evaluator"}
  /\ Successors("phase6_evaluation", {"score_evaluator"}) = {"feature_importance_extractor"}
  /\ Successors("phase6_evaluation", {"feature_importance_extractor"}) = {"error_analyst"}
  /\ Successors("phase6_evaluation", {"error_analyst"}) = {"hypothesis_generator"}
  /\ Successors("phase6_evaluation", {"hypothesis_generator"}) = {"experiment_designer"}
  /\ Successors("phase6_evaluation", {"experiment_designer"}) = {}
<1> DEFINE ph == "phase6_evaluation"
           seq == <<"score_evaluator", "feature_importance_extractor",
                     "error_analyst", "hypothesis_generator", "experiment_designer">>
<1>1. Sequence[ph] = seq /\ ParallelNodes(ph) = {} /\ ph \in Phases
  BY DEF Sequence, ParallelNodes, Phases
<1>2. Len(seq) = 5 /\ 5 \in Nat \ {0}
  OBVIOUS
<1>3. /\ seq[1] = "score_evaluator" /\ seq[2] = "feature_importance_extractor"
      /\ seq[3] = "error_analyst" /\ seq[4] = "hypothesis_generator"
      /\ seq[5] = "experiment_designer"
  OBVIOUS
<1> HIDE DEF seq, ph
<1>4. /\ \A i \in 1..5 : seq[i] \notin {START, END}
      /\ \A i, j \in 1..5 : seq[i] = seq[j] => i = j
  BY <1>3 DEF START, END
<1>5. Chain(ph, seq, 5)
  BY <1>1, <1>2, <1>4, ChainSteps, Zenon
<1>6. /\ \A m, x : m = seq[1] /\ x = seq[2] => Successors(ph, {m}) = {x}
      /\ \A m, x : m = seq[2] /\ x = seq[3] => Successors(ph, {m}) = {x}
      /\ \A m, x : m = seq[3] /\ x = seq[4] => Successors(ph, {m}) = {x}
      /\ \A m, x : m = seq[4] /\ x = seq[5] => Successors(ph, {m}) = {x}
  BY <1>5 DEF Chain
<1> QED
  BY <1>3, <1>5, <1>6, ZenonT(40) DEF Chain, ph

LEMMA DeliverySteps ==
  /\ Entry("phase7_delivery") = {"reviewer"}
  /\ Successors("phase7_delivery", {"reviewer"}) = {"report_writer"}
  /\ Successors("phase7_delivery", {"report_writer"}) = {"kaggle_client"}
  /\ Successors("phase7_delivery", {"kaggle_client"}) = {}
<1> DEFINE ph == "phase7_delivery"
           seq == <<"reviewer", "report_writer", "kaggle_client">>
<1>1. Sequence[ph] = seq /\ ParallelNodes(ph) = {} /\ ph \in Phases
  BY DEF Sequence, ParallelNodes, Phases
<1>2. Len(seq) = 3 /\ 3 \in Nat \ {0}
  OBVIOUS
<1>3. /\ seq[1] = "reviewer" /\ seq[2] = "report_writer"
      /\ seq[3] = "kaggle_client"
  OBVIOUS
<1> HIDE DEF seq, ph
<1>4. /\ \A i \in 1..3 : seq[i] \notin {START, END}
      /\ \A i, j \in 1..3 : seq[i] = seq[j] => i = j
  BY <1>3 DEF START, END
<1>5. Chain(ph, seq, 3)
  BY <1>1, <1>2, <1>4, ChainSteps, Zenon
<1>6. /\ \A m, x : m = seq[1] /\ x = seq[2] => Successors(ph, {m}) = {x}
      /\ \A m, x : m = seq[2] /\ x = seq[3] => Successors(ph, {m}) = {x}
  BY <1>5 DEF Chain
<1> QED
  BY <1>3, <1>5, <1>6, Zenon DEF Chain, ph

\* Phase 2: both researchers, then the other two one by one.
LEMMA ResearchEdges ==
  Edges("phase2_research") =
    {<<START, "literature_researcher">>, <<START, "web_researcher">>,
     <<"literature_researcher", "competition_analyst">>,
     <<"web_researcher", "competition_analyst">>,
     <<"competition_analyst", "memory_manager">>, <<"memory_manager", END>>}
<1> DEFINE seq == <<"literature_researcher", "web_researcher", "competition_analyst",
                    "memory_manager">>
           par == {"literature_researcher", "web_researcher"}
           ph == "phase2_research"
<1>1. Sequence[ph] = seq /\ ParallelNodes(ph) = par
  BY DEF Sequence, ParallelNodes
<1>2. /\ Len(seq) = 4 /\ seq[1] = "literature_researcher" /\ seq[2] = "web_researcher"
      /\ seq[3] = "competition_analyst" /\ seq[4] = "memory_manager"
  OBVIOUS
<1> HIDE DEF seq
<1>3. PairEdges(seq, par) = {<<"competition_analyst", "memory_manager">>}
  <2>1. {j \in 1..(Len(seq) - 1) : seq[j] \notin par /\ seq[j + 1] \notin par} = {3}
    BY <1>2
  <2> QED BY <1>2, <2>1 DEF PairEdges
<1>4. Block(seq, par) = {1, 2}
  BY <1>2 DEF Block
<1>5. BlockEdges(seq, par) =
        {<<START, "literature_researcher">>, <<START, "web_researcher">>,
         <<"literature_researcher", "competition_analyst">>,
         <<"web_researcher", "competition_analyst">>}
  <2> DEFINE block == {1, 2}
  <2>1. /\ {i \in block : \A b \in block : i <= b} = {1}
        /\ {i \in block : \A b \in block : b <= i} = {2}
    OBVIOUS
  <2>2. Before(seq, 1) = START /\ After(seq, 2) = "competition_analyst"
    BY <1>2 DEF Before, After
  <2>3. BlockEdges(seq, par) = {<<Before(seq, i), seq[k]>> : i \in {1}, k \in block}
                                 \cup {<<seq[k], After(seq, j)>> : j \in {2}, k \in block}
    BY <1>4, <2>1 DEF BlockEdges
  <2>4. {<<Before(seq, i), seq[k]>> : i \in {1}, k \in block}
          = {<<START, seq[1]>>, <<START, seq[2]>>}
    BY <2>2
  <2>5. {<<seq[k], After(seq, j)>> : j \in {2}, k \in block}
          = {<<seq[1], "competition_analyst">>, <<seq[2], "competition_analyst">>}
    BY <2>2
  <2> QED BY <1>2, <2>3, <2>4, <2>5
<1>6. Edges(ph) = PairEdges(seq, par) \cup BlockEdges(seq, par)
                    \cup {<<START, seq[1]>>, <<seq[4], END>>}
  BY <1>1, <1>2 DEF Edges
<1> QED
  BY <1>2, <1>3, <1>5, <1>6

LEMMA ResearchSteps ==
  /\ Entry("phase2_research") = Researchers
  /\ Successors("phase2_research", Researchers) = {"competition_analyst"}
  /\ Successors("phase2_research", {"competition_analyst"}) = {"memory_manager"}
  /\ Successors("phase2_research", {"memory_manager"}) = {}
<1>1. \A ms, x : x \in Successors("phase2_research", ms) <=>
                   x # END /\ \E m \in ms : <<m, x>> \in Edges("phase2_research")
  <2>1. TAKE ms, x
  <2>2. \A e \in Edges("phase2_research") : e = <<e[1], e[2]>>
    BY ResearchEdges
  <2>3. x \in Successors("phase2_research", ms) <=>
          x # END /\ \E e \in Edges("phase2_research") : e[1] \in ms /\ e[2] = x
    BY DEF Successors
  <2> QED BY <2>2, <2>3
<1>2. \A m, x : <<m, x>> \in Edges("phase2_research") <=>
        \/ m = START /\ x \in Researchers
        \/ m \in Researchers /\ x = "competition_analyst"
        \/ m = "competition_analyst" /\ x = "memory_manager"
        \/ m = "memory_manager" /\ x = END
  BY ResearchEdges DEF Researchers
<1>3. ASSUME NEW m, NEW x
      PROVE  x \in Successors("phase2_research", {m}) <=>
               x # END /\ <<m, x>> \in Edges("phase2_research")
  <2> DEFINE ms == {m}
  <2>1. \A k : k \in ms <=> k = m
    OBVIOUS
  <2>2. x \in Successors("phase2_research", ms) <=>
          x # END /\ \E k \in ms : <<k, x>> \in Edges("phase2_research")
    <3> HIDE DEF ms
    <3> QED BY <1>1
  <2> QED BY <2>1, <2>2
<1>4. ASSUME NEW x
      PROVE  /\ x \in Successors("phase2_research", {START}) <=> x \in Researchers
             /\ x \in Successors("phase2_research", Researchers) <=> x = "competition_analyst"
             /\ x \in Successors("phase2_research", {"competition_analyst"})
                  <=> x = "memory_manager"
             /\ x \notin Successors("phase2_research", {"memory_manager"})
  <2>1. <<START, x>> \in Edges("phase2_research") <=> x \in Researchers
    BY <1>2 DEF START, Researchers
  <2>2. (\E m \in Researchers : <<m, x>> \in Edges("phase2_research"))
          <=> x = "competition_analyst"
    <3>1. \A m \in Researchers : <<m, x>> \in Edges("phase2_research")
                                   <=> x = "competition_analyst"
      BY <1>2 DEF START, Researchers
    <3>2. "web_researcher" \in Researchers
      BY DEF Researchers
    <3> QED BY <3>1, <3>2
  <2>3. <<"competition_analyst", x>> \in Edges("phase2_research") <=> x = "memory_manager"
    BY <1>2 DEF START, Researchers
  <2>4. <<"memory_manager", x>> \in Edges("phase2_research") <=> x = END
    BY <1>2 DEF START, Researchers
  <2>5. END \notin Researchers \cup {"competition_analyst", "memory_manager"}
    BY DEF END, Researchers
  <2> QED BY <1>1, <1>3, <2>1, <2>2, <2>3, <2>4, <2>5
<1> QED
  BY <1>4 DEF Entry

-----------------------------------------------------------------------------
(* Where a run is                                                          *)

Known == /\ DOMAIN status = Runs /\ DOMAIN phase = Runs /\ DOMAIN todo = Runs
         /\ DOMAIN ran = Runs /\ DOMAIN lab = Runs /\ DOMAIN reruns = Runs
         /\ DOMAIN files = Names

\* Where route_after leads a run whose phase is over.
Ahead(r) == Route(phase[r], At(r), lab[r].iterations_without_improvement, MaxIterations)

\* What a node that was alone in its superstep leaves behind: the next node of
\* its phase,
LEMMA FinishWithin ==
  ASSUME Known, NEW r \in Runs, NEW n, NEW m, status[r] = "running", todo[r] = {n},
         ran[r] = {}, Finish(r, n), Successors(phase[r], {n}) = {m}
  PROVE  /\ ran'[r] = {} /\ status'[r] # "new"
         /\ phase'[r] = phase[r] /\ todo'[r] = {m}
<1>1. ran[r] \cup {n} = {n}
  OBVIOUS
<1>2. /\ todo' = [todo EXCEPT ![r] = {m}]
      /\ ran' = [ran EXCEPT ![r] = {}]
      /\ UNCHANGED <<phase, status>>
  BY <1>1 DEF Finish
<1> QED
  BY <1>2 DEF Known

\* or the entry of the next one.
LEMMA FinishPhase ==
  ASSUME Known, NEW r \in Runs, NEW n, status[r] = "running", todo[r] = {n},
         ran[r] = {}, Finish(r, n), Successors(phase[r], {n}) = {}
  PROVE  /\ ran'[r] = {} /\ status'[r] # "new" /\ phase'[r] = Ahead(r)
         /\ todo'[r] = IF Ahead(r) = END THEN {} ELSE Entry(Ahead(r))
<1>1. ran[r] \cup {n} = {n}
  OBVIOUS
<1>2. /\ phase' = [phase EXCEPT ![r] = Ahead(r)]
      /\ todo' = [todo EXCEPT ![r] = IF Ahead(r) = END THEN {} ELSE Entry(Ahead(r))]
      /\ ran' = [ran EXCEPT ![r] = {}]
      /\ status' = [status EXCEPT ![r] =
            IF Ahead(r) = END THEN "completed"
            ELSE IF phase[r] \in InterruptAfter THEN "paused" ELSE "running"]
  BY <1>1 DEF Finish, Ahead
<1> QED
  BY <1>2 DEF Known

\* The node of each place, and the phase.
LEMMA StationsAre ==
  /\ Stations[1] = "data_analyst" /\ PhaseAt(1) = "phase1_understanding"
  /\ Stations[2] = "problem_framer" /\ PhaseAt(2) = "phase1_understanding"
  /\ Stations[3] = "validation_strategist" /\ PhaseAt(3) = "phase1_understanding"
  /\ Stations[4] = "leakage_auditor" /\ PhaseAt(4) = "phase1_understanding"
  /\ Stations[5] = "analysis_critic" /\ PhaseAt(5) = "phase1_understanding"
  /\ Stations[6] = "literature_researcher" /\ PhaseAt(6) = "phase2_research"
  /\ Stations[7] = "competition_analyst" /\ PhaseAt(7) = "phase2_research"
  /\ Stations[8] = "memory_manager" /\ PhaseAt(8) = "phase2_research"
  /\ Stations[9] = "baseline_designer" /\ PhaseAt(9) = "phase3_baseline"
  /\ Stations[10] = "baseline_runner" /\ PhaseAt(10) = "phase3_baseline"
  /\ Stations[11] = "solution_architect" /\ PhaseAt(11) = "phase4_design"
  /\ Stations[12] = "feature_engineer" /\ PhaseAt(12) = "phase4_design"
  /\ Stations[13] = "analysis_critic" /\ PhaseAt(13) = "phase4_design"
  /\ Stations[14] = "specialist_selector" /\ PhaseAt(14) = "phase5_implementation"
  /\ Stations[15] = "coder" /\ PhaseAt(15) = "phase5_implementation"
  /\ Stations[16] = "code_critic" /\ PhaseAt(16) = "phase5_implementation"
  /\ Stations[17] = "score_evaluator" /\ PhaseAt(17) = "phase6_evaluation"
  /\ Stations[18] = "feature_importance_extractor" /\ PhaseAt(18) = "phase6_evaluation"
  /\ Stations[19] = "error_analyst" /\ PhaseAt(19) = "phase6_evaluation"
  /\ Stations[20] = "hypothesis_generator" /\ PhaseAt(20) = "phase6_evaluation"
  /\ Stations[21] = "experiment_designer" /\ PhaseAt(21) = "phase6_evaluation"
  /\ Stations[22] = "reviewer" /\ PhaseAt(22) = "phase7_delivery"
  /\ Stations[23] = "report_writer" /\ PhaseAt(23) = "phase7_delivery"
  /\ Stations[24] = "kaggle_client" /\ PhaseAt(24) = "phase7_delivery"
  /\ PhaseAt(25) = END
  BY DEF Stations, PhaseAt

\* The last node of each phase, and the end.
LastPlaces == {5, 8, 10, 13, 16, 21, 24, 25}

LEMMA StepsWithin ==
  ASSUME NEW p \in Places, p # 6, p \notin LastPlaces
  PROVE  /\ p + 1 \in Places /\ p + 1 # 6 /\ PhaseAt(p + 1) = PhaseAt(p)
         /\ Successors(PhaseAt(p), {Stations[p]}) = {Stations[p + 1]}
<1>1. CASE p = 1
  BY <1>1, StationsAre, UnderstandingSteps DEF Places
<1>2. CASE p = 2
  BY <1>2, StationsAre, UnderstandingSteps DEF Places
<1>3. CASE p = 3
  BY <1>3, StationsAre, UnderstandingSteps DEF Places
<1>4. CASE p = 4
  BY <1>4, StationsAre, UnderstandingSteps DEF Places
<1>5. CASE p = 7
  BY <1>5, StationsAre, ResearchSteps DEF Places
<1>6. CASE p = 9
  BY <1>6, StationsAre, BaselineSteps DEF Places
<1>7. CASE p = 11
  BY <1>7, StationsAre, DesignSteps DEF Places
<1>8. CASE p = 12
  BY <1>8, StationsAre, DesignSteps DEF Places
<1>9. CASE p = 14
  BY <1>9, StationsAre, ImplementationSteps DEF Places
<1>10. CASE p = 15
  BY <1>10, StationsAre, ImplementationSteps DEF Places
<1>11. CASE p = 17
  BY <1>11, StationsAre, EvaluationSteps DEF Places
<1>12. CASE p = 18
  BY <1>12, StationsAre, EvaluationSteps DEF Places
<1>13. CASE p = 19
  BY <1>13, StationsAre, EvaluationSteps DEF Places
<1>14. CASE p = 20
  BY <1>14, StationsAre, EvaluationSteps DEF Places
<1>15. CASE p = 22
  BY <1>15, StationsAre, DeliverySteps DEF Places
<1>16. CASE p = 23
  BY <1>16, StationsAre, DeliverySteps DEF Places
<1> QED
  BY <1>1, <1>2, <1>3, <1>4, <1>5, <1>6, <1>7, <1>8, <1>9, <1>10, <1>11, <1>12, <1>13,
     <1>14, <1>15, <1>16 DEF Places, LastPlaces

LEMMA StepsBeyond ==
  ASSUME NEW p \in Places, p \in LastPlaces, p # 25
  PROVE  Successors(PhaseAt(p), {Stations[p]}) = {}
<1>1. CASE p = 5
  BY <1>1, StationsAre, UnderstandingSteps
<1>2. CASE p = 8
  BY <1>2, StationsAre, ResearchSteps
<1>3. CASE p = 10
  BY <1>3, StationsAre, BaselineSteps
<1>4. CASE p = 13
  BY <1>4, StationsAre, DesignSteps
<1>5. CASE p = 16
  BY <1>5, StationsAre, ImplementationSteps
<1>6. CASE p = 21
  BY <1>6, StationsAre, EvaluationSteps
<1>7. CASE p = 24
  BY <1>7, StationsAre, DeliverySteps
<1> QED
  BY <1>1, <1>2, <1>3, <1>4, <1>5, <1>6, <1>7 DEF LastPlaces

LEMMA Entries ==
  ASSUME NEW q \in {9, 11, 14, 17, 22}
  PROVE  Entry(PhaseAt(q)) = {Stations[q]} /\ PhaseAt(q) # END
<1>1. CASE q = 9
  BY <1>1, StationsAre, BaselineSteps DEF END
<1>2. CASE q = 11
  BY <1>2, StationsAre, DesignSteps DEF END
<1>3. CASE q = 14
  BY <1>3, StationsAre, ImplementationSteps DEF END
<1>4. CASE q = 17
  BY <1>4, StationsAre, EvaluationSteps DEF END
<1>5. CASE q = 22
  BY <1>5, StationsAre, DeliverySteps DEF END
<1> QED
  BY <1>1, <1>2, <1>3, <1>4, <1>5

LEMMA Routes ==
  ASSUME NEW r, NEW p \in LastPlaces \ {25}, phase[r] = PhaseAt(p)
  PROVE  /\ p = 5 => Ahead(r) = PhaseAt(6)
         /\ p = 8 /\ At(r) = 0 => Ahead(r) = PhaseAt(9)
         /\ p = 10 /\ At(r) = 0 => Ahead(r) = PhaseAt(11)
         /\ p = 13 => Ahead(r) = PhaseAt(14)
         /\ p = 16 => Ahead(r) = PhaseAt(17)
         /\ p = 21 => Ahead(r) = PhaseAt(IF lab[r].iterations_without_improvement >= MaxIterations
                                        THEN 22 ELSE 11)
         /\ p = 24 => Ahead(r) = PhaseAt(25)
  BY StationsAre DEF Ahead, Route, Exhausted

\* A run that is not in the parallel block goes one place on; behind the
\* iteration it goes back to the design phase or on to delivery.
NextPlace(r, p) ==
  IF p = 21 /\ lab[r].iterations_without_improvement < MaxIterations THEN 11 ELSE p + 1

LEMMA Advance ==
  ASSUME Known, NEW r \in Runs, NEW p \in Places, AtPlace(r, p), LabAt(r, p), p # 6,
         NEW n \in todo[r], status[r] = "running", Finish(r, n), reruns'[r] = {},
         NEW q, q = NextPlace(r, p)
  PROVE  /\ p # 25 /\ n = Stations[p]
         /\ q \in Places /\ AtPlace(r, q)' /\ ran'[r] = {}
<1>1. /\ p # 25 /\ n = Stations[p] /\ phase[r] = PhaseAt(p)
      /\ todo[r] = {Stations[p]} /\ ran[r] = {}
  BY DEF AtPlace
<1>2. Finish(r, Stations[p])
  BY <1>1
<1>3. CASE p \notin LastPlaces
  <2>1. /\ p + 1 \in Places /\ p + 1 # 6 /\ PhaseAt(p + 1) = PhaseAt(p)
        /\ Successors(phase[r], {Stations[p]}) = {Stations[p + 1]}
    BY <1>1, <1>3, StepsWithin
  <2>2. /\ ran'[r] = {} /\ status'[r] # "new"
        /\ phase'[r] = phase[r] /\ todo'[r] = {Stations[p + 1]}
    BY <1>1, <1>2, <2>1, FinishWithin
  <2>3. p + 1 # 25
    BY <1>3 DEF Places, LastPlaces
  <2>4. AtPlace(r, p + 1)'
    BY <1>1, <2>1, <2>2, <2>3 DEF AtPlace
  <2>5. q = p + 1
    BY <1>3 DEF NextPlace, LastPlaces
  <2> QED BY <1>1, <2>1, <2>2, <2>4, <2>5
<1>4. CASE p \in LastPlaces
  <2>1. Successors(phase[r], {Stations[p]}) = {}
    BY <1>1, <1>4, StepsBeyond
  <2>2. /\ ran'[r] = {} /\ status'[r] # "new" /\ phase'[r] = Ahead(r)
        /\ todo'[r] = IF Ahead(r) = END THEN {} ELSE Entry(Ahead(r))
    BY <1>1, <1>2, <2>1, FinishPhase
  <2>3. Ahead(r) = PhaseAt(q)
    <3>1. p <= 10 => At(r) = 0
      BY DEF LabAt
    <3>2. (lab[r].iterations_without_improvement >= MaxIterations)
            = ~(lab[r].iterations_without_improvement < MaxIterations)
      BY RunsAssumption DEF LabAt
    <3> QED BY <1>1, <1>4, <3>1, <3>2, Routes DEF NextPlace, LastPlaces
  <2>4. q \in {6, 9, 11, 14, 17, 22, 25}
    BY <1>1, <1>4 DEF NextPlace, LastPlaces
  <2>5. CASE q = 6
    <3>1. phase'[r] = PhaseAt(6) /\ todo'[r] = Researchers
      BY <2>2, <2>3, <2>5, StationsAre, ResearchSteps DEF Researchers, END
    <3>2. AtPlace(r, 6)'
      BY <2>2, <3>1 DEF AtPlace, Researchers
    <3> QED BY <1>1, <2>2, <2>5, <3>2 DEF Places
  <2>6. CASE q = 25
    <3>1. phase'[r] = PhaseAt(25) /\ todo'[r] = {}
      BY <2>2, <2>3, <2>6, StationsAre
    <3>2. AtPlace(r, 25)'
      BY <2>2, <3>1 DEF AtPlace
    <3> QED BY <1>1, <2>2, <2>6, <3>2 DEF Places
  <2>7. CASE q \in {9, 11, 14, 17, 22}
    <3>1. Entry(PhaseAt(q)) = {Stations[q]} /\ PhaseAt(q) # END
      BY <2>7, Entries
    <3>2. phase'[r] = PhaseAt(q) /\ todo'[r] = {Stations[q]}
      BY <2>2, <2>3, <3>1
    <3>3. q # 1 /\ q # 6 /\ q # 25 /\ q \in Places
      BY <2>7 DEF Places
    <3>4. AtPlace(r, q)'
      BY <2>2, <3>2, <3>3 DEF AtPlace
    <3> QED BY <1>1, <2>2, <3>3, <3>4
  <2> QED BY <2>4, <2>5, <2>6, <2>7
<1> QED
  BY <1>3, <1>4

-----------------------------------------------------------------------------
(* What LabState says                                                      *)

\* Most nodes change nothing a place tells apart.
LEMMA LabStays ==
  ASSUME NEW r, NEW p \in Places, p \notin {1, 2, 3, 10, 11, 12, 15, 17, 21, 25},
         LabAt(r, p), lab'[r] = lab[r]
  PROVE  LabAt(r, p + 1)'
<1>1. CASE p = 4
  BY <1>1 DEF LabAt, PathOf, At
<1>2. CASE p = 5
  BY <1>2 DEF LabAt, PathOf, At
<1>3. CASE p = 6
  BY <1>3 DEF LabAt, PathOf, At
<1>4. CASE p = 7
  BY <1>4 DEF LabAt, PathOf, At
<1>5. CASE p = 8
  BY <1>5 DEF LabAt, PathOf, At
<1>6. CASE p = 9
  BY <1>6 DEF LabAt, PathOf, At
<1>7. CASE p = 13
  BY <1>7 DEF LabAt, PathOf, At
<1>8. CASE p = 14
  BY <1>8 DEF LabAt, PathOf, At
<1>9. CASE p = 16
  BY <1>9 DEF LabAt, PathOf, At
<1>10. CASE p = 18
  BY <1>10 DEF LabAt, PathOf, At
<1>11. CASE p = 19
  BY <1>11 DEF LabAt, PathOf, At
<1>12. CASE p = 20
  BY <1>12 DEF LabAt, PathOf, At
<1>13. CASE p = 22
  BY <1>13 DEF LabAt, PathOf, At
<1>14. CASE p = 23
  BY <1>14 DEF LabAt, PathOf, At
<1>15. CASE p = 24
  BY <1>15 DEF LabAt, PathOf, At
<1> QED
  BY <1>1, <1>2, <1>3, <1>4, <1>5, <1>6, <1>7, <1>8, <1>9, <1>10, <1>11, <1>12, <1>13,
     <1>14, <1>15 DEF Places

\* The lab of another run is not touched.
LEMMA LabSame ==
  ASSUME NEW r, NEW p \in Places, LabAt(r, p), lab'[r] = lab[r]
  PROVE  LabAt(r, p)'
BY DEF LabAt, PathOf, At

\* The three paths of phase 1, the baseline, the plan and the spec.
LEMMA LabReport ==
  ASSUME NEW r, LabAt(r, 1), lab'[r] = [lab[r] EXCEPT !.eda_report_path = Eda]
  PROVE  LabAt(r, 2)'
BY DEF LabAt, PathOf, At, NewLab

LEMMA LabProblem ==
  ASSUME NEW r, LabAt(r, 2), lab'[r] = [lab[r] EXCEPT !.problem_definition_path = Problem]
  PROVE  LabAt(r, 3)'
BY DEF LabAt, PathOf, At, NewLab

LEMMA LabFolds ==
  ASSUME NEW r, LabAt(r, 3), lab'[r] = [lab[r] EXCEPT !.validation_config_path = Folds]
  PROVE  LabAt(r, 4)'
BY DEF LabAt, PathOf, At, NewLab

LEMMA LabBaseline ==
  ASSUME NEW r, LabAt(r, 10),
         lab'[r] = [lab[r] EXCEPT !.baseline_results_path = <<"bresults", 0>>]
  PROVE  LabAt(r, 11)'
BY DEF LabAt, PathOf, At, NewLab

LEMMA LabPlan ==
  ASSUME NEW r, LabAt(r, 11),
         lab'[r] = [lab[r] EXCEPT !.solution_plan_path = <<"plan", At(r)>>]
  PROVE  LabAt(r, 12)'
BY DEF LabAt, PathOf, At, NewLab

LEMMA LabSpec ==
  ASSUME NEW r, LabAt(r, 12),
         lab'[r] = [lab[r] EXCEPT !.feature_spec_path = <<"spec", At(r)>>]
  PROVE  LabAt(r, 13)'
BY DEF LabAt, PathOf, At, NewLab

\* The experiment index has one entry per iteration.
LEMMA LabIndex ==
  ASSUME NEW r, LabAt(r, 15),
         lab'[r] = [lab[r] EXCEPT !.experiments = Append(lab[r].experiments, At(r))]
  PROVE  LabAt(r, 16)'
<1> DEFINE k == At(r)
<1>1. k \in Nat /\ lab[r].experiments = [j \in 1..k |-> j - 1]
  BY DEF LabAt
<1>2. Append(lab[r].experiments, k) = [j \in 1..(k + 1) |-> j - 1]
  BY <1>1
<1>3. /\ lab'[r].experiments = [j \in 1..(k + 1) |-> j - 1]
      /\ At(r)' = k /\ DOMAIN lab'[r] = DOMAIN NewLab
  BY <1>2 DEF LabAt, At, NewLab
<1>4. \A x \in DOMAIN NewLab \ {"experiments"} : lab'[r][x] = lab[r][x]
  BY DEF LabAt, NewLab
<1> QED
  BY <1>1, <1>3, <1>4 DEF LabAt, PathOf, NewLab, At

\* What is the last entry of the index, then, and of the iteration at work.
LEMMA IndexEntries ==
  ASSUME NEW r, NEW p \in Places, LabAt(r, p), NEW runs,
         runs = IF 15 < p /\ p <= 21 THEN At(r) + 1 ELSE At(r)
  PROVE  /\ BaseExperiments(r) = {"exp"} \X (0..(runs - 1))
         /\ Len(lab[r].experiments) = runs
         /\ 15 < p /\ p <= 21 => EvaluatedIteration(r) = At(r)
<1>1. runs \in Nat /\ lab[r].experiments = [j \in 1..runs |-> j - 1]
  BY DEF LabAt
<1>2. Len(lab[r].experiments) = runs
  BY <1>1
<1>3. BaseExperiments(r) = {<<"exp", j - 1>> : j \in 1..runs}
  BY <1>1, <1>2 DEF BaseExperiments
<1>4. {<<"exp", j - 1>> : j \in 1..runs} = {"exp"} \X (0..(runs - 1))
  <2>1. \A i \in 0..(runs - 1) : i + 1 \in 1..runs /\ (i + 1) - 1 = i
    BY <1>1
  <2>2. \A j \in 1..runs : j - 1 \in 0..(runs - 1)
    BY <1>1
  <2> QED BY <2>1, <2>2
<1>5. 15 < p /\ p <= 21 => EvaluatedIteration(r) = At(r)
  <2>1. SUFFICES ASSUME 15 < p, p <= 21 PROVE EvaluatedIteration(r) = At(r)
    OBVIOUS
  <2>2. At(r) \in Nat /\ runs = At(r) + 1
    BY <2>1 DEF LabAt
  <2> QED BY <1>1, <1>2, <2>2 DEF EvaluatedIteration
<1> QED
  BY <1>2, <1>3, <1>4, <1>5

\* The score: the best experiment is the one just scored or an earlier one.
LEMMA LabScore ==
  ASSUME NEW r \in Runs, LabAt(r, 17), DOMAIN lab = Runs, ScoreEvaluator(r)
  PROVE  LabAt(r, 18)'
<1> DEFINE k == At(r)
           stale == lab[r].iterations_without_improvement
<1>0. EvaluatedIteration(r) = k
  <2> 17 \in Places /\ k + 1 = IF 15 < 17 /\ 17 <= 21 THEN k + 1 ELSE k
    BY DEF Places
  <2> QED BY IndexEntries
<1>1. k \in Nat /\ stale \in 0..MaxIterations
      /\ stale < MaxIterations /\ k <= LastImprovement + stale
  BY DEF LabAt
<1>2. CASE /\ k < LastImprovement
           /\ lab'[r] = [lab[r] EXCEPT !.best_experiment_path = <<"exp", k>>,
                                       !.iterations_without_improvement = 0]
  <2>1. k + 1 <= LastImprovement
    BY <1>1, <1>2, RunsAssumption DEF LabAt
  <2>2. /\ lab'[r].best_experiment_path = <<"exp", k>>
        /\ lab'[r].iterations_without_improvement = 0
        /\ DOMAIN lab'[r] = DOMAIN NewLab
    BY <1>2 DEF LabAt, NewLab
  <2>3. \A x \in DOMAIN NewLab \ {"best_experiment_path", "iterations_without_improvement"} :
          lab'[r][x] = lab[r][x]
    BY <1>2 DEF LabAt, NewLab
  <2>4. At(r)' = k
    BY <2>3 DEF NewLab, At
  <2>5. \E i \in 0..k : lab'[r].best_experiment_path = <<"exp", i>>
    BY <1>1, <2>2
  <2> HIDE DEF k
  <2>6. /\ PathOf("plan", r, 18, 11)' = PathOf("plan", r, 17, 11)
        /\ PathOf("spec", r, 18, 12)' = PathOf("spec", r, 17, 12)
    BY <2>4 DEF PathOf, k
  <2>7. /\ lab'[r].eda_report_path = Eda /\ lab'[r].problem_definition_path = Problem
        /\ lab'[r].validation_config_path = Folds
        /\ lab'[r].baseline_results_path = <<"bresults", 0>>
        /\ lab'[r].solution_plan_path = PathOf("plan", r, 17, 11)
        /\ lab'[r].feature_spec_path = PathOf("spec", r, 17, 12)
        /\ lab'[r].experiments = [j \in 1..(k + 1) |-> j - 1]
    BY <2>3 DEF LabAt, NewLab, k
  <2> QED BY <1>1, <2>1, <2>2, <2>4, <2>5, <2>6, <2>7, RunsAssumption DEF LabAt, k
<1>3. CASE lab'[r] = [lab[r] EXCEPT !.iterations_without_improvement = stale + 1]
  <2>1. /\ lab'[r].iterations_without_improvement = stale + 1
        /\ DOMAIN lab'[r] = DOMAIN NewLab
    BY <1>3 DEF LabAt, NewLab
  <2>2. \A x \in DOMAIN NewLab \ {"iterations_without_improvement"} : lab'[r][x] = lab[r][x]
    BY <1>3 DEF LabAt, NewLab
  <2>3. \/ lab'[r].best_experiment_path = NoPath
        \/ \E i \in 0..k : lab'[r].best_experiment_path = <<"exp", i>>
    BY <1>1, <1>3, <2>2 DEF LabAt, NewLab
  <2>4. At(r)' = k
    BY <2>2 DEF NewLab, At
  <2>5. /\ PathOf("plan", r, 18, 11)' = PathOf("plan", r, 17, 11)
        /\ PathOf("spec", r, 18, 12)' = PathOf("spec", r, 17, 12)
    BY <2>4 DEF PathOf
  <2>6. /\ lab'[r].eda_report_path = Eda /\ lab'[r].problem_definition_path = Problem
        /\ lab'[r].validation_config_path = Folds
        /\ lab'[r].baseline_results_path = <<"bresults", 0>>
        /\ lab'[r].solution_plan_path = PathOf("plan", r, 17, 11)
        /\ lab'[r].feature_spec_path = PathOf("spec", r, 17, 12)
        /\ lab'[r].experiments = [j \in 1..(k + 1) |-> j - 1]
    BY <2>2 DEF LabAt, NewLab
  <2> HIDE DEF k, stale
  <2> QED
    BY <1>1, <2>1, <2>3, <2>4, <2>5, <2>6, RunsAssumption, SMTT(40) DEF LabAt, k, stale
<1> QED
  BY <1>0, <1>1, <1>2, <1>3, SMTT(40) DEF ScoreEvaluator, ReturnsLab

\* And the iteration is over.
LEMMA LabBehind ==
  ASSUME NEW r, NEW q \in {11, 22}, NEW k \in Nat, NEW stale \in 0..MaxIterations,
         lab'[r].current_iteration = k + 1, DOMAIN lab'[r] = DOMAIN NewLab,
         lab'[r].eda_report_path = Eda, lab'[r].problem_definition_path = Problem,
         lab'[r].validation_config_path = Folds,
         lab'[r].baseline_results_path = <<"bresults", 0>>,
         lab'[r].solution_plan_path = <<"plan", k>>,
         lab'[r].feature_spec_path = <<"spec", k>>,
         lab'[r].experiments = [j \in 1..(k + 1) |-> j - 1],
         \/ lab'[r].best_experiment_path = NoPath
         \/ \E i \in 0..k : lab'[r].best_experiment_path = <<"exp", i>>,
         lab'[r].iterations_without_improvement = stale,
         k + 1 <= LastImprovement + stale, q = 11 => stale < MaxIterations
  PROVE  LabAt(r, q)'
<1>1. k + 1 > 0 /\ (k + 1) - 1 = k
  OBVIOUS
<1>2. CASE q = 11
  BY <1>1, <1>2 DEF LabAt, PathOf, At
<1>3. CASE q = 22
  BY <1>1, <1>3 DEF LabAt, PathOf, At
<1> QED
  BY <1>2, <1>3

LEMMA LabIteration ==
  ASSUME NEW r, LabAt(r, 21), lab'[r] = [lab[r] EXCEPT !.current_iteration = At(r) + 1],
         NEW q, q = NextPlace(r, 21)
  PROVE  LabAt(r, q)'
<1> DEFINE k == At(r)
           stale == lab[r].iterations_without_improvement
<1>1. /\ k \in Nat /\ lab'[r].current_iteration = k + 1 /\ DOMAIN lab'[r] = DOMAIN NewLab
  BY DEF LabAt, NewLab
<1>2. \A x \in DOMAIN NewLab \ {"current_iteration"} : lab'[r][x] = lab[r][x]
  BY DEF LabAt, NewLab
<1>3. lab'[r].experiments = [j \in 1..(k + 1) |-> j - 1]
  BY <1>2 DEF LabAt, NewLab
<1>4. \/ lab'[r].best_experiment_path = NoPath
      \/ \E i \in 0..k : lab'[r].best_experiment_path = <<"exp", i>>
  BY <1>1, <1>2 DEF LabAt, NewLab
<1>5. lab[r].solution_plan_path = <<"plan", k>> /\ lab[r].feature_spec_path = <<"spec", k>>
  BY DEF LabAt, PathOf
<1>6. /\ lab'[r].eda_report_path = Eda /\ lab'[r].problem_definition_path = Problem
      /\ lab'[r].validation_config_path = Folds
      /\ lab'[r].baseline_results_path = <<"bresults", 0>>
      /\ lab'[r].solution_plan_path = <<"plan", k>> /\ lab'[r].feature_spec_path = <<"spec", k>>
      /\ lab'[r].iterations_without_improvement = stale
  BY <1>2, <1>5 DEF LabAt, NewLab
<1>7. stale \in 0..MaxIterations /\ k + 1 <= LastImprovement + stale
  BY DEF LabAt
<1>8. q \in {11, 22} /\ (q = 11 => stale < MaxIterations)
  BY DEF NextPlace
<1> HIDE DEF k, stale
<1> QED
  BY <1>1, <1>3, <1>4, <1>6, <1>7, <1>8, LabBehind

-----------------------------------------------------------------------------
(* Which files lie in the workspace                                        *)

Reports == {Eda, Problem}

\* Where each kind is written.
LEMMA KindsAre ==
  /\ \A k \in IterationKinds : k \notin OnceKinds /\ StationOf[k] \in 11..21
  /\ \A k \in OnceKinds \ {"eda", "problem"} : StationOf[k] \in (3..10) \cup (22..24)
  /\ \A k \in OnceKinds \ {"eda", "problem", "folds"} : StationOf[k] > 3
BY DEF IterationKinds, OnceKinds, StationOf

LEMMA StationsApart ==
  ASSUME NEW k \in (IterationKinds \cup OnceKinds) \ {"eda", "problem"},
         NEW l \in (IterationKinds \cup OnceKinds) \ {"eda", "problem"},
         StationOf[k] = StationOf[l], StationOf[k] # 6
  PROVE  k = l
BY DEF IterationKinds, OnceKinds, StationOf

LEMMA NamesAre ==
  /\ \A f \in Names : \/ f[1] \in OnceKinds /\ f = <<f[1], 0>>
                      \/ f[1] \in IterationKinds /\ f[2] \in Iterations /\ f = <<f[1], f[2]>>
  /\ \A k \in OnceKinds : <<k, 0>> \in Names
  /\ \A k \in IterationKinds, i \in Iterations : <<k, i>> \in Names
BY DEF Names

\* A write of the kind whose station the run leaves is all that Written waits
\* for,
LEMMA WrittenNext ==
  ASSUME NEW r, NEW p \in Places, p > 3, p < 25, p # 6, p # 21, At(r) \in Nat,
         At(r)' = At(r), ran'[r] = {}, NEW f \in Names \ Reports, StationOf[f[1]] = p,
         f[1] \in IterationKinds => f[2] = At(r), NEW g \in Names \ Reports
  PROVE  Written(r, p + 1, g)' <=> Written(r, p, g) \/ g = f
<1>1. /\ f[1] \in (IterationKinds \cup OnceKinds) \ {"eda", "problem"}
      /\ g[1] \in (IterationKinds \cup OnceKinds) \ {"eda", "problem"}
      /\ f[1] \in OnceKinds => f = <<f[1], 0>>
      /\ g[1] \in OnceKinds => g = <<g[1], 0>>
      /\ f[1] \in IterationKinds => f = <<f[1], f[2]>> /\ f[2] \in Iterations
      /\ g[1] \in IterationKinds => g = <<g[1], g[2]>> /\ g[2] \in Iterations
      /\ StationOf[g[1]] \in 3..24
  <2>1. \A h \in Names \ Reports : h[1] \notin {"eda", "problem"}
    BY NamesAre, KindsAre DEF Reports, Eda, Problem, IterationKinds
  <2> QED BY <2>1, NamesAre, KindsAre
<1>2. StationOf[g[1]] = p <=> g[1] = f[1]
  BY <1>1, StationsApart
<1>3. CASE g[1] \in IterationKinds
  <2>1. StationOf[g[1]] \in 11..21 /\ g[1] \notin OnceKinds
    BY <1>3, KindsAre
  <2>2. g[2] \in Nat
    BY <1>1, <1>3, RunsAssumption DEF Iterations
  <2>3. g = f <=> g[1] = f[1] /\ g[2] = At(r)
    BY <1>1, <1>3
  <2>4. Written(r, p, g) <=> g[2] < At(r) \/ (g[2] = At(r) /\ StationOf[g[1]] < p /\ p <= 21)
    BY <1>3 DEF Written
  <2>5. Written(r, p + 1, g)' <=>
          g[2] < At(r) \/ (g[2] = At(r) /\ StationOf[g[1]] < p + 1 /\ p + 1 <= 21)
    <3>1. g[1] # "literature" /\ g[1] # "web"
      BY <1>3 DEF IterationKinds
    <3> QED BY <1>3, <3>1 DEF Written
  <2>6. CASE g[2] < At(r)
    BY <2>2, <2>3, <2>4, <2>5, <2>6
  <2>7. CASE g[2] = At(r)
    <3>1. StationOf[g[1]] < p + 1 /\ p + 1 <= 21
            <=> (StationOf[g[1]] < p /\ p <= 21) \/ StationOf[g[1]] = p
      BY <2>1 DEF Places
    <3> QED BY <1>2, <2>3, <2>4, <2>5, <2>7, <3>1
  <2>8. CASE g[2] > At(r)
    BY <2>2, <2>3, <2>4, <2>5, <2>8
  <2> QED BY <2>2, <2>6, <2>7, <2>8
<1>4. CASE g[1] \notin IterationKinds
  <2>1. g = f <=> g[1] = f[1]
    BY <1>1, <1>4
  <2>2. Written(r, p, g) <=> StationOf[g[1]] < p
    BY <1>4 DEF Written
  <2>3. Written(r, p + 1, g)' <=> StationOf[g[1]] < p + 1
    <3>1. CASE p # 5
      <4>1. p + 1 # 6
        BY <3>1 DEF Places
      <4> QED BY <1>4, <4>1 DEF Written
    <3>2. CASE p = 5
      <4>1. StationOf["literature"] = 6 /\ StationOf["web"] = 6
        BY DEF StationOf
      <4> QED BY <1>4, <3>2, <4>1 DEF Written
    <3> QED BY <3>1, <3>2
  <2> QED BY <1>1, <1>2, <2>1, <2>2, <2>3 DEF Places
<1> QED
  BY <1>3, <1>4

\* the same behind the last node of the iteration,
LEMMA WrittenIteration ==
  ASSUME NEW r, At(r) \in Nat, At(r)' = At(r) + 1, NEW q \in {11, 22},
         NEW f \in Names \ Reports, f = <<"next_plan", At(r)>>, NEW g \in Names \ Reports
  PROVE  Written(r, q, g)' <=> Written(r, 21, g) \/ g = f
<1>1. StationOf["next_plan"] = 21 /\ f[1] = "next_plan" /\ f[2] = At(r)
      /\ f[1] \in IterationKinds
  BY DEF StationOf, IterationKinds
<1>2. f[1] \in (IterationKinds \cup OnceKinds) \ {"eda", "problem"}
      /\ g[1] \in (IterationKinds \cup OnceKinds) \ {"eda", "problem"}
  BY <1>1, NamesAre, KindsAre DEF Reports, Eda, Problem, IterationKinds
<1>3. CASE g[1] \in IterationKinds
  <2>1. StationOf[g[1]] \in 11..21 /\ g[2] \in Nat /\ g = <<g[1], g[2]>>
    BY <1>3, KindsAre, NamesAre, RunsAssumption DEF Iterations
  <2>2. Written(r, 21, g) <=> g[2] < At(r) \/ (g[2] = At(r) /\ StationOf[g[1]] < 21)
    BY <1>3 DEF Written
  <2>3. Written(r, q, g)' <=> g[2] < At(r) + 1
    BY <1>3, <2>1 DEF Written
  <2>4. g = f <=> g[1] = "next_plan" /\ g[2] = At(r)
    BY <1>1, <2>1
  <2>5. StationOf[g[1]] = 21 <=> g[1] = "next_plan"
    BY <1>1, <1>2, StationsApart
  <2> QED BY <2>1, <2>2, <2>3, <2>4, <2>5
<1>4. CASE g[1] \notin IterationKinds
  <2>1. g[1] \in OnceKinds \ {"eda", "problem"}
    BY <1>2, <1>4
  <2>2. StationOf[g[1]] \in (3..10) \cup (22..24)
    BY <2>1, KindsAre
  <2>3. Written(r, 21, g) <=> StationOf[g[1]] < 21
    BY <1>4 DEF Written
  <2>4. Written(r, q, g)' <=> StationOf[g[1]] < q
    BY <1>4 DEF Written
  <2>5. g # f
    BY <1>1, <1>4
  <2> QED BY <2>2, <2>3, <2>4, <2>5
<1> QED
  BY <1>3, <1>4

\* and in the parallel block, where the second of two ends it.
LEMMA WrittenResearch ==
  ASSUME NEW r, At(r) = 0, At(r)' = 0,
         NEW f, NEW n, \/ f = <<"literature", 0>> /\ n = "literature_researcher"
                       \/ f = <<"web", 0>> /\ n = "web_researcher",
         NEW g \in Names \ Reports
  PROVE  /\ ran'[r] = ran[r] \cup {n} => (Written(r, 6, g)' <=> Written(r, 6, g) \/ g = f)
         /\ ran[r] \cup {n} = Researchers => (Written(r, 7, g)' <=> Written(r, 6, g) \/ g = f)
<1>1. g[1] \in (IterationKinds \cup OnceKinds) \ {"eda", "problem"}
  BY NamesAre, KindsAre DEF Reports, Eda, Problem, IterationKinds
<1>2. f[1] \in {"literature", "web"} /\ f[1] \notin IterationKinds
  BY DEF IterationKinds
<1>3. CASE g[1] \in IterationKinds
  <2>1. g[2] \in Nat /\ StationOf[g[1]] \in 11..21
    BY <1>3, KindsAre, NamesAre, RunsAssumption DEF Iterations
  <2>2. g # f
    BY <1>2, <1>3
  <2>3. ~Written(r, 6, g) /\ ~Written(r, 6, g)' /\ ~Written(r, 7, g)'
    <3>1. g[1] # "literature" /\ g[1] # "web"
      BY <1>3 DEF IterationKinds
    <3> QED BY <1>3, <2>1, <3>1 DEF Written
  <2> QED BY <2>2, <2>3
<1>4. CASE g = <<"literature", 0>>
  <2>1. g[1] = "literature" /\ g[1] \notin IterationKinds
        /\ StationOf["literature"] = 6
    BY <1>4 DEF IterationKinds, StationOf
  <2>2. Written(r, 6, g) <=> "literature_researcher" \in ran[r]
    BY <2>1 DEF Written
  <2>3. Written(r, 6, g)' <=> "literature_researcher" \in ran'[r]
    BY <2>1 DEF Written
  <2>4. Written(r, 7, g)'
    BY <2>1 DEF Written
  <2> QED BY <1>4, <2>2, <2>3, <2>4 DEF Researchers
<1>5. CASE g = <<"web", 0>>
  <2>1. g[1] = "web" /\ g[1] \notin IterationKinds
        /\ StationOf["web"] = 6
    BY <1>5 DEF IterationKinds, StationOf
  <2>2. Written(r, 6, g) <=> "web_researcher" \in ran[r]
    BY <2>1 DEF Written
  <2>3. Written(r, 6, g)' <=> "web_researcher" \in ran'[r]
    BY <2>1 DEF Written
  <2>4. Written(r, 7, g)'
    BY <2>1 DEF Written
  <2> QED BY <1>5, <2>2, <2>3, <2>4 DEF Researchers
<1>6. CASE g[1] \notin IterationKinds /\ g # <<"literature", 0>> /\ g # <<"web", 0>>
  <2>1. g[1] # "literature" /\ g[1] # "web"
    BY <1>1, <1>6, NamesAre
  <2>2. /\ Written(r, 6, g) <=> StationOf[g[1]] < 6
        /\ Written(r, 6, g)' <=> StationOf[g[1]] < 6
        /\ Written(r, 7, g)' <=> StationOf[g[1]] < 7
    BY <1>6, <2>1 DEF Written
  <2>3. StationOf["literature"] = 6
    BY DEF StationOf
  <2>4. StationOf[g[1]] \in Int /\ StationOf[g[1]] # 6
    BY <1>1, <1>6, <2>1 DEF StationOf, OnceKinds
  <2> QED BY <1>6, <2>2, <2>4
<1> QED
  BY <1>3, <1>4, <1>5, <1>6

\* The parallel block: one of two returns, then the other.
LEMMA AdvanceResearch ==
  ASSUME Known, NEW r \in Runs, AtPlace(r, 6), NEW n \in todo[r], status[r] = "running",
         Finish(r, n), reruns'[r] = {}
  PROVE  /\ n \in Researchers
         /\ \/ AtPlace(r, 6)' /\ ran'[r] = ran[r] \cup {n}
            \/ AtPlace(r, 7)' /\ ran[r] \cup {n} = Researchers
<1>1. /\ phase[r] = "phase2_research" /\ n \in Researchers
      /\ todo[r] \cup ran[r] = Researchers /\ todo[r] \cap ran[r] = {}
  BY StationsAre DEF AtPlace
<1>2. CASE todo[r] # {n}
  <2>1. /\ todo' = [todo EXCEPT ![r] = todo[r] \ {n}]
        /\ ran' = [ran EXCEPT ![r] = ran[r] \cup {n}]
        /\ UNCHANGED <<phase, status>>
    BY <1>2 DEF Finish
  <2>2. /\ todo'[r] = todo[r] \ {n} /\ ran'[r] = ran[r] \cup {n}
        /\ phase'[r] = phase[r] /\ status'[r] = status[r]
    BY <2>1 DEF Known
  <2>3. /\ todo'[r] # {} /\ todo'[r] \cup ran'[r] = Researchers
        /\ todo'[r] \cap ran'[r] = {}
    BY <1>1, <1>2, <2>2
  <2>4. AtPlace(r, 6)'
    BY <1>1, <2>2, <2>3, StationsAre DEF AtPlace
  <2> QED BY <1>1, <2>2, <2>4
<1>3. CASE todo[r] = {n}
  <2>1. ran[r] \cup {n} = Researchers
    BY <1>1, <1>3
  <2>2. Successors(phase[r], ran[r] \cup {n}) = {"competition_analyst"}
    BY <1>1, <2>1, ResearchSteps DEF Researchers
  <2>3. /\ todo' = [todo EXCEPT ![r] = {"competition_analyst"}]
        /\ ran' = [ran EXCEPT ![r] = {}]
        /\ UNCHANGED <<phase, status>>
    BY <1>3, <2>2 DEF Finish
  <2>4. /\ todo'[r] = {"competition_analyst"} /\ ran'[r] = {}
        /\ phase'[r] = phase[r] /\ status'[r] = status[r]
    BY <2>3 DEF Known
  <2>5. AtPlace(r, 7)'
    BY <1>1, <2>4, StationsAre DEF AtPlace
  <2> QED BY <1>1, <2>1, <2>5
<1> QED
  BY <1>2, <1>3

\* A node's return moves no other run.
Only(r) ==
  /\ status[r] = "running"
  /\ \A s \in Runs \ {r} : /\ status'[s] = status[s] /\ phase'[s] = phase[s]
                           /\ todo'[s] = todo[s] /\ ran'[s] = ran[s]
                           /\ lab'[s] = lab[s] /\ reruns'[s] = reruns[s]

LEMMA OtherPlace ==
  ASSUME NEW r, NEW s \in Runs \ {r}, Only(r), NEW p, AtPlace(s, p), LabAt(s, p),
         p \in Places
  PROVE  AtPlace(s, p)' /\ LabAt(s, p)'
<1>1. /\ status'[s] = status[s] /\ phase'[s] = phase[s] /\ todo'[s] = todo[s]
      /\ ran'[s] = ran[s] /\ lab'[s] = lab[s] /\ reruns'[s] = reruns[s]
  BY DEF Only
<1>2. AtPlace(s, p)'
  BY <1>1 DEF AtPlace
<1> QED
  BY <1>1, <1>2, LabSame

\* What a write does to the workspace.
PutDid(r, f, ins, again) ==
  /\ \A g \in Names \ {f} : files'[g] = files[g]
  /\ files'[f].by = r /\ files'[f].ver = files[f].ver + 1 /\ files'[f].reran = again
  /\ DOMAIN files'[f].saw = ins
  /\ \A g \in ins \cap Names : files'[f].saw[g] = files[g].ver
  /\ \A g \in Names : files'[g].ver > 0 <=> files[g].ver > 0 \/ g = f

LEMMA PutDoes ==
  ASSUME DOMAIN files = Names, \A g \in Names : files[g].ver \in Nat,
         NEW r, NEW f \in Names, NEW ins, NEW again, Put(r, f, ins, again)
  PROVE  PutDid(r, f, ins, again)
<1>1. files' = [files EXCEPT ![f] = [by |-> r, ver |-> files[f].ver + 1,
                                     saw |-> Seen(ins), reran |-> again]]
  BY DEF Put
<1>2. \A g \in Names \ {f} : files'[g] = files[g]
  BY <1>1
<1>3. files'[f] = [by |-> r, ver |-> files[f].ver + 1, saw |-> Seen(ins), reran |-> again]
  BY <1>1
<1>4. DOMAIN Seen(ins) = ins /\ \A g \in ins \cap Names : Seen(ins)[g] = files[g].ver
  BY DEF Seen
<1>5. files[f].ver \in Nat /\ files'[f].ver > 0
  BY <1>3
<1> QED
  BY <1>2, <1>3, <1>4, <1>5 DEF PutDid

\* The writer's own workspace goes on to q,
LEMMA FilesNext ==
  ASSUME DOMAIN files = Names, \A g \in Names : files[g].ver \in Nat,
         NEW r, NEW p \in Places, NEW q \in Places, p > 3, q > 3, FilesAt(r, p),
         NEW f \in Names, f \notin Reports, f # Folds, NEW ins, NEW again, Put(r, f, ins, again),
         \A g \in Names \ Reports : Written(r, q, g)' <=> Written(r, p, g) \/ g = f
  PROVE  FilesAt(r, q)'
<1>1. /\ \A g \in Names \ {f} : files'[g] = files[g]
      /\ \A g \in Names : Present(g)' <=> Present(g) \/ g = f
  BY PutDoes, SMTT(40) DEF PutDid, Present
<1>2. Eda \in Names /\ Problem \in Names /\ Folds \in Names
  BY DEF Eda, Problem, Folds, Names, OnceKinds
<1>3. Present(Eda)' /\ Present(Problem)' /\ Froze(r)'
  <2>1. p > 1 /\ p > 2
    BY DEF Places
  <2>2. Present(Eda) /\ Present(Problem) /\ Froze(r)
    BY <2>1 DEF FilesAt
  <2>3. files'[Folds] = files[Folds]
    BY <1>1, <1>2
  <2> QED BY <1>1, <1>2, <2>2, <2>3 DEF Froze
<1>4. \A g \in Names \ Reports : Present(g)' <=> Written(r, q, g)'
  BY <1>1 DEF FilesAt, Reports
<1>5. ~(q <= 2) /\ q > 1 /\ q > 2
  BY DEF Places
<1> QED
  BY <1>3, <1>4, <1>5 DEF FilesAt, Reports

\* and nobody else's changes.
LEMMA FilesOthers ==
  ASSUME DOMAIN files = Names, \A g \in Names : files[g].ver \in Nat,
         NEW r, NEW s \in Runs \ {r}, Only(r), NEW p \in Places, FilesAt(s, p),
         NEW f \in Names, f \in Reports \/ p <= 3, NEW ins, NEW again, Put(r, f, ins, again)
  PROVE  FilesAt(s, p)'
<1>1. /\ \A g \in Names \ {f} : files'[g] = files[g]
      /\ \A g \in Names : Present(g)' <=> Present(g) \/ g = f
      /\ files'[f].by = r
  BY PutDoes, SMTT(40) DEF PutDid, Present
<1>2. Eda \in Names /\ Problem \in Names /\ Folds \in Names /\ Folds \notin Reports
  BY DEF Eda, Problem, Folds, Names, OnceKinds, Reports
<1>3. (p > 1 => Present(Eda)') /\ (p > 2 => Present(Problem)')
  BY <1>1, <1>2 DEF FilesAt
<1>4. Froze(s)' <=> p > 3
  <2>1. CASE f = Folds
    <3>1. p <= 3
      BY <1>2, <2>1
    <3> QED BY <1>1, <2>1, <3>1 DEF Froze, Places
  <2>2. CASE f # Folds
    <3>1. files'[Folds] = files[Folds] /\ (Present(Folds)' <=> Present(Folds))
      BY <1>1, <1>2, <2>2
    <3> QED BY <3>1 DEF Froze, FilesAt
  <2> QED BY <2>1, <2>2
<1>5. ASSUME p > 3, NEW g \in Names \ Reports
      PROVE  Present(g)' <=> Written(s, p, g)'
  <2>1. f \in Reports
    BY <1>5 DEF Places
  <2>2. Present(g)' <=> Present(g)
    BY <1>1, <1>5, <2>1
  <2>3. Present(g) <=> Written(s, p, g)
    BY <1>5 DEF FilesAt, Reports
  <2>4. Written(s, p, g)' <=> Written(s, p, g)
    BY DEF Written, Only, At
  <2> QED BY <2>2, <2>3, <2>4
<1>6. p <= 2 => \A g \in Names : Present(g)' /\ files'[g].by = s => DOMAIN files'[g].saw = {}
  BY <1>1 DEF FilesAt
<1> QED
  BY <1>3, <1>4, <1>5, <1>6 DEF FilesAt, Reports

-----------------------------------------------------------------------------
(* What a write does to what was read                                      *)

Verdicts == {"verdicts1", "verdicts4", "code_verdicts"}

LEMMA RecordsAre ==
  ASSUME NEW g \in Names
  PROVE  Record(g) \in Names /\ Record(g)[1] \in Verdicts
<1>1. /\ \A i \in Iterations : <<"verdicts4", i>> \in Names /\ <<"code_verdicts", i>> \in Names
      /\ <<"verdicts1", 0>> \in Names
  BY NamesAre DEF OnceKinds, IterationKinds
<1>2. CASE g[1] \in {"plan", "spec"}
  <2>1. g[1] \in IterationKinds /\ g[1] \notin OnceKinds
    BY <1>2 DEF IterationKinds, OnceKinds
  <2>2. g[2] \in Iterations
    BY <2>1, NamesAre
  <2>3. Record(g) = <<"verdicts4", g[2]>>
    BY <1>2 DEF Record
  <2>4. Record(g)[1] = "verdicts4"
    BY <2>3
  <2>5. Record(g) \in Names
    BY <1>1, <2>2, <2>3
  <2> QED BY <2>4, <2>5 DEF Verdicts
<1>3. CASE g[1] = "exp"
  <2>1. g[1] \in IterationKinds /\ g[1] \notin OnceKinds
    BY <1>3 DEF IterationKinds, OnceKinds
  <2>2. g[2] \in Iterations
    BY <2>1, NamesAre
  <2>3. Record(g) = <<"code_verdicts", g[2]>>
    BY <1>3 DEF Record
  <2>4. Record(g)[1] = "code_verdicts"
    BY <2>3
  <2>5. Record(g) \in Names
    BY <1>1, <2>2, <2>3
  <2> QED BY <2>4, <2>5 DEF Verdicts
<1>4. CASE g[1] \notin {"plan", "spec", "exp"}
  <2>1. Record(g) = <<"verdicts1", 0>>
    BY <1>4 DEF Record
  <2> QED BY <1>1, <2>1 DEF Verdicts
<1> QED
  BY <1>2, <1>3, <1>4

\* What the critic may do to a file that was read.
MayReplace(r, f) ==
  \/ \A h \in Names : Present(h) /\ files[h].by = r => DOMAIN files[h].saw = {}
  \/ Unrecorded(r, f)'

KeepsTrace(r, f, again) ==
  \/ reruns[r] = {}
  \/ reruns[r] \subseteq reruns'[r] /\ UNCHANGED <<phase, todo, lab>>
  \/ f = VerdictFile(r) /\ again = reruns[r]

\* A file that was there before the write keeps its trace.
LEMMA OldReads ==
  ASSUME DOMAIN files = Names, \A g \in Names : files[g].ver \in Nat, ReadsTraced,
         \A g \in Names : Present(g) => files[g].by \in Runs,
         NEW r \in Runs, Only(r), NEW f \in Names, NEW ins, NEW again, Put(r, f, ins, again),
         Present(f) => MayReplace(r, f), f[1] \in Verdicts => ~Present(f),
         KeepsTrace(r, f, again),
         NEW h \in Names \ {f}, Present(h), NEW g \in DOMAIN files[h].saw \ SourceFiles
  PROVE  /\ files'[h] = files[h] /\ g \in Names
         /\ files[h].saw[g] \in 1..files'[g].ver
         /\ \/ files[h].saw[g] = files'[g].ver
            \/ files'[g].by # files[h].by
            \/ Author(g[1]) \in files'[Record(g)].reran
            \/ \E by \in Runs : by = files[h].by /\ Unrecorded(by, g)'
<1>0. PICK by \in Runs : by = files[h].by
  OBVIOUS
<1>a. PutDid(r, f, ins, again)
  BY PutDoes
<1>1. /\ files'[h] = files[h]
      /\ \A x \in Names \ {f} : files'[x] = files[x]
      /\ files'[f].by = r /\ files'[f].ver = files[f].ver + 1 /\ files'[f].reran = again
  BY <1>a DEF PutDid
<1>2. /\ g \in Names /\ files[h].saw[g] \in 1..files[g].ver
      /\ \/ files[h].saw[g] = files[g].ver
         \/ files[g].by # by
         \/ Author(g[1]) \in files[Record(g)].reran
         \/ Unrecorded(by, g)
  BY <1>0 DEF ReadsTraced
<1>3. Record(g) \in Names /\ Record(g)[1] \in Verdicts
  BY <1>2, RecordsAre
<1>4. files[Record(g)].reran \subseteq files'[Record(g)].reran
  <2>1. CASE Record(g) = f
    <3>1. ~Present(f)
      BY <1>3, <2>1
    <3>2. files[f].reran = {}
      BY <3>1 DEF ReadsTraced
    <3> QED BY <2>1, <3>2
  <2>2. CASE Record(g) # f
    BY <1>1, <1>3, <2>2
  <2> QED BY <2>1, <2>2
<1>5. ASSUME by # r
      PROVE  Unrecorded(by, g) => Unrecorded(by, g)'
  <2>1. by \in Runs \ {r}
    BY <1>5
  <2>2. /\ phase'[by] = phase[by] /\ lab'[by] = lab[by] /\ reruns'[by] = reruns[by]
        /\ status'[by] = status[by] /\ todo'[by] = todo[by]
    BY <2>1 DEF Only
  <2> QED BY <2>2 DEF Unrecorded, VerdictFile, CriticNode, At
<1>6. ASSUME Unrecorded(by, g)
      PROVE  Author(g[1]) \in files'[Record(g)].reran \/ Unrecorded(by, g)'
  <2>1. CASE by # r
    BY <1>5, <1>6, <2>1
  <2>2. CASE by = r
    <3>0. Author(g[1]) \in reruns[r] /\ Record(g) = VerdictFile(r)
      BY <1>6, <2>2 DEF Unrecorded, Only
    <3>1. CASE reruns[r] \subseteq reruns'[r] /\ UNCHANGED <<phase, todo, lab>>
      BY <1>6, <2>2, <3>0, <3>1 DEF Unrecorded, VerdictFile, CriticNode, At
    <3>2. CASE f = VerdictFile(r) /\ again = reruns[r]
      BY <1>1, <3>0, <3>2
    <3> QED BY <3>0, <3>1, <3>2 DEF KeepsTrace
  <2> QED BY <2>1, <2>2
<1> DEFINE Traced == /\ g \in Names
                     /\ files[h].saw[g] \in 1..files'[g].ver
                     /\ \/ files[h].saw[g] = files'[g].ver
                        \/ files'[g].by # by
                        \/ Author(g[1]) \in files'[Record(g)].reran
                        \/ Unrecorded(by, g)'
<1>7. ASSUME g # f PROVE Traced
  <2>1. files'[g] = files[g]
    BY <1>1, <1>2, <1>7
  <2> QED BY <1>1, <1>2, <1>4, <1>6, <2>1
<1>8. ASSUME g = f PROVE Traced
  <2>1. Present(f)
    BY <1>2, <1>8 DEF Present
  <2>2. files[h].saw[g] \in 1..files'[g].ver
    BY <1>1, <1>2, <1>8
  <2>3. CASE by # r
    BY <1>1, <1>2, <1>8, <2>2, <2>3
  <2>4. CASE by = r
    <3>1. Unrecorded(r, f)'
      BY <1>0, <2>1, <2>4 DEF MayReplace
    <3> QED BY <1>1, <1>2, <1>8, <2>2, <2>4, <3>1
  <2> QED BY <2>3, <2>4
<1>9. Traced
  BY <1>7, <1>8
<1> QED
  BY <1>0, <1>1, <1>9

\* And what the write itself read was there.
LEMMA ReadsWrite ==
  ASSUME DOMAIN files = Names, \A g \in Names : files[g].ver \in Nat, ReadsTraced,
         \A g \in Names : Present(g) => files[g].by \in Runs,
         NEW r \in Runs, Only(r), NEW f \in Names, NEW ins, NEW again, Put(r, f, ins, again),
         \A g \in ins \ SourceFiles : g \in Names /\ g # f /\ Present(g),
         Present(f) => MayReplace(r, f), f[1] \in Verdicts => ~Present(f),
         KeepsTrace(r, f, again)
  PROVE  ReadsTraced'
<1>a. PutDid(r, f, ins, again)
  BY PutDoes
<1>1. /\ \A x \in Names \ {f} : files'[x] = files[x]
      /\ DOMAIN files'[f].saw = ins
      /\ \A g \in ins \cap Names : files'[f].saw[g] = files[g].ver
      /\ \A g \in Names : files'[g].ver > 0 <=> files[g].ver > 0 \/ g = f
  BY <1>a DEF PutDid
<1>2. ASSUME NEW h \in Names, ~Present(h)'
      PROVE  files'[h].reran = {}
  <2>1. h # f /\ ~Present(h)
    BY <1>1, <1>2 DEF Present
  <2> QED BY <1>1, <2>1 DEF ReadsTraced
<1>3. ASSUME NEW g \in ins \ SourceFiles
      PROVE  g \in Names /\ files'[f].saw[g] \in 1..files'[g].ver
             /\ files'[f].saw[g] = files'[g].ver
  <2>1. g \in Names /\ g # f /\ files[g].ver > 0
    BY <1>3 DEF Present
  <2> QED BY <1>1, <1>3, <2>1
<1>4. ASSUME NEW h \in Names \ {f}, Present(h)', NEW g \in DOMAIN files'[h].saw \ SourceFiles
      PROVE  /\ g \in Names
             /\ files'[h].saw[g] \in 1..files'[g].ver
             /\ \/ files'[h].saw[g] = files'[g].ver
                \/ files'[g].by # files'[h].by
                \/ Author(g[1]) \in files'[Record(g)].reran
                \/ \E by \in Runs : by = files'[h].by /\ Unrecorded(by, g)'
  <2>1. files'[h] = files[h] /\ Present(h) /\ g \in DOMAIN files[h].saw \ SourceFiles
    BY <1>1, <1>4 DEF Present
  <2>2. /\ g \in Names
        /\ files[h].saw[g] \in 1..files'[g].ver
        /\ \/ files[h].saw[g] = files'[g].ver
           \/ files'[g].by # files[h].by
           \/ Author(g[1]) \in files'[Record(g)].reran
           \/ \E by \in Runs : by = files[h].by /\ Unrecorded(by, g)'
    BY <2>1, OldReads
  <2> QED BY <2>1, <2>2
<1> QED
  BY <1>1, <1>2, <1>3, <1>4 DEF ReadsTraced

-----------------------------------------------------------------------------
(* And to the iterations                                                   *)

Delivered == {"report", "review", "submission"}

Unmixed(f, ins) ==
  /\ f[1] = "design" =>
       \/ \A g \in ins : g[1] \in IterationKinds => g[2] = f[2]
       \/ {g \in ins : g[1] \in IterationKinds /\ g[2] # f[2]} = {"exp"} \X (0..(f[2] - 1))
  /\ f[1] \in IterationKinds \ {"design"} =>
       \A g \in ins : g[1] \in IterationKinds => g[2] = f[2]
  /\ f[1] \in Delivered =>
       \A g \in Names : g[1] = "score" /\ Present(g) =>
           \E h \in ins : h[1] \in IterationKinds /\ h[2] >= g[2]
  /\ f[1] = "score" => \A h \in Names : h[1] \in Delivered => ~Present(h)

LEMMA MixWrite ==
  ASSUME DOMAIN files = Names, \A g \in Names : files[g].ver \in Nat, IterationsDoNotMix,
         NEW r \in Runs, NEW f \in Names, NEW ins, NEW again, Put(r, f, ins, again),
         Unmixed(f, ins)
  PROVE  IterationsDoNotMix'
<1>a. PutDid(r, f, ins, again)
  BY PutDoes
<1>1. /\ \A x \in Names \ {f} : files'[x] = files[x]
      /\ DOMAIN files'[f].saw = ins
      /\ \A g \in Names : files'[g].ver > 0 <=> files[g].ver > 0 \/ g = f
  BY <1>a DEF PutDid
<1> DEFINE read(h) == {g \in DOMAIN files'[h].saw : g[1] \in IterationKinds}
           others(h) == {g \in read(h) : g[2] # h[2]}
<1>2. ASSUME NEW h \in Names, files'[h].ver > 0
      PROVE  /\ h[1] = "design" => others(h) \in {{}, {"exp"} \X (0..(h[2] - 1))}
             /\ h[1] \in IterationKinds \ {"design"} => others(h) = {}
             /\ h[1] \in Delivered =>
                  \A g \in Names : g[1] = "score" /\ files'[g].ver > 0 =>
                      \E k \in read(h) : k[2] >= g[2]
  <2>1. CASE h = f
    <3>1. read(h) = {g \in ins : g[1] \in IterationKinds}
      BY <1>1, <2>1
    <3>2. others(h) = {g \in ins : g[1] \in IterationKinds /\ g[2] # f[2]}
      BY <2>1, <3>1
    <3> HIDE DEF read, others
    <3>3. h[1] = "design" => others(h) \in {{}, {"exp"} \X (0..(h[2] - 1))}
      BY <2>1, <3>2 DEF Unmixed
    <3>4. h[1] \in IterationKinds \ {"design"} => others(h) = {}
      BY <2>1, <3>2 DEF Unmixed
    <3>5. ASSUME h[1] \in Delivered, NEW g \in Names, g[1] = "score", files'[g].ver > 0
          PROVE  \E k \in read(h) : k[2] >= g[2]
      <4>1. Present(g)
        BY <1>1, <2>1, <3>5 DEF Present, Delivered
      <4>2. \E k \in ins : k[1] \in IterationKinds /\ k[2] >= g[2]
        BY <2>1, <3>5, <4>1 DEF Unmixed
      <4> QED BY <3>1, <4>2
    <3> QED BY <3>3, <3>4, <3>5
  <2>2. CASE h # f
    <3>1. files'[h] = files[h] /\ Present(h)
      BY <1>1, <1>2, <2>2 DEF Present
    <3>2. /\ h[1] = "design" => others(h) \in {{}, {"exp"} \X (0..(h[2] - 1))}
          /\ h[1] \in IterationKinds \ {"design"} => others(h) = {}
          /\ h[1] \in Delivered =>
               \A g \in Names : g[1] = "score" /\ Present(g) => \E k \in read(h) : k[2] >= g[2]
      BY <3>1 DEF IterationsDoNotMix, Delivered
    <3>3. ASSUME h[1] \in Delivered, NEW g \in Names, g[1] = "score", files'[g].ver > 0
          PROVE  Present(g)
      <4>1. f[1] # "score"
        BY <3>1, <3>3 DEF Unmixed
      <4> QED BY <1>1, <3>3, <4>1 DEF Present
    <3> HIDE DEF read, others
    <3> QED BY <3>2, <3>3
  <2> QED BY <2>1, <2>2
<1> HIDE DEF read, others
<1> QED
  BY <1>2 DEF IterationsDoNotMix, Present, Delivered, read, others

-----------------------------------------------------------------------------
(* A node's step, at its place                                             *)

Here(r, p) == AtPlace(r, p) /\ LabAt(r, p) /\ FilesAt(r, p)

LEMMA Traced ==
  ASSUME TraceInv
  PROVE  /\ IInv /\ Known /\ ReadsTraced /\ IterationsDoNotMix
         /\ \A f \in Names : files[f].ver \in Nat /\ (Present(f) => files[f].by \in Runs)
         /\ \A r \in Runs : \E p \in Places : Here(r, p)
BY DEF TraceInv, IInv, Known, Here

\* The kinds, with their stations.
LEMMA StationsOfKinds ==
  /\ StationOf["leakage"] = 4 /\ StationOf["verdicts1"] = 5
  /\ StationOf["literature"] = 6 /\ StationOf["web"] = 6
  /\ StationOf["competition"] = 7 /\ StationOf["memory"] = 8
  /\ StationOf["bdesign"] = 9 /\ StationOf["bresults"] = 10
  /\ StationOf["plan"] = 11 /\ StationOf["spec"] = 12 /\ StationOf["verdicts4"] = 13
  /\ StationOf["design"] = 14 /\ StationOf["exp"] = 15 /\ StationOf["code_verdicts"] = 16
  /\ StationOf["score"] = 17 /\ StationOf["importance"] = 18
  /\ StationOf["diagnosis"] = 19 /\ StationOf["hypotheses"] = 20
  /\ StationOf["next_plan"] = 21 /\ StationOf["review"] = 22
  /\ StationOf["report"] = 23 /\ StationOf["submission"] = 24
BY DEF StationOf

\* The iteration a run is at is one of the bounded ones.
LEMMA AtIteration ==
  ASSUME NEW r, NEW p \in Places, LabAt(r, p)
  PROVE  /\ At(r) \in Nat /\ (p <= 10 => At(r) = 0)
         /\ p <= 21 => At(r) \in Iterations /\ \A i \in Nat : i < At(r) => i \in Iterations
         /\ p > 21 => /\ At(r) - 1 \in Iterations /\ At(r) > 0
                      /\ \A i \in Nat : i < At(r) => i \in Iterations
<1> DEFINE stale == lab[r].iterations_without_improvement
<1>1. /\ At(r) \in Nat /\ stale \in 0..MaxIterations
      /\ p <= 10 => At(r) = 0
      /\ p > 21 => At(r) > 0
      /\ p <= 17 => stale < MaxIterations
      /\ At(r) + (IF 17 < p /\ p <= 21 THEN 1 ELSE 0) <= LastImprovement + stale
  BY DEF LabAt
<1> HIDE DEF stale
<1>2. CASE p <= 17
  BY <1>1, <1>2, RunsAssumption DEF Iterations, Places
<1>3. CASE 17 < p /\ p <= 21
  BY <1>1, <1>3, RunsAssumption DEF Iterations, Places
<1>4. CASE p > 21
  BY <1>1, <1>4, RunsAssumption DEF Iterations, Places
<1> QED
  BY <1>2, <1>3, <1>4 DEF Places

\* What lies there is what the stations before wrote.
LEMMA Lying ==
  ASSUME NEW r, NEW p \in Places, Here(r, p), p > 3
  PROVE  /\ Eda \in Names /\ Present(Eda)
         /\ Problem \in Names /\ Present(Problem)
         /\ Folds \in Names /\ Present(Folds)
         /\ \A k \in OnceKinds \ {"eda", "problem"} :
              p # 6 /\ StationOf[k] < p => <<k, 0>> \in Names /\ Present(<<k, 0>>)
         /\ \A k \in IterationKinds, i \in Nat :
              i < At(r) \/ (i = At(r) /\ StationOf[k] < p /\ p <= 21) =>
                <<k, i>> \in Names /\ Present(<<k, i>>)
<1>1. /\ Present(Eda) /\ Present(Problem) /\ Present(Folds)
      /\ \A f \in Names \ {Eda, Problem} : Present(f) <=> Written(r, p, f)
  <2>1. p > 1 /\ p > 2
    BY DEF Places
  <2> QED BY <2>1 DEF Here, FilesAt, Froze
<1>2. Eda \in Names /\ Problem \in Names /\ Folds \in Names
  BY DEF Eda, Problem, Folds, Names, OnceKinds
<1>3. ASSUME NEW k \in OnceKinds \ {"eda", "problem"}, p # 6, StationOf[k] < p
      PROVE  <<k, 0>> \in Names /\ Present(<<k, 0>>)
  <2>1. k \notin IterationKinds
    BY KindsAre
  <2>2. Written(r, p, <<k, 0>>)
    BY <1>3, <2>1 DEF Written
  <2>3. <<k, 0>> \in Names \ {Eda, Problem}
    BY NamesAre DEF Eda, Problem
  <2> QED BY <1>1, <2>2, <2>3
<1>4. ASSUME NEW k \in IterationKinds, NEW i \in Nat,
             i < At(r) \/ (i = At(r) /\ StationOf[k] < p /\ p <= 21)
      PROVE  <<k, i>> \in Names /\ Present(<<k, i>>)
  <2>1. k # "eda" /\ k # "problem" /\ k # "literature" /\ k # "web"
    BY DEF IterationKinds
  <2>2. Written(r, p, <<k, i>>)
    BY <1>4, <2>1 DEF Written
  <2>3. i \in Iterations
    <3>1. p <= 21 \/ p > 21
      BY DEF Places
    <3> QED BY <1>4, <3>1, AtIteration DEF Here
  <2>4. <<k, i>> \in Names \ {Eda, Problem}
    BY <2>1, <2>3, NamesAre DEF Eda, Problem
  <2> QED BY <1>1, <2>2, <2>4
<1> QED
  BY <1>1, <1>2, <1>3, <1>4

\* And nothing of the stations ahead.
LEMMA NotYet ==
  ASSUME NEW r, NEW p \in Places, Here(r, p), p > 3, NEW f \in Names \ Reports
  PROVE  /\ f[1] \in OnceKinds /\ StationOf[f[1]] >= p /\ p # 6 => ~Present(f)
         /\ f[1] \in IterationKinds /\ f[2] = At(r) /\ StationOf[f[1]] >= p => ~Present(f)
<1>1. Present(f) <=> Written(r, p, f)
  BY DEF Here, FilesAt, Reports
<1>2. ASSUME f[1] \in OnceKinds, StationOf[f[1]] >= p, p # 6
      PROVE  ~Present(f)
  <2>1. f[1] \notin IterationKinds
    BY <1>2, KindsAre
  <2>2. f[1] \in OnceKinds \ {"eda", "problem"}
    BY <1>2, <2>1, NamesAre DEF Reports, Eda, Problem
  <2>3. StationOf[f[1]] \in Int
    BY <2>2, KindsAre
  <2>4. Written(r, p, f) <=> StationOf[f[1]] < p
    BY <1>2, <2>1 DEF Written
  <2>5. ~(StationOf[f[1]] < p)
    BY <1>2, <2>3 DEF Places
  <2> QED BY <1>1, <2>4, <2>5
<1>3. ASSUME f[1] \in IterationKinds, f[2] = At(r), StationOf[f[1]] >= p
      PROVE  ~Present(f)
  <2>1. f[1] # "literature" /\ f[1] # "web"
    BY <1>3 DEF IterationKinds
  <2>2. At(r) \in Nat /\ StationOf[f[1]] \in 11..21
    BY <1>3, KindsAre, AtIteration DEF Here
  <2>3. Written(r, p, f) <=> f[2] < At(r) \/ (f[2] = At(r) /\ StationOf[f[1]] < p /\ p <= 21)
    BY <1>3, <2>1 DEF Written
  <2> QED BY <1>1, <1>3, <2>2, <2>3 DEF Places
<1> QED
  BY <1>2, <1>3

\* A node's step: what it writes, from what.
Fits(r, f, ins, again) ==
  /\ f \in Names
  /\ \A g \in ins \ SourceFiles : g \in Names /\ g # f /\ Present(g)
  /\ Present(f) => MayReplace(r, f)
  /\ f[1] \in Verdicts => ~Present(f)
  /\ KeepsTrace(r, f, again)
  /\ Unmixed(f, ins)
  /\ Put(r, f, ins, again)

\* Whoever writes it is at p or beyond the folds, and goes on to q.
LEMMA StepTraced ==
  ASSUME TraceInv, IInv', Known', NEW r \in Runs, Only(r),
         NEW p \in Places, Here(r, p), NEW q \in Places, Here(r, q)',
         NEW f, NEW ins, NEW again, Fits(r, f, ins, again),
         f \in Reports \/ p > 3 \/ ~Present(Folds)
  PROVE  TraceInv'
<1>1. /\ IInv /\ Known /\ ReadsTraced /\ IterationsDoNotMix
      /\ DOMAIN files = Names /\ \A g \in Names : files[g].ver \in Nat
      /\ \A g \in Names : Present(g) => files[g].by \in Runs
  BY Traced DEF Known
<1>2. /\ f \in Names /\ Put(r, f, ins, again)
      /\ \A g \in ins \ SourceFiles : g \in Names /\ g # f /\ Present(g)
      /\ Present(f) => MayReplace(r, f)
      /\ f[1] \in Verdicts => ~Present(f)
      /\ KeepsTrace(r, f, again) /\ Unmixed(f, ins)
  BY DEF Fits
<1>3. PutDid(r, f, ins, again)
  BY <1>1, <1>2, PutDoes
<1>4. ReadsTraced'
  BY <1>1, <1>2, ReadsWrite
<1>5. IterationsDoNotMix'
  BY <1>1, <1>2, MixWrite
<1>6. \A g \in Names : Present(g)' => files'[g].by \in Runs
  BY <1>1, <1>3 DEF PutDid, Present
<1>7. ASSUME NEW s \in Runs
      PROVE  \E o \in Places : AtPlace(s, o)' /\ LabAt(s, o)' /\ FilesAt(s, o)'
  <2>1. CASE s = r
    BY <2>1 DEF Here
  <2>2. CASE s # r
    <3>1. PICK o \in Places : Here(s, o)
      BY Traced
    <3>2. AtPlace(s, o)' /\ LabAt(s, o)'
      BY <2>2, <3>1, OtherPlace DEF Here
    <3>3. f \in Reports \/ o <= 3
      <4>1. o > 3 => Froze(s)
        BY <3>1 DEF Here, FilesAt
      <4>2. p > 3 => Froze(r)
        BY DEF Here, FilesAt
      <4> QED BY <2>2, <4>1, <4>2 DEF Froze, Places
    <3>4. FilesAt(s, o)'
      BY <1>1, <1>2, <2>2, <3>1, <3>3, FilesOthers DEF Here
    <3> QED BY <3>2, <3>4
  <2> QED BY <2>1, <2>2
<1> QED
  BY <1>4, <1>5, <1>6, <1>7 DEF TraceInv, Known

\* A node stands at one place only, but for the analysis critic.
LEMMA StationsDiffer ==
  ASSUME NEW p \in 1..24, NEW k \in 1..24, Stations[p] = Stations[k]
  PROVE  p = k \/ Stations[k] = "analysis_critic"
<1>1. CASE k = 1
  BY <1>1, StationsAre
<1>2. CASE k = 2
  BY <1>2, StationsAre
<1>3. CASE k = 3
  BY <1>3, StationsAre
<1>4. CASE k = 4
  BY <1>4, StationsAre
<1>5. CASE k = 5
  BY <1>5, StationsAre
<1>6. CASE k = 6
  BY <1>6, StationsAre
<1>7. CASE k = 7
  BY <1>7, StationsAre
<1>8. CASE k = 8
  BY <1>8, StationsAre
<1>9. CASE k = 9
  BY <1>9, StationsAre
<1>10. CASE k = 10
  BY <1>10, StationsAre
<1>11. CASE k = 11
  BY <1>11, StationsAre
<1>12. CASE k = 12
  BY <1>12, StationsAre
<1>13. CASE k = 13
  BY <1>13, StationsAre
<1>14. CASE k = 14
  BY <1>14, StationsAre
<1>15. CASE k = 15
  BY <1>15, StationsAre
<1>16. CASE k = 16
  BY <1>16, StationsAre
<1>17. CASE k = 17
  BY <1>17, StationsAre
<1>18. CASE k = 18
  BY <1>18, StationsAre
<1>19. CASE k = 19
  BY <1>19, StationsAre
<1>20. CASE k = 20
  BY <1>20, StationsAre
<1>21. CASE k = 21
  BY <1>21, StationsAre
<1>22. CASE k = 22
  BY <1>22, StationsAre
<1>23. CASE k = 23
  BY <1>23, StationsAre
<1>24. CASE k = 24
  BY <1>24, StationsAre
<1> QED
  BY <1>1, <1>2, <1>3, <1>4, <1>5, <1>6, <1>7, <1>8, <1>9, <1>10, <1>11, <1>12, <1>13,
     <1>14, <1>15, <1>16, <1>17, <1>18, <1>19, <1>20, <1>21, <1>22, <1>23, <1>24

LEMMA PlaceOf ==
  ASSUME NEW r, NEW p \in Places, AtPlace(r, p), NEW n \in todo[r],
         n \notin Researchers, n # "analysis_critic", NEW k \in 1..24, n = Stations[k]
  PROVE  p = k
<1>1. p # 6 /\ p # 25 /\ n = Stations[p]
  BY DEF AtPlace
<1>2. p \in 1..24
  BY <1>1 DEF Places
<1>3. Stations[p] = Stations[k] /\ Stations[k] # "analysis_critic"
  BY <1>1
<1> QED
  BY <1>2, <1>3, StationsDiffer

\* Whose turn it is tells where the run is.
LEMMA Stands ==
  ASSUME TraceInv, NEW r \in Runs, NEW k \in (1..24) \ {5, 6, 13}, Stations[k] \in todo[r]
  PROVE  Known /\ Here(r, k) /\ k \in Places
<1>1. PICK p \in Places : Here(r, p)
  BY Traced
<1>2. Stations[k] \notin Researchers /\ Stations[k] # "analysis_critic" /\ k \in 1..24
  BY StationsAre DEF Researchers
<1>3. p = k
  BY <1>1, <1>2, PlaceOf DEF Here
<1> QED BY <1>1, <1>3, Traced

\* What every node's return consists of.
Acts(r, n, f, ins, again) ==
  /\ n \in todo[r] /\ status[r] = "running" /\ Finish(r, n)
  /\ Put(r, f, ins, again)
  /\ reruns'[r] = {}
  /\ DOMAIN lab' = Runs /\ DOMAIN reruns' = Runs
  /\ \A s \in Runs \ {r} : lab'[s] = lab[s] /\ reruns'[s] = reruns[s]

LEMMA ReturnsActs ==
  ASSUME Known, NEW r \in Runs, NEW p, AtPlace(r, p), p \notin {5, 13, 16},
         NEW n, NEW f, NEW ins, Writes(r, f, ins), Returns(r, n)
  PROVE  Acts(r, n, f, ins, {}) /\ lab'[r] = lab[r] /\ reruns[r] = {}
BY DEF Known, AtPlace, Writes, Returns, Executes, Acts

LEMMA ActsOnly ==
  ASSUME Known, NEW r \in Runs, NEW n, NEW f \in Names, NEW ins, NEW again,
         Acts(r, n, f, ins, again)
  PROVE  Known' /\ Only(r)
<1>1. Finish(r, n) /\ Put(r, f, ins, again)
  BY DEF Acts
<1>2. /\ DOMAIN status' = Runs /\ DOMAIN phase' = Runs /\ DOMAIN todo' = Runs
      /\ DOMAIN ran' = Runs
      /\ \A s \in Runs \ {r} : /\ status'[s] = status[s] /\ phase'[s] = phase[s]
                               /\ todo'[s] = todo[s] /\ ran'[s] = ran[s]
  <2>1. CASE todo[r] # {n}
    BY <1>1, <2>1 DEF Known, Finish
  <2>2. CASE todo[r] = {n} /\ Successors(phase[r], ran[r] \cup {n}) # {}
    BY <1>1, <2>2 DEF Known, Finish
  <2>3. CASE todo[r] = {n} /\ Successors(phase[r], ran[r] \cup {n}) = {}
    BY <1>1, <2>3 DEF Known, Finish
  <2> QED BY <2>1, <2>2, <2>3
<1>3. DOMAIN files' = Names
  BY <1>1 DEF Put, Known
<1> QED
  BY <1>2, <1>3 DEF Known, Only, Acts

\* Behind the folds and outside the block: the node of place p writes a file of
\* that place, from files that lie there.
LEMMA NodeActs ==
  ASSUME TraceInv, IInv', NEW r \in Runs, NEW p \in Places, p > 3, p # 6, Here(r, p),
         NEW n, NEW f \in Names \ Reports, NEW ins, NEW again, Acts(r, n, f, ins, again),
         StationOf[f[1]] = p, f[1] \in IterationKinds => f[2] = At(r),
         \A g \in ins \ SourceFiles : g \in Names /\ Present(g),
         KeepsTrace(r, f, again), Unmixed(f, ins),
         At(r)' = IF p = 21 THEN At(r) + 1 ELSE At(r),
         p = 21 => f[1] = "next_plan",
         NEW q, q = NextPlace(r, p), LabAt(r, q)'
  PROVE  TraceInv'
<1>1. /\ IInv /\ Known /\ DOMAIN files = Names /\ \A g \in Names : files[g].ver \in Nat
  BY Traced DEF Known
<1>2. Known' /\ Only(r)
  BY <1>1, ActsOnly
<1>3. p # 25 /\ q \in Places /\ AtPlace(r, q)' /\ ran'[r] = {}
  <2>1. AtPlace(r, p) /\ LabAt(r, p)
    BY DEF Here
  <2>2. n \in todo[r] /\ status[r] = "running" /\ Finish(r, n) /\ reruns'[r] = {}
    BY DEF Acts
  <2> QED BY <1>1, <2>1, <2>2, Advance
<1>4. ~Present(f)
  <2>1. f[1] \in OnceKinds \/ f[1] \in IterationKinds
    BY NamesAre
  <2>2. StationOf[f[1]] >= p
    BY DEF Places
  <2> QED BY <2>1, <2>2, NotYet
<1>5. At(r) \in Nat
  BY AtIteration DEF Here
<1>6. Put(r, f, ins, again)
  BY DEF Acts
<1>7. ASSUME NEW g \in Names \ Reports
      PROVE  Written(r, q, g)' <=> Written(r, p, g) \/ g = f
  <2>1. CASE p # 21
    <3>1. q = p + 1 /\ p < 25 /\ At(r)' = At(r)
      BY <1>3, <2>1 DEF NextPlace, Places
    <3>2. Written(r, p + 1, g)' <=> Written(r, p, g) \/ g = f
      BY <1>3, <1>5, <2>1, <3>1, WrittenNext
    <3> QED BY <3>1, <3>2
  <2>2. CASE p = 21
    <3>1. q \in {11, 22} /\ At(r)' = At(r) + 1
      BY <2>2 DEF NextPlace
    <3>2. f = <<"next_plan", At(r)>>
      <4>1. f[1] \in IterationKinds /\ f[1] \notin OnceKinds
        BY <2>2 DEF IterationKinds, OnceKinds
      <4> QED BY <2>2, <4>1, NamesAre
    <3> QED BY <1>5, <2>2, <3>1, <3>2, WrittenIteration
  <2> QED BY <2>1, <2>2
<1>8. FilesAt(r, q)'
  <2>1. q > 3
    BY DEF NextPlace, Places
  <2>2. f # Folds
    <3>1. StationOf["folds"] = 3
      BY DEF StationOf
    <3> QED BY <3>1 DEF Folds, Places
  <2>3. FilesAt(r, p)
    BY DEF Here
  <2> QED BY <1>1, <1>3, <1>6, <1>7, <2>1, <2>2, <2>3, FilesNext
<1>9. Here(r, q)'
  BY <1>3, <1>8 DEF Here
<1>10. Fits(r, f, ins, again)
  BY <1>4, <1>6 DEF Fits
<1> QED
  BY <1>2, <1>3, <1>9, <1>10, StepTraced

LEMMA NodeWrites ==
  ASSUME TraceInv, IInv', NEW r \in Runs, NEW p \in Places, p > 3, p # 6, Here(r, p),
         NEW n, NEW f \in Names \ Reports, NEW ins, NEW again, Acts(r, n, f, ins, again),
         StationOf[f[1]] = p, f[1] \in IterationKinds => f[2] = At(r),
         \A g \in ins : g \in Names /\ Present(g),
         KeepsTrace(r, f, again), Unmixed(f, ins),
         At(r)' = IF p = 21 THEN At(r) + 1 ELSE At(r),
         p = 21 => f[1] = "next_plan",
         NEW q, q = NextPlace(r, p), LabAt(r, q)'
  PROVE  TraceInv'
<1>1. \A g \in ins \ SourceFiles : g \in Names /\ Present(g)
  OBVIOUS
<1> QED
  BY <1>1, NodeActs

LEMMA LeakageAuditorTraces ==
  ASSUME TraceInv, IInv', NEW r \in Runs, LeakageAuditor(r)
  PROVE  TraceInv'
<1> DEFINE f == <<"leakage", 0>>
           ins == {Eda, Problem}
<1>1. Known /\ Here(r, 4) /\ 4 \in Places
  <2>1. Stations[4] \in todo[r] /\ 4 \in (1..24) \ {5, 6, 13}
    BY StationsAre DEF LeakageAuditor, Returns, Executes
  <2> QED BY <2>1, Stands
<1>2. AtPlace(r, 4) /\ LabAt(r, 4)
  BY <1>1 DEF Here
<1>3. At(r) \in Nat /\ At(r) = 0
  BY <1>1, <1>2, AtIteration
<1>4. Writes(r, f, ins)
  BY <1>2, <1>3 DEF LeakageAuditor, LeakageAuditorWrites, LabAt, PathOf
<1>5. Acts(r, "leakage_auditor", f, ins, {}) /\ reruns[r] = {} /\ lab'[r] = lab[r]
  <2>1. Returns(r, "leakage_auditor")
    BY DEF LeakageAuditor
  <2>2. 4 \notin {5, 13, 16}
    OBVIOUS
  <2> HIDE DEF f, ins
  <2> QED BY <1>1, <1>2, <1>4, <2>1, <2>2, ReturnsActs
<1>6. LabAt(r, 5)'
  BY <1>1, <1>2, <1>5, LabStays
<1>7. At(r)' = At(r)
  BY <1>5 DEF At
<1>8. \A g \in ins : g \in Names /\ Present(g)
  <2>1. Eda \in Names /\ Present(Eda)
    BY <1>1, Lying
  <2>2. Problem \in Names /\ Present(Problem)
    BY <1>1, Lying
  <2> QED BY <2>1, <2>2
<1>9. f \in Names \ Reports /\ StationOf[f[1]] = 4 /\ (f[1] \in IterationKinds => f[2] = At(r))
  BY <1>3, NamesAre, StationsOfKinds DEF Reports, Eda, Problem, OnceKinds, IterationKinds
<1>10. Unmixed(f, ins)
  BY DEF Unmixed, IterationKinds, Delivered, Eda, Problem, Folds
<1>11. 5 = NextPlace(r, 4) /\ KeepsTrace(r, f, {})
  BY <1>5 DEF NextPlace, KeepsTrace
<1> HIDE DEF f, ins
<1> QED
  BY <1>1, <1>5, <1>6, <1>7, <1>8, <1>9, <1>10, <1>11, NodeWrites

LEMMA CompetitionAnalystTraces ==
  ASSUME TraceInv, IInv', NEW r \in Runs, CompetitionAnalyst(r)
  PROVE  TraceInv'
<1> DEFINE f == <<"competition", 0>>
           ins == {}
<1>1. Known /\ Here(r, 7) /\ 7 \in Places
  <2>1. Stations[7] \in todo[r] /\ 7 \in (1..24) \ {5, 6, 13}
    BY StationsAre DEF CompetitionAnalyst, Returns, Executes
  <2> QED BY <2>1, Stands
<1>2. AtPlace(r, 7) /\ LabAt(r, 7)
  BY <1>1 DEF Here
<1>3. At(r) \in Nat /\ At(r) = 0
  BY <1>1, <1>2, AtIteration
<1>4. Writes(r, f, ins)
  BY <1>2, <1>3 DEF CompetitionAnalyst, CompetitionAnalystWrites, LabAt, PathOf
<1>5. Acts(r, "competition_analyst", f, ins, {}) /\ reruns[r] = {} /\ lab'[r] = lab[r]
  <2>1. Returns(r, "competition_analyst")
    BY DEF CompetitionAnalyst
  <2>2. 7 \notin {5, 13, 16}
    OBVIOUS
  <2> HIDE DEF f, ins
  <2> QED BY <1>1, <1>2, <1>4, <2>1, <2>2, ReturnsActs
<1>6. LabAt(r, 8)'
  BY <1>1, <1>2, <1>5, LabStays
<1>7. At(r)' = At(r)
  BY <1>5 DEF At
<1>8. \A g \in ins : g \in Names /\ Present(g)
  OBVIOUS
<1>9. f \in Names \ Reports /\ StationOf[f[1]] = 7 /\ (f[1] \in IterationKinds => f[2] = At(r))
  BY <1>3, NamesAre, StationsOfKinds DEF Reports, Eda, Problem, OnceKinds, IterationKinds
<1>10. Unmixed(f, ins)
  BY DEF Unmixed, IterationKinds, Delivered, Eda, Problem, Folds
<1>11. 8 = NextPlace(r, 7) /\ KeepsTrace(r, f, {})
  BY <1>5 DEF NextPlace, KeepsTrace
<1> HIDE DEF f, ins
<1> QED
  BY <1>1, <1>5, <1>6, <1>7, <1>8, <1>9, <1>10, <1>11, NodeWrites

LEMMA MemoryManagerTraces ==
  ASSUME TraceInv, IInv', NEW r \in Runs, MemoryManager(r)
  PROVE  TraceInv'
<1> DEFINE f == <<"memory", 0>>
           ins == {Problem}
<1>1. Known /\ Here(r, 8) /\ 8 \in Places
  <2>1. Stations[8] \in todo[r] /\ 8 \in (1..24) \ {5, 6, 13}
    BY StationsAre DEF MemoryManager, Returns, Executes
  <2> QED BY <2>1, Stands
<1>2. AtPlace(r, 8) /\ LabAt(r, 8)
  BY <1>1 DEF Here
<1>3. At(r) \in Nat /\ At(r) = 0
  BY <1>1, <1>2, AtIteration
<1>4. Writes(r, f, ins)
  BY <1>2, <1>3 DEF MemoryManager, MemoryManagerWrites, LabAt, PathOf
<1>5. Acts(r, "memory_manager", f, ins, {}) /\ reruns[r] = {} /\ lab'[r] = lab[r]
  <2>1. Returns(r, "memory_manager")
    BY DEF MemoryManager
  <2>2. 8 \notin {5, 13, 16}
    OBVIOUS
  <2> HIDE DEF f, ins
  <2> QED BY <1>1, <1>2, <1>4, <2>1, <2>2, ReturnsActs
<1>6. LabAt(r, 9)'
  BY <1>1, <1>2, <1>5, LabStays
<1>7. At(r)' = At(r)
  BY <1>5 DEF At
<1>8. \A g \in ins : g \in Names /\ Present(g)
  <2>1. Problem \in Names /\ Present(Problem)
    BY <1>1, Lying
  <2> QED BY <2>1
<1>9. f \in Names \ Reports /\ StationOf[f[1]] = 8 /\ (f[1] \in IterationKinds => f[2] = At(r))
  BY <1>3, NamesAre, StationsOfKinds DEF Reports, Eda, Problem, OnceKinds, IterationKinds
<1>10. Unmixed(f, ins)
  BY DEF Unmixed, IterationKinds, Delivered, Eda, Problem, Folds
<1>11. 9 = NextPlace(r, 8) /\ KeepsTrace(r, f, {})
  BY <1>5 DEF NextPlace, KeepsTrace
<1> HIDE DEF f, ins
<1> QED
  BY <1>1, <1>5, <1>6, <1>7, <1>8, <1>9, <1>10, <1>11, NodeWrites

LEMMA BaselineDesignerTraces ==
  ASSUME TraceInv, IInv', NEW r \in Runs, BaselineDesigner(r)
  PROVE  TraceInv'
<1> DEFINE f == <<"bdesign", 0>>
           ins == {Problem, Eda}
<1>1. Known /\ Here(r, 9) /\ 9 \in Places
  <2>1. Stations[9] \in todo[r] /\ 9 \in (1..24) \ {5, 6, 13}
    BY StationsAre DEF BaselineDesigner, Returns, Executes
  <2> QED BY <2>1, Stands
<1>2. AtPlace(r, 9) /\ LabAt(r, 9)
  BY <1>1 DEF Here
<1>3. At(r) \in Nat /\ At(r) = 0
  BY <1>1, <1>2, AtIteration
<1>4. Writes(r, f, ins)
  BY <1>2, <1>3 DEF BaselineDesigner, BaselineDesignerWrites, LabAt, PathOf
<1>5. Acts(r, "baseline_designer", f, ins, {}) /\ reruns[r] = {} /\ lab'[r] = lab[r]
  <2>1. Returns(r, "baseline_designer")
    BY DEF BaselineDesigner
  <2>2. 9 \notin {5, 13, 16}
    OBVIOUS
  <2> HIDE DEF f, ins
  <2> QED BY <1>1, <1>2, <1>4, <2>1, <2>2, ReturnsActs
<1>6. LabAt(r, 10)'
  BY <1>1, <1>2, <1>5, LabStays
<1>7. At(r)' = At(r)
  BY <1>5 DEF At
<1>8. \A g \in ins : g \in Names /\ Present(g)
  <2>1. Problem \in Names /\ Present(Problem)
    BY <1>1, Lying
  <2>2. Eda \in Names /\ Present(Eda)
    BY <1>1, Lying
  <2> QED BY <2>1, <2>2
<1>9. f \in Names \ Reports /\ StationOf[f[1]] = 9 /\ (f[1] \in IterationKinds => f[2] = At(r))
  BY <1>3, NamesAre, StationsOfKinds DEF Reports, Eda, Problem, OnceKinds, IterationKinds
<1>10. Unmixed(f, ins)
  BY DEF Unmixed, IterationKinds, Delivered, Eda, Problem, Folds
<1>11. 10 = NextPlace(r, 9) /\ KeepsTrace(r, f, {})
  BY <1>5 DEF NextPlace, KeepsTrace
<1> HIDE DEF f, ins
<1> QED
  BY <1>1, <1>5, <1>6, <1>7, <1>8, <1>9, <1>10, <1>11, NodeWrites

LEMMA BaselineRunnerTraces ==
  ASSUME TraceInv, IInv', NEW r \in Runs, BaselineRunner(r)
  PROVE  TraceInv'
<1> DEFINE f == <<"bresults", 0>>
           ins == {<<"bdesign", 0>>, Folds}
<1>1. Known /\ Here(r, 10) /\ 10 \in Places
  <2>1. Stations[10] \in todo[r] /\ 10 \in (1..24) \ {5, 6, 13}
    BY StationsAre DEF BaselineRunner, ReturnsLab, Executes
  <2> QED BY <2>1, Stands
<1>2. AtPlace(r, 10) /\ LabAt(r, 10)
  BY <1>1 DEF Here
<1>3. At(r) \in Nat /\ At(r) = 0
  BY <1>1, <1>2, AtIteration
<1>4. Writes(r, f, ins)
  BY <1>2, <1>3 DEF BaselineRunner, BaselineRunnerWrites, LabAt, PathOf
<1>5. Acts(r, "baseline_runner", f, ins, {}) /\ reruns[r] = {}
      /\ lab'[r] = [lab[r] EXCEPT !.baseline_results_path = <<"bresults", 0>>]
  <2> DEFINE l == [lab[r] EXCEPT !.baseline_results_path = <<"bresults", 0>>]
  <2>1. ReturnsLab(r, "baseline_runner", l)
    BY DEF BaselineRunner
  <2>2. 10 \notin {5, 13, 16}
    OBVIOUS
  <2> HIDE DEF f, ins, l
  <2>3. Acts(r, "baseline_runner", f, ins, {}) /\ reruns[r] = {} /\ lab'[r] = l
    BY <1>1, <1>2, <1>4, <2>1, <2>2 DEF Known, AtPlace, Writes, ReturnsLab, Executes, Acts
  <2> QED BY <2>3 DEF l
<1>6. LabAt(r, 11)'
  BY <1>2, <1>5, LabBaseline
<1>7. At(r)' = At(r)
  BY <1>2, <1>5 DEF At, LabAt, NewLab
<1>8. \A g \in ins : g \in Names /\ Present(g)
  <2>1. <<"bdesign", 0>> \in Names /\ Present(<<"bdesign", 0>>)
    BY <1>1, <1>3, Lying, StationsOfKinds DEF OnceKinds
  <2>2. Folds \in Names /\ Present(Folds)
    BY <1>1, Lying
  <2> QED BY <2>1, <2>2
<1>9. f \in Names \ Reports /\ StationOf[f[1]] = 10 /\ (f[1] \in IterationKinds => f[2] = At(r))
  BY <1>3, NamesAre, StationsOfKinds DEF Reports, Eda, Problem, OnceKinds, IterationKinds
<1>10. Unmixed(f, ins)
  BY DEF Unmixed, IterationKinds, Delivered, Eda, Problem, Folds
<1>11. 11 = NextPlace(r, 10) /\ KeepsTrace(r, f, {})
  BY <1>5 DEF NextPlace, KeepsTrace
<1> HIDE DEF f, ins
<1> QED
  BY <1>1, <1>5, <1>6, <1>7, <1>8, <1>9, <1>10, <1>11, NodeWrites

LEMMA SolutionArchitectTraces ==
  ASSUME TraceInv, IInv', NEW r \in Runs, SolutionArchitect(r)
  PROVE  TraceInv'
<1> DEFINE f == <<"plan", At(r)>>
           ins == {<<"bresults", 0>>}
<1>1. Known /\ Here(r, 11) /\ 11 \in Places
  <2>1. Stations[11] \in todo[r] /\ 11 \in (1..24) \ {5, 6, 13}
    BY StationsAre DEF SolutionArchitect, ReturnsLab, Executes
  <2> QED BY <2>1, Stands
<1>2. AtPlace(r, 11) /\ LabAt(r, 11)
  BY <1>1 DEF Here
<1>3. At(r) \in Nat /\ At(r) \in Iterations
  BY <1>1, <1>2, AtIteration
<1>4. Writes(r, f, ins)
  BY <1>2, <1>3 DEF SolutionArchitect, SolutionArchitectWrites, LabAt, PathOf
<1>5. Acts(r, "solution_architect", f, ins, {}) /\ reruns[r] = {}
      /\ lab'[r] = [lab[r] EXCEPT !.solution_plan_path = <<"plan", At(r)>>]
  <2> DEFINE l == [lab[r] EXCEPT !.solution_plan_path = <<"plan", At(r)>>]
  <2>1. ReturnsLab(r, "solution_architect", l)
    BY DEF SolutionArchitect
  <2>2. 11 \notin {5, 13, 16}
    OBVIOUS
  <2> HIDE DEF f, ins, l
  <2>3. Acts(r, "solution_architect", f, ins, {}) /\ reruns[r] = {} /\ lab'[r] = l
    BY <1>1, <1>2, <1>4, <2>1, <2>2 DEF Known, AtPlace, Writes, ReturnsLab, Executes, Acts
  <2> QED BY <2>3 DEF l
<1>6. LabAt(r, 12)'
  BY <1>2, <1>5, LabPlan
<1>7. At(r)' = At(r)
  BY <1>2, <1>5 DEF At, LabAt, NewLab
<1>8. \A g \in ins : g \in Names /\ Present(g)
  <2>1. <<"bresults", 0>> \in Names /\ Present(<<"bresults", 0>>)
    BY <1>1, <1>3, Lying, StationsOfKinds DEF OnceKinds
  <2> QED BY <2>1
<1>9. f \in Names \ Reports /\ StationOf[f[1]] = 11 /\ (f[1] \in IterationKinds => f[2] = At(r))
  BY <1>3, NamesAre, StationsOfKinds DEF Reports, Eda, Problem, OnceKinds, IterationKinds
<1>10. Unmixed(f, ins)
  BY DEF Unmixed, IterationKinds, Delivered, Eda, Problem, Folds
<1>11. 12 = NextPlace(r, 11) /\ KeepsTrace(r, f, {})
  BY <1>5 DEF NextPlace, KeepsTrace
<1> HIDE DEF f, ins
<1> QED
  BY <1>1, <1>5, <1>6, <1>7, <1>8, <1>9, <1>10, <1>11, NodeWrites

LEMMA FeatureEngineerTraces ==
  ASSUME TraceInv, IInv', NEW r \in Runs, FeatureEngineer(r)
  PROVE  TraceInv'
<1> DEFINE f == <<"spec", At(r)>>
           ins == {<<"plan", At(r)>>, Eda}
<1>1. Known /\ Here(r, 12) /\ 12 \in Places
  <2>1. Stations[12] \in todo[r] /\ 12 \in (1..24) \ {5, 6, 13}
    BY StationsAre DEF FeatureEngineer, ReturnsLab, Executes
  <2> QED BY <2>1, Stands
<1>2. AtPlace(r, 12) /\ LabAt(r, 12)
  BY <1>1 DEF Here
<1>3. At(r) \in Nat /\ At(r) \in Iterations
  BY <1>1, <1>2, AtIteration
<1>4. Writes(r, f, ins)
  BY <1>2, <1>3 DEF FeatureEngineer, FeatureEngineerWrites, LabAt, PathOf
<1>5. Acts(r, "feature_engineer", f, ins, {}) /\ reruns[r] = {}
      /\ lab'[r] = [lab[r] EXCEPT !.feature_spec_path = <<"spec", At(r)>>]
  <2> DEFINE l == [lab[r] EXCEPT !.feature_spec_path = <<"spec", At(r)>>]
  <2>1. ReturnsLab(r, "feature_engineer", l)
    BY DEF FeatureEngineer
  <2>2. 12 \notin {5, 13, 16}
    OBVIOUS
  <2> HIDE DEF f, ins, l
  <2>3. Acts(r, "feature_engineer", f, ins, {}) /\ reruns[r] = {} /\ lab'[r] = l
    BY <1>1, <1>2, <1>4, <2>1, <2>2 DEF Known, AtPlace, Writes, ReturnsLab, Executes, Acts
  <2> QED BY <2>3 DEF l
<1>6. LabAt(r, 13)'
  BY <1>2, <1>5, LabSpec
<1>7. At(r)' = At(r)
  BY <1>2, <1>5 DEF At, LabAt, NewLab
<1>8. \A g \in ins : g \in Names /\ Present(g)
  <2>1. <<"plan", At(r)>> \in Names /\ Present(<<"plan", At(r)>>)
    BY <1>1, <1>3, Lying, StationsOfKinds DEF IterationKinds
  <2>2. Eda \in Names /\ Present(Eda)
    BY <1>1, Lying
  <2> QED BY <2>1, <2>2
<1>9. f \in Names \ Reports /\ StationOf[f[1]] = 12 /\ (f[1] \in IterationKinds => f[2] = At(r))
  BY <1>3, NamesAre, StationsOfKinds DEF Reports, Eda, Problem, OnceKinds, IterationKinds
<1>10. Unmixed(f, ins)
  BY DEF Unmixed, IterationKinds, Delivered, Eda, Problem, Folds
<1>11. 13 = NextPlace(r, 12) /\ KeepsTrace(r, f, {})
  BY <1>5 DEF NextPlace, KeepsTrace
<1> HIDE DEF f, ins
<1> QED
  BY <1>1, <1>5, <1>6, <1>7, <1>8, <1>9, <1>10, <1>11, NodeWrites

LEMMA CoderTraces ==
  ASSUME TraceInv, IInv', NEW r \in Runs, Coder(r)
  PROVE  TraceInv'
<1> DEFINE f == <<"exp", At(r)>>
           ins == {<<"design", At(r)>>, <<"spec", At(r)>>, Folds, <<"bdesign", 0>>}
<1>1. Known /\ Here(r, 15) /\ 15 \in Places
  <2>1. Stations[15] \in todo[r] /\ 15 \in (1..24) \ {5, 6, 13}
    BY StationsAre DEF Coder, ReturnsLab, Executes
  <2> QED BY <2>1, Stands
<1>2. AtPlace(r, 15) /\ LabAt(r, 15)
  BY <1>1 DEF Here
<1>3. At(r) \in Nat /\ At(r) \in Iterations
  BY <1>1, <1>2, AtIteration
<1>4. Writes(r, f, ins)
  BY <1>2, <1>3 DEF Coder, CoderWrites, FeatureSpecRef, NoPath, LabAt, PathOf
<1>5. Acts(r, "coder", f, ins, {}) /\ reruns[r] = {}
      /\ lab'[r] = [lab[r] EXCEPT !.experiments = Append(lab[r].experiments, At(r))]
  <2> DEFINE l == [lab[r] EXCEPT !.experiments = Append(lab[r].experiments, At(r))]
  <2>1. ReturnsLab(r, "coder", l)
    BY DEF Coder
  <2>2. 15 \notin {5, 13, 16}
    OBVIOUS
  <2> HIDE DEF f, ins, l
  <2>3. Acts(r, "coder", f, ins, {}) /\ reruns[r] = {} /\ lab'[r] = l
    BY <1>1, <1>2, <1>4, <2>1, <2>2 DEF Known, AtPlace, Writes, ReturnsLab, Executes, Acts
  <2> QED BY <2>3 DEF l
<1>6. LabAt(r, 16)'
  BY <1>2, <1>5, LabIndex
<1>7. At(r)' = At(r)
  BY <1>2, <1>5 DEF At, LabAt, NewLab
<1>8. \A g \in ins : g \in Names /\ Present(g)
  <2>1. <<"design", At(r)>> \in Names /\ Present(<<"design", At(r)>>)
    BY <1>1, <1>3, Lying, StationsOfKinds DEF IterationKinds
  <2>2. <<"spec", At(r)>> \in Names /\ Present(<<"spec", At(r)>>)
    BY <1>1, <1>3, Lying, StationsOfKinds DEF IterationKinds
  <2>3. Folds \in Names /\ Present(Folds)
    BY <1>1, Lying
  <2>4. <<"bdesign", 0>> \in Names /\ Present(<<"bdesign", 0>>)
    BY <1>1, <1>3, Lying, StationsOfKinds DEF OnceKinds
  <2> QED BY <2>1, <2>2, <2>3, <2>4
<1>9. f \in Names \ Reports /\ StationOf[f[1]] = 15 /\ (f[1] \in IterationKinds => f[2] = At(r))
  BY <1>3, NamesAre, StationsOfKinds DEF Reports, Eda, Problem, OnceKinds, IterationKinds
<1>10. Unmixed(f, ins)
  BY DEF Unmixed, IterationKinds, Delivered, Eda, Problem, Folds
<1>11. 16 = NextPlace(r, 15) /\ KeepsTrace(r, f, {})
  BY <1>5 DEF NextPlace, KeepsTrace
<1> HIDE DEF f, ins
<1> QED
  BY <1>1, <1>5, <1>6, <1>7, <1>8, <1>9, <1>10, <1>11, NodeWrites

LEMMA FeatureImportanceExtractorTraces ==
  ASSUME TraceInv, IInv', NEW r \in Runs, FeatureImportanceExtractor(r)
  PROVE  TraceInv'
<1> DEFINE f == <<"importance", At(r)>>
           ins == {<<"exp", At(r)>>, <<"design", At(r)>>}
<1>1. Known /\ Here(r, 18) /\ 18 \in Places
  <2>1. Stations[18] \in todo[r] /\ 18 \in (1..24) \ {5, 6, 13}
    BY StationsAre DEF FeatureImportanceExtractor, Returns, Executes
  <2> QED BY <2>1, Stands
<1>2. AtPlace(r, 18) /\ LabAt(r, 18)
  BY <1>1 DEF Here
<1>3. At(r) \in Nat /\ At(r) \in Iterations
  BY <1>1, <1>2, AtIteration
<1>4. Writes(r, f, ins)
  <2>1. EvaluatedIteration(r) = At(r)
    <3>1. At(r) + 1 = IF 15 < 18 /\ 18 <= 21 THEN At(r) + 1 ELSE At(r)
      OBVIOUS
    <3> QED BY <1>1, <1>2, <3>1, IndexEntries
  <2> QED BY <2>1 DEF FeatureImportanceExtractor, ImportanceExtractorWrites
<1>5. Acts(r, "feature_importance_extractor", f, ins, {}) /\ reruns[r] = {} /\ lab'[r] = lab[r]
  <2>1. Returns(r, "feature_importance_extractor")
    BY DEF FeatureImportanceExtractor
  <2>2. 18 \notin {5, 13, 16}
    OBVIOUS
  <2> HIDE DEF f, ins
  <2> QED BY <1>1, <1>2, <1>4, <2>1, <2>2, ReturnsActs
<1>6. LabAt(r, 19)'
  BY <1>1, <1>2, <1>5, LabStays
<1>7. At(r)' = At(r)
  BY <1>5 DEF At
<1>8. \A g \in ins : g \in Names /\ Present(g)
  <2>1. <<"exp", At(r)>> \in Names /\ Present(<<"exp", At(r)>>)
    BY <1>1, <1>3, Lying, StationsOfKinds DEF IterationKinds
  <2>2. <<"design", At(r)>> \in Names /\ Present(<<"design", At(r)>>)
    BY <1>1, <1>3, Lying, StationsOfKinds DEF IterationKinds
  <2> QED BY <2>1, <2>2
<1>9. f \in Names \ Reports /\ StationOf[f[1]] = 18 /\ (f[1] \in IterationKinds => f[2] = At(r))
  BY <1>3, NamesAre, StationsOfKinds DEF Reports, Eda, Problem, OnceKinds, IterationKinds
<1>10. Unmixed(f, ins)
  BY DEF Unmixed, IterationKinds, Delivered, Eda, Problem, Folds
<1>11. 19 = NextPlace(r, 18) /\ KeepsTrace(r, f, {})
  BY <1>5 DEF NextPlace, KeepsTrace
<1> HIDE DEF f, ins
<1> QED
  BY <1>1, <1>5, <1>6, <1>7, <1>8, <1>9, <1>10, <1>11, NodeWrites

LEMMA HypothesisGeneratorTraces ==
  ASSUME TraceInv, IInv', NEW r \in Runs, HypothesisGenerator(r)
  PROVE  TraceInv'
<1> DEFINE f == <<"hypotheses", At(r)>>
           ins == {<<"diagnosis", At(r)>>}
<1>1. Known /\ Here(r, 20) /\ 20 \in Places
  <2>1. Stations[20] \in todo[r] /\ 20 \in (1..24) \ {5, 6, 13}
    BY StationsAre DEF HypothesisGenerator, Returns, Executes
  <2> QED BY <2>1, Stands
<1>2. AtPlace(r, 20) /\ LabAt(r, 20)
  BY <1>1 DEF Here
<1>3. At(r) \in Nat /\ At(r) \in Iterations
  BY <1>1, <1>2, AtIteration
<1>4. Writes(r, f, ins)
  BY <1>2, <1>3 DEF HypothesisGenerator, HypothesisGeneratorWrites, LabAt, PathOf
<1>5. Acts(r, "hypothesis_generator", f, ins, {}) /\ reruns[r] = {} /\ lab'[r] = lab[r]
  <2>1. Returns(r, "hypothesis_generator")
    BY DEF HypothesisGenerator
  <2>2. 20 \notin {5, 13, 16}
    OBVIOUS
  <2> HIDE DEF f, ins
  <2> QED BY <1>1, <1>2, <1>4, <2>1, <2>2, ReturnsActs
<1>6. LabAt(r, 21)'
  BY <1>1, <1>2, <1>5, LabStays
<1>7. At(r)' = At(r)
  BY <1>5 DEF At
<1>8. \A g \in ins : g \in Names /\ Present(g)
  <2>1. <<"diagnosis", At(r)>> \in Names /\ Present(<<"diagnosis", At(r)>>)
    BY <1>1, <1>3, Lying, StationsOfKinds DEF IterationKinds
  <2> QED BY <2>1
<1>9. f \in Names \ Reports /\ StationOf[f[1]] = 20 /\ (f[1] \in IterationKinds => f[2] = At(r))
  BY <1>3, NamesAre, StationsOfKinds DEF Reports, Eda, Problem, OnceKinds, IterationKinds
<1>10. Unmixed(f, ins)
  BY DEF Unmixed, IterationKinds, Delivered, Eda, Problem, Folds
<1>11. 21 = NextPlace(r, 20) /\ KeepsTrace(r, f, {})
  BY <1>5 DEF NextPlace, KeepsTrace
<1> HIDE DEF f, ins
<1> QED
  BY <1>1, <1>5, <1>6, <1>7, <1>8, <1>9, <1>10, <1>11, NodeWrites

\* The bases of an ensemble are the experiments of the index.
LEMMA SpecialistSelectorTraces ==
  ASSUME TraceInv, IInv', NEW r \in Runs, SpecialistSelector(r)
  PROVE  TraceInv'
<1>1. Known /\ Here(r, 14) /\ 14 \in Places
  <2>1. Stations[14] \in todo[r] /\ 14 \in (1..24) \ {5, 6, 13}
    BY StationsAre DEF SpecialistSelector, Returns, Executes
  <2> QED BY <2>1, Stands
<1>2. AtPlace(r, 14) /\ LabAt(r, 14)
  BY <1>1 DEF Here
<1> DEFINE f == <<"design", At(r)>>
           own == {Problem, <<"plan", At(r)>>, Folds}
           bases == {"exp"} \X (0..(At(r) - 1))
<1>3. At(r) \in Nat /\ At(r) \in Iterations
  BY <1>1, <1>2, AtIteration
<1>4. PICK ins : (ins = own \/ ins = own \cup bases) /\ Writes(r, f, ins)
  <2>1. At(r) = IF 15 < 14 /\ 14 <= 21 THEN At(r) + 1 ELSE At(r)
    OBVIOUS
  <2>2. BaseExperiments(r) = bases
    BY <1>1, <1>2, <2>1, IndexEntries
  <2>3. /\ lab[r].problem_definition_path = Problem /\ lab[r].validation_config_path = Folds
        /\ lab[r].solution_plan_path = <<"plan", At(r)>>
    BY <1>2 DEF LabAt, PathOf
  <2>4. PICK ensemble : Writes(r, f, own \cup (IF ensemble THEN bases ELSE {}))
    BY <2>2, <2>3 DEF SpecialistSelector, SpecialistWrites
  <2> HIDE DEF f, own, bases
  <2>5. CASE ensemble
    BY <2>4, <2>5
  <2>6. CASE ~ensemble
    <3>1. own \cup {} = own
      OBVIOUS
    <3> QED BY <2>4, <2>6, <3>1
  <2> QED BY <2>5, <2>6
<1>5. Acts(r, "specialist_selector", f, ins, {}) /\ reruns[r] = {} /\ lab'[r] = lab[r]
  <2>1. Returns(r, "specialist_selector")
    BY DEF SpecialistSelector
  <2>2. 14 \notin {5, 13, 16}
    OBVIOUS
  <2> HIDE DEF f
  <2> QED BY <1>1, <1>2, <1>4, <2>1, <2>2, ReturnsActs
<1>6. LabAt(r, 15)'
  BY <1>1, <1>2, <1>5, LabStays
<1>7. At(r)' = At(r)
  BY <1>5 DEF At
<1>8. \A g \in ins : g \in Names /\ Present(g)
  <2>1. Problem \in Names /\ Present(Problem) /\ Folds \in Names /\ Present(Folds)
    BY <1>1, Lying
  <2>2. <<"plan", At(r)>> \in Names /\ Present(<<"plan", At(r)>>)
    BY <1>1, <1>3, Lying, StationsOfKinds DEF IterationKinds
  <2>3. \A i \in 0..(At(r) - 1) : <<"exp", i>> \in Names /\ Present(<<"exp", i>>)
    <3>1. ASSUME NEW i \in 0..(At(r) - 1)
          PROVE  <<"exp", i>> \in Names /\ Present(<<"exp", i>>)
      <4>1. i \in Nat /\ i < At(r)
        BY <1>3
      <4> QED BY <1>1, <4>1, Lying DEF IterationKinds
    <3> QED BY <3>1
  <2>4. \A g \in bases : g \in Names /\ Present(g)
    BY <2>3
  <2>5. \A g \in own : g \in Names /\ Present(g)
    BY <2>1, <2>2
  <2> HIDE DEF own, bases
  <2> QED BY <1>4, <2>4, <2>5
<1>9. f \in Names \ Reports /\ StationOf[f[1]] = 14 /\ (f[1] \in IterationKinds => f[2] = At(r))
  BY <1>3, NamesAre, StationsOfKinds DEF Reports, Eda, Problem, OnceKinds, IterationKinds
<1>10. Unmixed(f, ins)
  <2>1. \A g \in own : g[1] \in IterationKinds => g[2] = At(r)
    BY DEF IterationKinds, Problem, Folds
  <2>2. \A g \in bases : g[1] \in IterationKinds /\ g[2] # At(r)
    BY <1>3 DEF IterationKinds
  <2>3. \/ \A g \in ins : g[1] \in IterationKinds => g[2] = At(r)
        \/ {g \in ins : g[1] \in IterationKinds /\ g[2] # At(r)} = bases
    <3> HIDE DEF own, bases
    <3>1. CASE ins = own
      BY <2>1, <3>1
    <3>2. CASE ins = own \cup bases
      BY <2>1, <2>2, <3>2
    <3> QED BY <1>4, <3>1, <3>2
  <2> QED BY <2>3 DEF Unmixed, IterationKinds, Delivered
<1>11. 15 = NextPlace(r, 14) /\ KeepsTrace(r, f, {})
  BY <1>5 DEF NextPlace, KeepsTrace
<1> HIDE DEF f
<1> QED
  BY <1>1, <1>5, <1>6, <1>7, <1>8, <1>9, <1>10, <1>11, NodeWrites

\* No score is written behind a delivery.
LEMMA ScoreEvaluatorTraces ==
  ASSUME TraceInv, IInv', NEW r \in Runs, ScoreEvaluator(r)
  PROVE  TraceInv'
<1>1. Known /\ Here(r, 17) /\ 17 \in Places
  <2>1. Stations[17] \in todo[r] /\ 17 \in (1..24) \ {5, 6, 13}
    BY StationsAre DEF ScoreEvaluator, ReturnsLab, Executes
  <2> QED BY <2>1, Stands
<1>2. AtPlace(r, 17) /\ LabAt(r, 17)
  BY <1>1 DEF Here
<1> DEFINE f == <<"score", At(r)>>
           ins == {<<"exp", At(r)>>, Problem}
<1>3. At(r) \in Nat /\ At(r) \in Iterations
  BY <1>1, <1>2, AtIteration
<1>4. Writes(r, f, ins)
  <2>1. EvaluatedIteration(r) = At(r)
    <3>1. At(r) + 1 = IF 15 < 17 /\ 17 <= 21 THEN At(r) + 1 ELSE At(r)
      OBVIOUS
    <3> QED BY <1>1, <1>2, <3>1, IndexEntries
  <2>2. lab[r].problem_definition_path = Problem
    BY <1>2 DEF LabAt
  <2> QED BY <2>1, <2>2 DEF ScoreEvaluator, ScoreEvaluatorWrites
<1>a. PICK l : ReturnsLab(r, "score_evaluator", l) /\ l.current_iteration = At(r)
  <2> DEFINE better == [lab[r] EXCEPT
                 !.best_experiment_path = <<"exp", EvaluatedIteration(r)>>,
                 !.iterations_without_improvement = 0]
             same == [lab[r] EXCEPT !.iterations_without_improvement =
                                      lab[r].iterations_without_improvement + 1]
  <2>1. "current_iteration" \in DOMAIN lab[r]
    BY <1>2 DEF LabAt, NewLab
  <2>2. better.current_iteration = At(r) /\ same.current_iteration = At(r)
    BY <2>1 DEF At
  <2>3. ReturnsLab(r, "score_evaluator", better) \/ ReturnsLab(r, "score_evaluator", same)
    BY DEF ScoreEvaluator
  <2> HIDE DEF better, same
  <2> QED BY <2>2, <2>3
<1>5. Acts(r, "score_evaluator", f, ins, {}) /\ reruns[r] = {} /\ lab'[r] = l
  <2>2. 17 \notin {5, 13, 16}
    OBVIOUS
  <2> HIDE DEF f, ins
  <2> QED BY <1>1, <1>2, <1>4, <1>a, <2>2 DEF Known, AtPlace, Writes, ReturnsLab, Executes, Acts
<1>6. LabAt(r, 18)'
  BY <1>1, <1>2, LabScore DEF Known
<1>7. At(r)' = At(r)
  BY <1>5, <1>a DEF At
<1>8. \A g \in ins : g \in Names /\ Present(g)
  <2>1. <<"exp", At(r)>> \in Names /\ Present(<<"exp", At(r)>>)
    BY <1>1, <1>3, Lying, StationsOfKinds DEF IterationKinds
  <2>2. Problem \in Names /\ Present(Problem)
    BY <1>1, Lying
  <2> QED BY <2>1, <2>2
<1>9. f \in Names \ Reports /\ StationOf[f[1]] = 17 /\ (f[1] \in IterationKinds => f[2] = At(r))
  BY <1>3, NamesAre, StationsOfKinds DEF Reports, Eda, Problem, OnceKinds, IterationKinds
<1>10. Unmixed(f, ins)
  <2>1. ASSUME NEW h \in Names, h[1] \in Delivered PROVE ~Present(h)
    <3>1. h[1] \in OnceKinds /\ StationOf[h[1]] >= 17
      BY <2>1, StationsOfKinds DEF Delivered, OnceKinds
    <3>2. h \notin Reports
      BY <2>1 DEF Delivered, Reports, Eda, Problem
    <3> QED BY <1>1, <3>1, <3>2, NotYet
  <2> QED BY <2>1 DEF Unmixed, IterationKinds, Delivered, Problem
<1>11. 18 = NextPlace(r, 17) /\ KeepsTrace(r, f, {})
  BY <1>5 DEF NextPlace, KeepsTrace
<1> HIDE DEF f, ins
<1> QED
  BY <1>1, <1>5, <1>6, <1>7, <1>8, <1>9, <1>10, <1>11, NodeWrites

\* The score names the experiment it was made from.
LEMMA ErrorAnalystTraces ==
  ASSUME TraceInv, IInv', NEW r \in Runs, ErrorAnalyst(r)
  PROVE  TraceInv'
<1>1. Known /\ Here(r, 19) /\ 19 \in Places
  <2>1. Stations[19] \in todo[r] /\ 19 \in (1..24) \ {5, 6, 13}
    BY StationsAre DEF ErrorAnalyst, Returns, Executes
  <2> QED BY <2>1, Stands
<1>2. AtPlace(r, 19) /\ LabAt(r, 19)
  BY <1>1 DEF Here
<1> DEFINE f == <<"diagnosis", At(r)>>
           score == <<"score", At(r)>>
           named == {<<k, d>> : k \in {"exp", "design"}, d \in ExperimentDirOf(score)}
<1>3. At(r) \in Nat /\ At(r) \in Iterations
  BY <1>1, <1>2, AtIteration
<1>4. PICK ins : ins = {score, <<"importance", At(r)>>} \cup named /\ Writes(r, f, ins)
  BY DEF ErrorAnalyst, ErrorAnalystWrites
<1>a. ExperimentDirOf(score) \subseteq {At(r)}
  <2>1. score \in Names /\ Present(score)
    BY <1>1, <1>3, Lying, StationsOfKinds DEF IterationKinds
  <2>2. score[1] \in IterationKinds \ {"design"} /\ score[2] = At(r)
    BY DEF IterationKinds
  <2> HIDE DEF score
  <2>3. \A g \in DOMAIN files[score].saw : g[1] \in IterationKinds => g[2] = At(r)
    BY <2>1, <2>2, Traced DEF IterationsDoNotMix
  <2>4. "exp" \in IterationKinds
    BY DEF IterationKinds
  <2> QED BY <2>3, <2>4 DEF ExperimentDirOf
<1>5. Acts(r, "error_analyst", f, ins, {}) /\ reruns[r] = {} /\ lab'[r] = lab[r]
  <2>1. Returns(r, "error_analyst")
    BY DEF ErrorAnalyst
  <2>2. 19 \notin {5, 13, 16}
    OBVIOUS
  <2> HIDE DEF f
  <2> QED BY <1>1, <1>2, <1>4, <2>1, <2>2, ReturnsActs
<1>6. LabAt(r, 20)'
  BY <1>1, <1>2, <1>5, LabStays
<1>7. At(r)' = At(r)
  BY <1>5 DEF At
<1>b. ASSUME NEW g \in ins
      PROVE  g \in {score, <<"importance", At(r)>>, <<"exp", At(r)>>, <<"design", At(r)>>}
  BY <1>4, <1>a
<1>8. \A g \in ins : g \in Names /\ Present(g)
  <2>1. score \in Names /\ Present(score)
    BY <1>1, <1>3, Lying, StationsOfKinds DEF IterationKinds
  <2>2. <<"importance", At(r)>> \in Names /\ Present(<<"importance", At(r)>>)
    BY <1>1, <1>3, Lying, StationsOfKinds DEF IterationKinds
  <2>3. <<"exp", At(r)>> \in Names /\ Present(<<"exp", At(r)>>)
    BY <1>1, <1>3, Lying, StationsOfKinds DEF IterationKinds
  <2>4. <<"design", At(r)>> \in Names /\ Present(<<"design", At(r)>>)
    BY <1>1, <1>3, Lying, StationsOfKinds DEF IterationKinds
  <2> QED BY <1>b, <2>1, <2>2, <2>3, <2>4
<1>9. f \in Names \ Reports /\ StationOf[f[1]] = 19 /\ (f[1] \in IterationKinds => f[2] = At(r))
  BY <1>3, NamesAre, StationsOfKinds DEF Reports, Eda, Problem, OnceKinds, IterationKinds
<1>10. Unmixed(f, ins)
  <2>1. \A g \in ins : g[2] = At(r)
    BY <1>b
  <2> QED BY <2>1 DEF Unmixed, IterationKinds, Delivered
<1>11. 20 = NextPlace(r, 19) /\ KeepsTrace(r, f, {})
  BY <1>5 DEF NextPlace, KeepsTrace
<1> HIDE DEF f
<1> QED
  BY <1>1, <1>5, <1>6, <1>7, <1>8, <1>9, <1>10, <1>11, NodeWrites

\* The iteration is counted.
LEMMA ExperimentDesignerTraces ==
  ASSUME TraceInv, IInv', NEW r \in Runs, ExperimentDesigner(r)
  PROVE  TraceInv'
<1>1. Known /\ Here(r, 21) /\ 21 \in Places
  <2>1. Stations[21] \in todo[r] /\ 21 \in (1..24) \ {5, 6, 13}
    BY StationsAre DEF ExperimentDesigner, ReturnsLab, Executes
  <2> QED BY <2>1, Stands
<1>2. AtPlace(r, 21) /\ LabAt(r, 21)
  BY <1>1 DEF Here
<1> DEFINE f == <<"next_plan", At(r)>>
           ins == {<<"hypotheses", At(r)>>, <<"diagnosis", At(r)>>}
           l == [lab[r] EXCEPT !.current_iteration = At(r) + 1]
<1>3. At(r) \in Nat /\ At(r) \in Iterations
  BY <1>1, <1>2, AtIteration
<1>4. Writes(r, f, ins)
  BY DEF ExperimentDesigner, ExperimentDesignerWrites
<1>5. Acts(r, "experiment_designer", f, ins, {}) /\ reruns[r] = {} /\ lab'[r] = l
  <2>1. ReturnsLab(r, "experiment_designer", l)
    BY DEF ExperimentDesigner
  <2>2. 21 \notin {5, 13, 16}
    OBVIOUS
  <2> HIDE DEF f, ins, l
  <2> QED BY <1>1, <1>2, <1>4, <2>1, <2>2 DEF Known, AtPlace, Writes, ReturnsLab, Executes, Acts
<1>a. PICK q : q = NextPlace(r, 21)
  OBVIOUS
<1>6. LabAt(r, q)'
  BY <1>2, <1>5, <1>a, LabIteration
<1>7. At(r)' = At(r) + 1
  BY <1>2, <1>5 DEF At, LabAt, NewLab
<1>8. \A g \in ins : g \in Names /\ Present(g)
  <2>1. <<"hypotheses", At(r)>> \in Names /\ Present(<<"hypotheses", At(r)>>)
    BY <1>1, <1>3, Lying, StationsOfKinds DEF IterationKinds
  <2>2. <<"diagnosis", At(r)>> \in Names /\ Present(<<"diagnosis", At(r)>>)
    BY <1>1, <1>3, Lying, StationsOfKinds DEF IterationKinds
  <2> QED BY <2>1, <2>2
<1>9. f \in Names \ Reports /\ StationOf[f[1]] = 21 /\ (f[1] \in IterationKinds => f[2] = At(r))
  BY <1>3, NamesAre, StationsOfKinds DEF Reports, Eda, Problem, OnceKinds, IterationKinds
<1>10. Unmixed(f, ins)
  BY DEF Unmixed, IterationKinds, Delivered
<1>11. KeepsTrace(r, f, {}) /\ f[1] = "next_plan"
  BY <1>5 DEF KeepsTrace
<1> HIDE DEF f, ins, l
<1> QED
  BY <1>1, <1>5, <1>a, <1>6, <1>7, <1>8, <1>9, <1>10, <1>11, NodeWrites

\* The scores that lie there when an iteration is over are of the past ones.
LEMMA PastScores ==
  ASSUME NEW r, NEW p \in Places, p > 21, Here(r, p), NEW g \in Names, g[1] = "score", Present(g)
  PROVE  g[2] \in Nat /\ g[2] < At(r)
<1>1. g[1] \in IterationKinds /\ g[1] \notin OnceKinds /\ g \notin {Eda, Problem}
  BY DEF IterationKinds, OnceKinds, Eda, Problem
<1>2. g[2] \in Nat
  BY <1>1, NamesAre, RunsAssumption DEF Iterations
<1>3. Written(r, p, g)
  <2>1. p > 3
    BY DEF Places
  <2> QED BY <1>1, <2>1 DEF Here, FilesAt
<1> QED
  BY <1>1, <1>2, <1>3 DEF Written, Places

\* The directories delivery looks into are of experiments that were run.
LEMMA DirsThere ==
  ASSUME NEW r, NEW p \in Places, p > 21, Here(r, p), NEW g \in ExperimentDirs(r)
  PROVE  g \in Names /\ Present(g)
<1>1. At(r) \in Nat /\ At(r) > 0 /\ LabAt(r, p)
  BY AtIteration DEF Here
<1>2. \A i \in Nat : i < At(r) => <<"exp", i>> \in Names /\ Present(<<"exp", i>>)
  <2>1. p > 3
    BY DEF Places
  <2> QED BY <2>1, Lying DEF IterationKinds
<1>3. CASE g = <<"exp", At(r) - 1>>
  <2>1. At(r) - 1 \in Nat /\ At(r) - 1 < At(r)
    BY <1>1
  <2> QED BY <1>2, <1>3, <2>1
<1>4. CASE g = lab[r].best_experiment_path /\ g # NoPath
  <2>1. PICK i \in 0..(At(r) - 1) : g = <<"exp", i>>
    BY <1>1, <1>4 DEF LabAt, Places
  <2> QED BY <1>1, <1>2, <2>1
<1> QED
  BY <1>3, <1>4 DEF ExperimentDirs, PreviousIteration

LEMMA ReviewerTraces ==
  ASSUME TraceInv, IInv', NEW r \in Runs, Reviewer(r)
  PROVE  TraceInv'
<1>1. Known /\ Here(r, 22) /\ 22 \in Places
  <2>1. Stations[22] \in todo[r] /\ 22 \in (1..24) \ {5, 6, 13}
    BY StationsAre DEF Reviewer, Returns, Executes
  <2> QED BY <2>1, Stands
<1>2. AtPlace(r, 22) /\ LabAt(r, 22)
  BY <1>1 DEF Here
<1> DEFINE f == <<"review", 0>>
           past == At(r) - 1
<1>3. At(r) \in Nat /\ At(r) > 0 /\ past \in Iterations /\ past \in Nat /\ past < At(r)
  BY <1>1, <1>2, AtIteration, RunsAssumption DEF Iterations
<1>4. PICK ins : ins = SourceFiles \cup ExperimentDirs(r) /\ Writes(r, f, ins)
  BY DEF Reviewer, ReviewerWrites
<1>5. Acts(r, "reviewer", f, ins, {}) /\ reruns[r] = {} /\ lab'[r] = lab[r]
  <2>1. Returns(r, "reviewer")
    BY DEF Reviewer
  <2>2. 22 \notin {5, 13, 16}
    OBVIOUS
  <2> HIDE DEF f
  <2> QED BY <1>1, <1>2, <1>4, <2>1, <2>2, ReturnsActs
<1>6. LabAt(r, 23)'
  BY <1>1, <1>2, <1>5, LabStays
<1>7. At(r)' = At(r)
  BY <1>5 DEF At
<1>8. \A g \in ins \ SourceFiles : g \in Names /\ Present(g)
  BY <1>1, <1>4, DirsThere
<1>9. f \in Names \ Reports /\ StationOf[f[1]] = 22 /\ (f[1] \in IterationKinds => f[2] = At(r))
  BY <1>3, NamesAre, StationsOfKinds DEF Reports, Eda, Problem, OnceKinds, IterationKinds
<1>10. Unmixed(f, ins)
  <2>1. ASSUME NEW g \in Names, g[1] = "score", Present(g)
        PROVE  \E h \in ins : h[1] \in IterationKinds /\ h[2] >= g[2]
    <3>1. g[2] \in Nat /\ past >= g[2]
      BY <1>1, <1>3, <2>1, PastScores
    <3>2. <<"exp", past>> \in ins /\ "exp" \in IterationKinds
      BY <1>4 DEF ExperimentDirs, PreviousIteration, NoPath, IterationKinds
    <3> QED BY <3>1, <3>2
  <2> QED BY <2>1 DEF Unmixed, IterationKinds, Delivered
<1>11. 23 = NextPlace(r, 22) /\ KeepsTrace(r, f, {})
  BY <1>5 DEF NextPlace, KeepsTrace
<1> HIDE DEF f
<1> QED
  BY <1>1, <1>5, <1>6, <1>7, <1>8, <1>9, <1>10, <1>11, NodeActs

LEMMA ReportWriterTraces ==
  ASSUME TraceInv, IInv', NEW r \in Runs, ReportWriter(r)
  PROVE  TraceInv'
<1>1. Known /\ Here(r, 23) /\ 23 \in Places
  <2>1. Stations[23] \in todo[r] /\ 23 \in (1..24) \ {5, 6, 13}
    BY StationsAre DEF ReportWriter, Returns, Executes
  <2> QED BY <2>1, Stands
<1>2. AtPlace(r, 23) /\ LabAt(r, 23)
  BY <1>1 DEF Here
<1> DEFINE f == <<"report", 0>>
           past == At(r) - 1
<1>3. At(r) \in Nat /\ At(r) > 0 /\ past \in Iterations /\ past \in Nat /\ past < At(r)
  BY <1>1, <1>2, AtIteration, RunsAssumption DEF Iterations
<1>4. PICK ins : /\ ins = {Problem, <<"review", 0>>, <<"score", past>>, <<"diagnosis", past>>,
                           <<"hypotheses", past>>}
                 /\ Writes(r, f, ins)
  <2>1. {"score", "diagnosis", "hypotheses"} \X {past}
          = {<<"score", past>>, <<"diagnosis", past>>, <<"hypotheses", past>>}
    OBVIOUS
  <2>2. lab[r].problem_definition_path = Problem
    BY <1>2 DEF LabAt
  <2>3. Writes(r, f, {Problem, <<"review", 0>>}
                       \cup ({"score", "diagnosis", "hypotheses"} \X {past}))
    BY <2>2 DEF ReportWriter, ReportWriterWrites, PreviousIteration
  <2>4. {Problem, <<"review", 0>>}
          \cup {<<"score", past>>, <<"diagnosis", past>>, <<"hypotheses", past>>}
          = {Problem, <<"review", 0>>, <<"score", past>>, <<"diagnosis", past>>,
             <<"hypotheses", past>>}
    OBVIOUS
  <2> QED BY <2>1, <2>3, <2>4
<1>5. Acts(r, "report_writer", f, ins, {}) /\ reruns[r] = {} /\ lab'[r] = lab[r]
  <2>1. Returns(r, "report_writer")
    BY DEF ReportWriter
  <2>2. 23 \notin {5, 13, 16}
    OBVIOUS
  <2> HIDE DEF f
  <2> QED BY <1>1, <1>2, <1>4, <2>1, <2>2, ReturnsActs
<1>6. LabAt(r, 24)'
  BY <1>1, <1>2, <1>5, LabStays
<1>7. At(r)' = At(r)
  BY <1>5 DEF At
<1>8. \A g \in ins : g \in Names /\ Present(g)
  <2>1. Problem \in Names /\ Present(Problem)
    BY <1>1, Lying
  <2>2. <<"review", 0>> \in Names /\ Present(<<"review", 0>>)
    BY <1>1, Lying, StationsOfKinds DEF OnceKinds
  <2>3. <<"score", past>> \in Names /\ Present(<<"score", past>>)
    BY <1>1, <1>3, Lying DEF IterationKinds
  <2>4. <<"diagnosis", past>> \in Names /\ Present(<<"diagnosis", past>>)
    BY <1>1, <1>3, Lying DEF IterationKinds
  <2>5. <<"hypotheses", past>> \in Names /\ Present(<<"hypotheses", past>>)
    BY <1>1, <1>3, Lying DEF IterationKinds
  <2> QED BY <1>4, <2>1, <2>2, <2>3, <2>4, <2>5
<1>9. f \in Names \ Reports /\ StationOf[f[1]] = 23 /\ (f[1] \in IterationKinds => f[2] = At(r))
  BY <1>3, NamesAre, StationsOfKinds DEF Reports, Eda, Problem, OnceKinds, IterationKinds
<1>10. Unmixed(f, ins)
  <2>1. ASSUME NEW g \in Names, g[1] = "score", Present(g)
        PROVE  \E h \in ins : h[1] \in IterationKinds /\ h[2] >= g[2]
    <3>1. g[2] \in Nat /\ past >= g[2]
      BY <1>1, <1>3, <2>1, PastScores
    <3>2. <<"score", past>> \in ins /\ "score" \in IterationKinds
      BY <1>4 DEF IterationKinds
    <3> QED BY <3>1, <3>2
  <2> QED BY <2>1 DEF Unmixed, IterationKinds, Delivered
<1>11. 24 = NextPlace(r, 23) /\ KeepsTrace(r, f, {})
  BY <1>5 DEF NextPlace, KeepsTrace
<1> HIDE DEF f
<1> QED
  BY <1>1, <1>5, <1>6, <1>7, <1>8, <1>9, <1>10, <1>11, NodeWrites

LEMMA KaggleClientTraces ==
  ASSUME TraceInv, IInv', NEW r \in Runs, KaggleClient(r)
  PROVE  TraceInv'
<1>1. Known /\ Here(r, 24) /\ 24 \in Places
  <2>1. Stations[24] \in todo[r] /\ 24 \in (1..24) \ {5, 6, 13}
    BY StationsAre DEF KaggleClient, Returns, Executes
  <2> QED BY <2>1, Stands
<1>2. AtPlace(r, 24) /\ LabAt(r, 24)
  BY <1>1 DEF Here
<1> DEFINE f == <<"submission", 0>>
           past == At(r) - 1
<1>3. At(r) \in Nat /\ At(r) > 0 /\ past \in Iterations /\ past \in Nat /\ past < At(r)
  BY <1>1, <1>2, AtIteration, RunsAssumption DEF Iterations
<1>a. PICK found \in {{}} \cup {{d} : d \in ExperimentDirs(r)} :
        Writes(r, f, found \cup {<<"score", past>>})
  BY DEF KaggleClient, KaggleClientWrites, PreviousIteration
<1>4. PICK ins : ins = found \cup {<<"score", past>>} /\ Writes(r, f, ins)
  BY <1>a
<1>5. Acts(r, "kaggle_client", f, ins, {}) /\ reruns[r] = {} /\ lab'[r] = lab[r]
  <2>1. Returns(r, "kaggle_client")
    BY DEF KaggleClient
  <2>2. 24 \notin {5, 13, 16}
    OBVIOUS
  <2> HIDE DEF f
  <2> QED BY <1>1, <1>2, <1>4, <2>1, <2>2, ReturnsActs
<1>6. LabAt(r, 25)'
  BY <1>1, <1>2, <1>5, LabStays
<1>7. At(r)' = At(r)
  BY <1>5 DEF At
<1>8. \A g \in ins : g \in Names /\ Present(g)
  <2>1. \A g \in found : g \in Names /\ Present(g)
    BY <1>1, <1>a, DirsThere
  <2>2. <<"score", past>> \in Names /\ Present(<<"score", past>>)
    BY <1>1, <1>3, Lying DEF IterationKinds
  <2> QED BY <1>4, <2>1, <2>2
<1>9. f \in Names \ Reports /\ StationOf[f[1]] = 24 /\ (f[1] \in IterationKinds => f[2] = At(r))
  BY <1>3, NamesAre, StationsOfKinds DEF Reports, Eda, Problem, OnceKinds, IterationKinds
<1>10. Unmixed(f, ins)
  <2>1. ASSUME NEW g \in Names, g[1] = "score", Present(g)
        PROVE  \E h \in ins : h[1] \in IterationKinds /\ h[2] >= g[2]
    <3>1. g[2] \in Nat /\ past >= g[2]
      BY <1>1, <1>3, <2>1, PastScores
    <3>2. <<"score", past>> \in ins /\ "score" \in IterationKinds
      BY <1>4 DEF IterationKinds
    <3> QED BY <3>1, <3>2
  <2> QED BY <2>1 DEF Unmixed, IterationKinds, Delivered
<1>11. 25 = NextPlace(r, 24) /\ KeepsTrace(r, f, {})
  BY <1>5 DEF NextPlace, KeepsTrace
<1> HIDE DEF f
<1> QED
  BY <1>1, <1>5, <1>6, <1>7, <1>8, <1>9, <1>10, <1>11, NodeWrites

\* A critic at work is at the end of phase 1, of the design or of the
\* implementation.
LEMMA CriticPlace ==
  ASSUME TraceInv, NEW r \in Runs, CriticNode(r) \in todo[r]
  PROVE  \E p \in {5, 13, 16} : Here(r, p) /\ CriticNode(r) = Stations[p]
<1>1. PICK p \in Places : Here(r, p)
  BY Traced
<1>2. CriticNode(r) \in todo[r] /\ CriticNode(r) \notin Researchers
  BY DEF CriticNode, Researchers
<1>3. p # 6 /\ p # 25 /\ CriticNode(r) = Stations[p]
  BY <1>1, <1>2 DEF Here, AtPlace
<1>4. Stations[p] \in {"code_critic", "analysis_critic"}
  BY <1>3 DEF CriticNode
<1>5. p \in {5, 13, 16}
  <2>1. p \in 1..24
    BY <1>3 DEF Places
  <2>2. CASE Stations[p] = "code_critic"
    <3>1. Stations[16] = "code_critic" /\ 16 \in 1..24
      BY StationsAre
    <3> QED BY <2>1, <2>2, <3>1, StationsDiffer
  <2>3. CASE Stations[p] = "analysis_critic"
    BY <2>1, <2>3, StationsAre
  <2> QED BY <1>4, <2>2, <2>3
<1> QED
  BY <1>1, <1>3, <1>5

\* What it reads and where it records its verdicts.
LEMMA CriticReads ==
  ASSUME NEW r, NEW p \in {5, 13, 16}, Here(r, p), CriticNode(r) = Stations[p]
  PROVE  /\ At(r) \in Iterations /\ At(r) \in Nat
         /\ p = 5 => /\ VerdictFile(r) = <<"verdicts1", 0>>
                     /\ Reviewed(r) = {Eda, Problem, Folds, <<"leakage", 0>>}
         /\ p = 13 => /\ VerdictFile(r) = <<"verdicts4", At(r)>>
                      /\ Reviewed(r) = {<<"plan", At(r)>>, <<"spec", At(r)>>}
         /\ p = 16 => /\ VerdictFile(r) = <<"code_verdicts", At(r)>>
                      /\ Reviewed(r) = {<<"exp", At(r)>>, <<"design", At(r)>>, Folds}
<1>1. phase[r] = PhaseAt(p) /\ LabAt(r, p) /\ p \in Places
  BY DEF Here, AtPlace, Places
<1>2. At(r) \in Iterations /\ At(r) \in Nat /\ (p = 5 => At(r) = 0)
  BY <1>1, AtIteration
<1>3. CASE p = 5
  <2>1. /\ phase[r] = "phase1_understanding" /\ CriticNode(r) = "analysis_critic"
        /\ lab[r].feature_spec_path = NoPath /\ lab[r].eda_report_path = Eda
        /\ lab[r].problem_definition_path = Problem /\ lab[r].validation_config_path = Folds
    BY <1>1, <1>2, <1>3, StationsAre DEF LabAt, PathOf
  <2>2. VerdictFile(r) = <<"verdicts1", 0>>
    BY <2>1 DEF VerdictFile
  <2>3. Reviewed(r) = {Eda, Problem, Folds, <<"leakage", 0>>}
    BY <2>1 DEF Reviewed
  <2> QED BY <1>2, <1>3, <2>2, <2>3
<1>4. CASE p = 13
  <2>1. /\ phase[r] = "phase4_design" /\ CriticNode(r) = "analysis_critic"
        /\ lab[r].feature_spec_path = <<"spec", At(r)>>
        /\ lab[r].solution_plan_path = <<"plan", At(r)>>
    BY <1>1, <1>2, <1>4, StationsAre DEF LabAt, PathOf
  <2>2. VerdictFile(r) = <<"verdicts4", At(r)>>
    BY <2>1 DEF VerdictFile, NoPath
  <2>3. Reviewed(r) = {<<"plan", At(r)>>, <<"spec", At(r)>>}
    BY <2>1 DEF Reviewed
  <2> QED BY <1>2, <1>4, <2>2, <2>3
<1>5. CASE p = 16
  <2>1. /\ phase[r] = "phase5_implementation" /\ CriticNode(r) = "code_critic"
        /\ lab[r].validation_config_path = Folds
    BY <1>1, <1>2, <1>5, StationsAre DEF LabAt, PathOf
  <2>2. EvaluatedIteration(r) = At(r)
    <3>1. At(r) + 1 = IF 15 < 16 /\ 16 <= 21 THEN At(r) + 1 ELSE At(r)
      OBVIOUS
    <3> QED BY <1>1, <1>5, <3>1, IndexEntries
  <2>3. VerdictFile(r) = <<"code_verdicts", At(r)>>
    BY <2>1 DEF VerdictFile
  <2>4. Reviewed(r) = {<<"exp", At(r)>>, <<"design", At(r)>>, Folds}
    BY <2>1, <2>2 DEF Reviewed
  <2> QED BY <1>2, <1>5, <2>3, <2>4
<1> QED
  BY <1>3, <1>4, <1>5

LEMMA CriticPassesTraces ==
  ASSUME TraceInv, IInv', NEW r \in Runs, CriticPasses(r)
  PROVE  TraceInv'
<1>1. PICK p \in {5, 13, 16} : Here(r, p) /\ CriticNode(r) = Stations[p]
  BY CriticPlace DEF CriticPasses, Executes
<1>2. Known /\ p \in Places /\ p > 3 /\ p # 6 /\ p # 21
  BY Traced DEF Places
<1>3. PICK f, ins, n, named : f = VerdictFile(r) /\ ins = Reviewed(r) /\ n = CriticNode(r)
                              /\ named = reruns[r]
  OBVIOUS
<1>4. Acts(r, n, f, ins, named) /\ lab'[r] = lab[r]
  BY <1>2, <1>3 DEF CriticPasses, Acts, Executes, Known
<1>5. /\ At(r) \in Iterations /\ At(r) \in Nat
      /\ p = 5 => f = <<"verdicts1", 0>> /\ ins = {Eda, Problem, Folds, <<"leakage", 0>>}
      /\ p = 13 => f = <<"verdicts4", At(r)>> /\ ins = {<<"plan", At(r)>>, <<"spec", At(r)>>}
      /\ p = 16 => /\ f = <<"code_verdicts", At(r)>>
                   /\ ins = {<<"exp", At(r)>>, <<"design", At(r)>>, Folds}
  BY <1>1, <1>3, CriticReads
<1>6. PICK q : q = NextPlace(r, p)
  OBVIOUS
<1>7. LabAt(r, q)'
  <2>1. q = p + 1
    BY <1>2, <1>6 DEF NextPlace
  <2>2. LabAt(r, p + 1)'
    BY <1>1, <1>2, <1>4, LabStays DEF Here
  <2> QED BY <2>1, <2>2
<1>8. At(r)' = At(r)
  BY <1>4 DEF At
<1>9. \A g \in ins : g \in Names /\ Present(g)
  <2>1. /\ Eda \in Names /\ Present(Eda) /\ Problem \in Names /\ Present(Problem)
        /\ Folds \in Names /\ Present(Folds)
    BY <1>1, <1>2, Lying
  <2>2. CASE p = 5
    <3>1. <<"leakage", 0>> \in Names /\ Present(<<"leakage", 0>>)
      BY <1>1, <1>2, <2>2, Lying, StationsOfKinds DEF OnceKinds
    <3> QED BY <1>5, <2>1, <2>2, <3>1
  <2>3. CASE p = 13
    <3>1. <<"plan", At(r)>> \in Names /\ Present(<<"plan", At(r)>>)
      BY <1>1, <1>2, <1>5, <2>3, Lying, StationsOfKinds DEF IterationKinds
    <3>2. <<"spec", At(r)>> \in Names /\ Present(<<"spec", At(r)>>)
      BY <1>1, <1>2, <1>5, <2>3, Lying, StationsOfKinds DEF IterationKinds
    <3> QED BY <1>5, <2>3, <3>1, <3>2
  <2>4. CASE p = 16
    <3>1. <<"exp", At(r)>> \in Names /\ Present(<<"exp", At(r)>>)
      BY <1>1, <1>2, <1>5, <2>4, Lying, StationsOfKinds DEF IterationKinds
    <3>2. <<"design", At(r)>> \in Names /\ Present(<<"design", At(r)>>)
      BY <1>1, <1>2, <1>5, <2>4, Lying, StationsOfKinds DEF IterationKinds
    <3> QED BY <1>5, <2>1, <2>4, <3>1, <3>2
  <2> QED BY <1>1, <2>2, <2>3, <2>4
<1>10. f \in Names \ Reports /\ StationOf[f[1]] = p /\ (f[1] \in IterationKinds => f[2] = At(r))
  BY <1>5, NamesAre, StationsOfKinds DEF Reports, Eda, Problem, OnceKinds, IterationKinds
<1>11. Unmixed(f, ins)
  <2>1. f[1] \in IterationKinds => \A g \in ins : g[1] \in IterationKinds => g[2] = f[2]
    BY <1>5 DEF IterationKinds, Folds
  <2>2. f[1] \in Verdicts
    BY <1>5 DEF Verdicts
  <2> QED BY <2>1, <2>2 DEF Unmixed, Delivered, Verdicts
<1>12. KeepsTrace(r, f, named)
  BY <1>3 DEF KeepsTrace
<1> QED
  BY <1>1, <1>2, <1>4, <1>6, <1>7, <1>8, <1>9, <1>10, <1>11, <1>12, NodeWrites

\* What a critic has written again lay there, and is of the same place.
LEMMA RewritesAre ==
  ASSUME TraceInv, NEW r \in Runs, NEW p \in {5, 13, 16}, Here(r, p),
         CriticNode(r) = Stations[p], NEW target \in CriticTargets(phase[r]),
         Rewrites(r, target)
  PROVE  \E f, ins : /\ Writes(r, f, ins)
                     /\ f \in Names /\ f # Folds /\ Present(f)
                     /\ Author(f[1]) = target /\ Record(f) = VerdictFile(r)
                     /\ f[1] \notin Verdicts /\ Unmixed(f, ins)
                     /\ \A g \in ins : g \in Names /\ g # f /\ Present(g)
<1>0. /\ phase[r] = PhaseAt(p) /\ LabAt(r, p) /\ p \in Places /\ p > 3 /\ p # 6 /\ p <= 21
  BY DEF Here, AtPlace, Places
<1>1. /\ At(r) \in Iterations /\ At(r) \in Nat /\ phase[r] = PhaseAt(p) /\ LabAt(r, p)
      /\ p \in Places /\ p > 3 /\ p # 6
  BY <1>0, AtIteration
<1>2. /\ Eda \in Names /\ Present(Eda) /\ Problem \in Names /\ Present(Problem)
      /\ Folds \in Names /\ Present(Folds)
  BY <1>1, Lying
<1>3. CASE p = 5
  <2>1. /\ target \in {"data_analyst", "problem_framer", "validation_strategist",
                       "leakage_auditor"}
        /\ lab[r].eda_report_path = Eda /\ lab[r].problem_definition_path = Problem
        /\ VerdictFile(r) = <<"verdicts1", 0>>
    BY <1>1, <1>3, StationsAre, CriticReads, SMTT(40) DEF CriticTargets, LabAt
  <2>2. CASE target = "data_analyst"
    <3>1. Writes(r, Eda, {})
      BY <2>2 DEF Rewrites, DataAnalystWrites
    <3>2. Author(Eda[1]) = target /\ Record(Eda) = VerdictFile(r) /\ Eda[1] \notin Verdicts
          /\ Eda # Folds
      BY <2>1, <2>2 DEF Author, Record, Eda, Folds, Verdicts
    <3>3. Unmixed(Eda, {})
      BY DEF Unmixed, Eda, IterationKinds, Delivered
    <3> QED BY <1>2, <3>1, <3>2, <3>3
  <2>3. CASE target = "problem_framer"
    <3>1. Writes(r, Problem, {Eda})
      BY <2>1, <2>3 DEF Rewrites, ProblemFramerWrites
    <3>2. Author(Problem[1]) = target /\ Record(Problem) = VerdictFile(r)
          /\ Problem[1] \notin Verdicts /\ Problem # Folds /\ Eda # Problem
      BY <2>1, <2>3 DEF Author, Record, Eda, Problem, Folds, Verdicts
    <3>3. Unmixed(Problem, {Eda})
      BY DEF Unmixed, Problem, IterationKinds, Delivered
    <3>4. \A g \in {Eda} : g \in Names /\ g # Problem /\ Present(g)
      BY <1>2, <3>2
    <3> QED BY <1>2, <3>1, <3>2, <3>3, <3>4
  <2>4. CASE target = "leakage_auditor"
    <3> DEFINE f == <<"leakage", 0>>
               ins == {Eda, Problem}
    <3>1. Writes(r, f, ins)
      BY <2>1, <2>4 DEF Rewrites, LeakageAuditorWrites
    <3>2. Author(f[1]) = target /\ Record(f) = VerdictFile(r)
          /\ f[1] \notin Verdicts /\ f # Folds /\ Eda # f /\ Problem # f
      BY <2>1, <2>4 DEF Author, Record, Eda, Problem, Folds, Verdicts
    <3>3. Unmixed(f, ins)
      BY DEF Unmixed, IterationKinds, Delivered
    <3>4. \A g \in ins : g \in Names /\ g # f /\ Present(g)
      BY <1>2, <3>2
    <3>5. f \in Names /\ Present(f)
      BY <1>1, <1>3, Lying, StationsOfKinds DEF OnceKinds
    <3> HIDE DEF f, ins
    <3> QED BY <3>1, <3>2, <3>3, <3>4, <3>5
  <2>5. CASE target = "validation_strategist"
    BY <2>5 DEF Rewrites
  <2> QED BY <2>1, <2>2, <2>3, <2>4, <2>5
<1>4. CASE p = 13
  <2>1. /\ target \in {"solution_architect", "feature_engineer"}
        /\ lab[r].eda_report_path = Eda /\ lab[r].baseline_results_path = <<"bresults", 0>>
        /\ lab[r].solution_plan_path = <<"plan", At(r)>>
        /\ VerdictFile(r) = <<"verdicts4", At(r)>>
    BY <1>1, <1>4, StationsAre, CriticReads, SMTT(40) DEF CriticTargets, LabAt, PathOf
  <2>a. <<"plan", At(r)>> \in Names /\ Present(<<"plan", At(r)>>)
    BY <1>1, <1>4, Lying, StationsOfKinds DEF IterationKinds
  <2>2. CASE target = "solution_architect"
    <3> DEFINE f == <<"plan", At(r)>>
               ins == {<<"bresults", 0>>}
    <3>1. Writes(r, f, ins)
      BY <2>1, <2>2 DEF Rewrites, SolutionArchitectWrites
    <3>2. Author(f[1]) = target /\ Record(f) = VerdictFile(r)
          /\ f[1] \notin Verdicts /\ f # Folds /\ <<"bresults", 0>> # f
      BY <2>1, <2>2 DEF Author, Record, Folds, Verdicts
    <3>3. Unmixed(f, ins)
      BY DEF Unmixed, IterationKinds, Delivered
    <3>4. <<"bresults", 0>> \in Names /\ Present(<<"bresults", 0>>)
      BY <1>1, <1>4, Lying, StationsOfKinds DEF OnceKinds
    <3>5. \A g \in ins : g \in Names /\ g # f /\ Present(g)
      BY <3>2, <3>4
    <3>6. f \in Names /\ Present(f)
      BY <2>a
    <3> HIDE DEF f, ins
    <3> QED BY <3>1, <3>2, <3>3, <3>5, <3>6
  <2>3. CASE target = "feature_engineer"
    <3> DEFINE f == <<"spec", At(r)>>
               ins == {<<"plan", At(r)>>, Eda}
    <3>1. Writes(r, f, ins)
      BY <2>1, <2>3 DEF Rewrites, FeatureEngineerWrites
    <3>2. Author(f[1]) = target /\ Record(f) = VerdictFile(r)
          /\ f[1] \notin Verdicts /\ f # Folds /\ <<"plan", At(r)>> # f /\ Eda # f
      BY <2>1, <2>3 DEF Author, Record, Eda, Folds, Verdicts
    <3>3. Unmixed(f, ins)
      BY DEF Unmixed, IterationKinds, Delivered, Eda
    <3>5. \A g \in ins : g \in Names /\ g # f /\ Present(g)
      BY <1>2, <2>a, <3>2
    <3>6. f \in Names /\ Present(f)
      BY <1>1, <1>4, Lying, StationsOfKinds DEF IterationKinds
    <3> HIDE DEF f, ins
    <3> QED BY <3>1, <3>2, <3>3, <3>5, <3>6
  <2> QED BY <2>1, <2>2, <2>3
<1>5. CASE p = 16
  <2>1. /\ target = "coder" /\ lab[r].validation_config_path = Folds
        /\ FeatureSpecRef(r) = <<"spec", At(r)>>
        /\ VerdictFile(r) = <<"code_verdicts", At(r)>>
    BY <1>1, <1>5, StationsAre, CriticReads, SMTT(40)
       DEF CriticTargets, LabAt, PathOf, FeatureSpecRef, NoPath
  <2> DEFINE f == <<"exp", At(r)>>
             ins == {<<"design", At(r)>>, <<"spec", At(r)>>, Folds, <<"bdesign", 0>>}
  <2>2. Writes(r, f, ins)
    BY <2>1 DEF Rewrites, CoderWrites
  <2>3. Author(f[1]) = target /\ Record(f) = VerdictFile(r)
        /\ f[1] \notin Verdicts /\ f # Folds /\ \A g \in ins : g # f
    BY <2>1 DEF Author, Record, Folds, Verdicts
  <2>4. Unmixed(f, ins)
    BY DEF Unmixed, IterationKinds, Delivered, Folds
  <2>5. <<"design", At(r)>> \in Names /\ Present(<<"design", At(r)>>)
    BY <1>1, <1>5, Lying, StationsOfKinds DEF IterationKinds
  <2>6. <<"spec", At(r)>> \in Names /\ Present(<<"spec", At(r)>>)
    BY <1>1, <1>5, Lying, StationsOfKinds DEF IterationKinds
  <2>7. <<"bdesign", 0>> \in Names /\ Present(<<"bdesign", 0>>)
    BY <1>1, <1>5, Lying, StationsOfKinds DEF OnceKinds
  <2>8. f \in Names /\ Present(f)
    BY <1>1, <1>5, Lying, StationsOfKinds DEF IterationKinds
  <2>9. \A g \in ins : g \in Names /\ Present(g)
    BY <1>2, <2>5, <2>6, <2>7
  <2> HIDE DEF f, ins
  <2> QED BY <2>2, <2>3, <2>4, <2>8, <2>9
<1> QED
  BY <1>3, <1>4, <1>5

\* Writing again what lay there leaves the workspace of every run what it was.
LEMMA FilesAgain ==
  ASSUME DOMAIN files = Names, \A g \in Names : files[g].ver \in Nat,
         NEW r, NEW p \in Places, p > 3, FilesAt(r, p), lab'[r] = lab[r], ran'[r] = ran[r],
         NEW f \in Names, f # Folds, Present(f), NEW ins, NEW again, Put(r, f, ins, again)
  PROVE  FilesAt(r, p)'
<1>1. PutDid(r, f, ins, again)
  BY PutDoes
<1>2. Eda \in Names /\ Problem \in Names /\ Folds \in Names
  BY DEF Eda, Problem, Folds, Names, OnceKinds
<1>3. \A g \in Names : Present(g)' <=> Present(g)
  BY <1>1 DEF PutDid, Present
<1>4. files'[Folds] = files[Folds]
  BY <1>1, <1>2 DEF PutDid
<1>5. Froze(r)' <=> Froze(r)
  BY <1>2, <1>3, <1>4 DEF Froze
<1>6. \A g \in Names : Written(r, p, g)' <=> Written(r, p, g)
  BY DEF Written, At
<1>7. ~(p <= 2)
  BY DEF Places
<1> QED
  BY <1>2, <1>3, <1>5, <1>6, <1>7 DEF FilesAt

LEMMA CriticRerunsTraces ==
  ASSUME TraceInv, IInv', NEW r \in Runs, NEW target, CriticReruns(r, target)
  PROVE  TraceInv'
<1>1. PICK p \in {5, 13, 16} : Here(r, p) /\ CriticNode(r) = Stations[p]
  BY CriticPlace DEF CriticReruns, Executes
<1>2. PICK f, ins : /\ Writes(r, f, ins)
                    /\ f \in Names /\ f # Folds /\ Present(f)
                    /\ Author(f[1]) = target /\ Record(f) = VerdictFile(r)
                    /\ f[1] \notin Verdicts /\ Unmixed(f, ins)
                    /\ \A g \in ins : g \in Names /\ g # f /\ Present(g)
  <2>1. target \in CriticTargets(phase[r]) /\ Rewrites(r, target)
    BY DEF CriticReruns
  <2> QED BY <1>1, <2>1, RewritesAre
<1>3. /\ Known /\ DOMAIN files = Names /\ \A g \in Names : files[g].ver \in Nat
      /\ p \in Places /\ p > 3 /\ p # 6
  BY Traced DEF Known, Places
<1>4. /\ reruns' = [reruns EXCEPT ![r] = reruns[r] \cup {target}]
      /\ UNCHANGED <<status, phase, todo, ran, lab>>
      /\ Put(r, f, ins, {})
  BY <1>2 DEF CriticReruns, Writes
<1>5. Known' /\ Only(r)
  <2>1. DOMAIN files' = Names
    BY <1>3, <1>4 DEF Put
  <2> QED BY <1>3, <1>4, <2>1 DEF Known, Only, CriticReruns, Executes
<1>6. AtPlace(r, p)'
  BY <1>1, <1>3, <1>4 DEF Here, AtPlace
<1>7. LabAt(r, p)'
  BY <1>1, <1>3, <1>4, LabSame DEF Here
<1>8. FilesAt(r, p)'
  <2>1. lab'[r] = lab[r] /\ ran'[r] = ran[r]
    BY <1>4
  <2> QED BY <1>1, <1>2, <1>3, <1>4, <2>1, FilesAgain DEF Here
<1>9. VerdictFile(r)' = VerdictFile(r)
  BY <1>4 DEF VerdictFile, CriticNode, At
<1>10. reruns'[r] = reruns[r] \cup {target}
  BY <1>3, <1>4 DEF Known
<1>11. MayReplace(r, f) /\ KeepsTrace(r, f, {})
  <2>1. Author(f[1]) \in CriticTargets(phase'[r]) /\ Author(f[1]) \in reruns'[r]
    BY <1>2, <1>4, <1>10 DEF CriticReruns
  <2>2. Unrecorded(r, f)'
    BY <1>2, <1>9, <2>1 DEF Unrecorded
  <2> QED BY <1>4, <1>10, <2>2 DEF MayReplace, KeepsTrace
<1>12. Fits(r, f, ins, {})
  BY <1>2, <1>4, <1>11 DEF Fits
<1>13. Here(r, p)'
  BY <1>6, <1>7, <1>8 DEF Here
<1> QED
  BY <1>1, <1>3, <1>5, <1>12, <1>13, StepTraced

-----------------------------------------------------------------------------
(* The first three nodes, and the parallel block                           *)

\* data_analyst and problem_framer may write over what another run has left;
\* this run's own files hold nothing that was read yet.
LEMMA DataAnalystTraces ==
  ASSUME TraceInv, IInv', NEW r \in Runs, DataAnalyst(r)
  PROVE  TraceInv'
<1>1. Known /\ Here(r, 1) /\ 1 \in Places
  <2>1. Stations[1] \in todo[r] /\ 1 \in (1..24) \ {5, 6, 13}
    BY StationsAre DEF DataAnalyst, ReturnsLab, Executes
  <2> QED BY <2>1, Stands
<1>2. AtPlace(r, 1) /\ LabAt(r, 1) /\ FilesAt(r, 1)
  BY <1>1 DEF Here
<1> DEFINE l == [lab[r] EXCEPT !.eda_report_path = Eda]
<1>3. Acts(r, "data_analyst", Eda, {}, {}) /\ reruns[r] = {} /\ lab'[r] = l
  <2>1. ReturnsLab(r, "data_analyst", l) /\ Writes(r, Eda, {}) /\ 1 \notin {5, 13, 16}
    BY DEF DataAnalyst, DataAnalystWrites
  <2> HIDE DEF l
  <2> QED BY <1>1, <1>2, <2>1 DEF Known, AtPlace, Writes, ReturnsLab, Executes, Acts
<1>4. Eda \in Names /\ Folds \in Names /\ Eda # Folds
  BY DEF Eda, Folds, Names, OnceKinds
<1>5. Known' /\ Only(r)
  BY <1>1, <1>3, <1>4, ActsOnly
<1>6. AtPlace(r, 2)'
  <2>1. /\ "data_analyst" \in todo[r] /\ status[r] = "running" /\ Finish(r, "data_analyst")
        /\ reruns'[r] = {}
    BY <1>3 DEF Acts
  <2>2. 2 = NextPlace(r, 1) /\ 1 # 6
    BY DEF NextPlace
  <2> QED BY <1>1, <1>2, <2>1, <2>2, Advance
<1>7. LabAt(r, 2)'
  BY <1>2, <1>3, LabReport
<1>8. Put(r, Eda, {}, {})
  BY <1>3 DEF Acts
<1>9. PutDid(r, Eda, {}, {})
  BY <1>1, <1>4, <1>8, Traced, PutDoes DEF Known
<1>10. FilesAt(r, 2)'
  <2>1. Present(Eda)'
    BY <1>4, <1>9 DEF PutDid, Present
  <2>2. ~Froze(r)'
    BY <1>2, <1>4, <1>9 DEF PutDid, FilesAt, Froze, Present
  <2>3. ASSUME NEW f \in Names, Present(f)', files'[f].by = r
        PROVE  DOMAIN files'[f].saw = {}
    BY <1>2, <1>9, <2>3 DEF PutDid, FilesAt, Present
  <2> QED BY <2>1, <2>2, <2>3 DEF FilesAt
<1>11. Fits(r, Eda, {}, {})
  <2>1. MayReplace(r, Eda)
    BY <1>2 DEF MayReplace, FilesAt
  <2>2. Unmixed(Eda, {}) /\ Eda[1] \notin Verdicts
    BY DEF Unmixed, Eda, IterationKinds, Delivered, Verdicts
  <2>3. KeepsTrace(r, Eda, {})
    BY <1>3 DEF KeepsTrace
  <2> QED BY <1>4, <1>8, <2>1, <2>2, <2>3 DEF Fits
<1>12. Here(r, 2)' /\ 2 \in Places
  BY <1>6, <1>7, <1>10 DEF Here, Places
<1> QED
  BY <1>1, <1>5, <1>11, <1>12, StepTraced DEF Reports

LEMMA ProblemFramerTraces ==
  ASSUME TraceInv, IInv', NEW r \in Runs, ProblemFramer(r)
  PROVE  TraceInv'
<1>1. Known /\ Here(r, 2) /\ 2 \in Places
  <2>1. Stations[2] \in todo[r] /\ 2 \in (1..24) \ {5, 6, 13}
    BY StationsAre DEF ProblemFramer, ReturnsLab, Executes
  <2> QED BY <2>1, Stands
<1>2. AtPlace(r, 2) /\ LabAt(r, 2) /\ FilesAt(r, 2)
  BY <1>1 DEF Here
<1> DEFINE l == [lab[r] EXCEPT !.problem_definition_path = Problem]
<1>3. Acts(r, "problem_framer", Problem, {Eda}, {}) /\ reruns[r] = {} /\ lab'[r] = l
  <2>1. lab[r].eda_report_path = Eda
    BY <1>2 DEF LabAt
  <2>2. ReturnsLab(r, "problem_framer", l) /\ Writes(r, Problem, {Eda}) /\ 2 \notin {5, 13, 16}
    BY <2>1 DEF ProblemFramer, ProblemFramerWrites
  <2> HIDE DEF l
  <2> QED BY <1>1, <1>2, <2>2 DEF Known, AtPlace, Writes, ReturnsLab, Executes, Acts
<1>4. /\ Eda \in Names /\ Problem \in Names /\ Folds \in Names
      /\ Problem # Folds /\ Problem # Eda
  BY DEF Eda, Problem, Folds, Names, OnceKinds
<1>5. Known' /\ Only(r)
  BY <1>1, <1>3, <1>4, ActsOnly
<1>6. AtPlace(r, 3)'
  <2>1. /\ "problem_framer" \in todo[r] /\ status[r] = "running" /\ Finish(r, "problem_framer")
        /\ reruns'[r] = {}
    BY <1>3 DEF Acts
  <2>2. 3 = NextPlace(r, 2) /\ 2 # 6
    BY DEF NextPlace
  <2> QED BY <1>1, <1>2, <2>1, <2>2, Advance
<1>7. LabAt(r, 3)'
  BY <1>2, <1>3, LabProblem
<1>8. Put(r, Problem, {Eda}, {})
  BY <1>3 DEF Acts
<1>9. PutDid(r, Problem, {Eda}, {})
  BY <1>1, <1>4, <1>8, Traced, PutDoes DEF Known
<1>10. FilesAt(r, 3)'
  <2>1. Present(Eda)' /\ Present(Problem)'
    BY <1>2, <1>4, <1>9 DEF PutDid, Present, FilesAt
  <2>2. ~Froze(r)'
    BY <1>2, <1>4, <1>9 DEF PutDid, FilesAt, Froze, Present
  <2> QED BY <2>1, <2>2 DEF FilesAt
<1>11. Fits(r, Problem, {Eda}, {})
  <2>1. MayReplace(r, Problem)
    BY <1>2 DEF MayReplace, FilesAt
  <2>2. Unmixed(Problem, {Eda}) /\ Problem[1] \notin Verdicts
    BY DEF Unmixed, Problem, IterationKinds, Delivered, Verdicts
  <2>3. KeepsTrace(r, Problem, {})
    BY <1>3 DEF KeepsTrace
  <2>4. Present(Eda)
    BY <1>2 DEF FilesAt
  <2> QED BY <1>4, <1>8, <2>1, <2>2, <2>3, <2>4 DEF Fits
<1>12. Here(r, 3)' /\ 3 \in Places
  BY <1>6, <1>7, <1>10 DEF Here, Places
<1> QED
  BY <1>1, <1>5, <1>11, <1>12, StepTraced DEF Reports

\* validation_strategist finds no folds; then nothing but the two reports lies
\* in the workspace.
LEMMA ValidationStrategistTraces ==
  ASSUME TraceInv, IInv', NEW r \in Runs, ValidationStrategist(r)
  PROVE  TraceInv'
<1>1. Known /\ Here(r, 3) /\ 3 \in Places
  <2>1. Stations[3] \in todo[r] /\ 3 \in (1..24) \ {5, 6, 13}
    BY StationsAre DEF ValidationStrategist, ReturnsLab, Executes
  <2> QED BY <2>1, Stands
<1>2. AtPlace(r, 3) /\ LabAt(r, 3) /\ FilesAt(r, 3) /\ ~Present(Folds)
  BY <1>1 DEF Here, ValidationStrategist, ValidationStrategistWrites
<1> DEFINE l == [lab[r] EXCEPT !.validation_config_path = Folds]
           ins == {Problem, Eda}
<1>3. Acts(r, "validation_strategist", Folds, ins, {}) /\ reruns[r] = {} /\ lab'[r] = l
  <2>1. lab[r].eda_report_path = Eda /\ lab[r].problem_definition_path = Problem
    BY <1>2 DEF LabAt
  <2>2. /\ ReturnsLab(r, "validation_strategist", l) /\ Writes(r, Folds, ins)
        /\ 3 \notin {5, 13, 16}
    BY <2>1 DEF ValidationStrategist, ValidationStrategistWrites
  <2> HIDE DEF l, ins
  <2> QED BY <1>1, <1>2, <2>2 DEF Known, AtPlace, Writes, ReturnsLab, Executes, Acts
<1>4. /\ Eda \in Names /\ Problem \in Names /\ Folds \in Names
      /\ Problem # Folds /\ Eda # Folds
  BY DEF Eda, Problem, Folds, Names, OnceKinds
<1>5. Known' /\ Only(r)
  BY <1>1, <1>3, <1>4, ActsOnly
<1>6. AtPlace(r, 4)'
  <2>1. /\ "validation_strategist" \in todo[r] /\ status[r] = "running"
        /\ Finish(r, "validation_strategist") /\ reruns'[r] = {}
    BY <1>3 DEF Acts
  <2>2. 4 = NextPlace(r, 3) /\ 3 # 6
    BY DEF NextPlace
  <2> QED BY <1>1, <1>2, <2>1, <2>2, Advance
<1>7. LabAt(r, 4)'
  BY <1>2, <1>3, LabFolds
<1>8. Put(r, Folds, ins, {})
  BY <1>3 DEF Acts
<1>9. PutDid(r, Folds, ins, {})
  BY <1>1, <1>4, <1>8, Traced, PutDoes DEF Known
<1>10. FilesAt(r, 4)'
  <2>1. Present(Eda)' /\ Present(Problem)' /\ Froze(r)'
    BY <1>2, <1>4, <1>9 DEF PutDid, Present, FilesAt, Froze
  <2>2. ASSUME NEW g \in Names \ {Eda, Problem}
        PROVE  Present(g)' <=> Written(r, 4, g)'
    <3>1. ~Present(g)
      BY <1>2, <2>2, Traced DEF IInv, FoldsGuardWorkspace
    <3>2. Present(g)' <=> g = Folds
      BY <1>9, <2>2, <3>1 DEF PutDid, Present
    <3>3. At(r)' = 0
      BY <1>2, <1>3 DEF LabAt, NewLab, At
    <3>4. CASE g[1] \in IterationKinds
      <4>1. StationOf[g[1]] \in 11..21 /\ g[2] \in Nat /\ g # Folds
            /\ g[1] # "literature" /\ g[1] # "web"
        BY <2>2, <3>4, KindsAre, NamesAre, RunsAssumption
           DEF Iterations, Folds, IterationKinds
      <4>2. ~Written(r, 4, g)'
        BY <3>3, <3>4, <4>1 DEF Written
      <4> QED BY <3>2, <4>1, <4>2
    <3>5. CASE g[1] \notin IterationKinds
      <4>1. g = <<g[1], 0>> /\ g[1] \in OnceKinds \ {"eda", "problem"}
        BY <2>2, <3>5, NamesAre DEF Eda, Problem
      <4>2. Written(r, 4, g)' <=> StationOf[g[1]] < 4
        BY <3>5 DEF Written
      <4>3. StationOf[g[1]] < 4 <=> g[1] = "folds"
        <5>1. StationOf["folds"] = 3
          BY DEF StationOf
        <5>2. g[1] # "folds" => StationOf[g[1]] \in Int /\ StationOf[g[1]] > 3
          BY <4>1, KindsAre
        <5> QED BY <5>1, <5>2
      <4> QED BY <3>2, <4>1, <4>2, <4>3 DEF Folds
    <3> QED BY <3>4, <3>5
  <2> QED BY <2>1, <2>2 DEF FilesAt
<1>11. Fits(r, Folds, ins, {})
  <2>2. Unmixed(Folds, ins) /\ Folds[1] \notin Verdicts
    BY DEF Unmixed, Folds, IterationKinds, Delivered, Verdicts
  <2>3. KeepsTrace(r, Folds, {})
    BY <1>3 DEF KeepsTrace
  <2>4. Present(Eda) /\ Present(Problem)
    BY <1>2 DEF FilesAt
  <2>5. \A g \in ins : g \in Names /\ g # Folds /\ Present(g)
    BY <1>4, <2>4
  <2> QED BY <1>2, <1>4, <1>8, <2>2, <2>3, <2>5 DEF Fits
<1>12. Here(r, 4)' /\ 4 \in Places
  BY <1>6, <1>7, <1>10 DEF Here, Places
<1> HIDE DEF ins
<1> QED
  BY <1>1, <1>2, <1>5, <1>11, <1>12, StepTraced

\* The two researchers, in either order.
LEMMA ResearcherTraces ==
  ASSUME TraceInv, IInv', NEW r \in Runs, NEW f, NEW n,
         \/ f = <<"literature", 0>> /\ n = "literature_researcher"
         \/ f = <<"web", 0>> /\ n = "web_researcher",
         Writes(r, f, {lab[r].problem_definition_path}), Returns(r, n)
  PROVE  TraceInv'
<1>1. /\ Known /\ Here(r, 6) /\ 6 \in Places
      /\ DOMAIN files = Names /\ \A g \in Names : files[g].ver \in Nat
  <2>1. PICK p \in Places : Here(r, p)
    BY Traced
  <2>2. n \in todo[r] /\ n \in Researchers
    BY DEF Returns, Executes, Researchers
  <2>3. p = 6
    <3>1. p # 6 => n = Stations[p] /\ p \in 1..24
      BY <2>1, <2>2 DEF Here, AtPlace, Places
    <3>2. Stations[6] = "literature_researcher" /\ 6 \in 1..24
      BY StationsAre
    <3>3. \A k \in 1..24 : Stations[k] # "web_researcher"
      BY StationsAre
    <3> QED BY <2>2, <3>1, <3>2, <3>3, StationsDiffer DEF Researchers
  <2> QED BY <2>1, <2>3, Traced DEF Known
<1>2. AtPlace(r, 6) /\ LabAt(r, 6) /\ FilesAt(r, 6)
  BY <1>1 DEF Here
<1>3. Acts(r, n, f, {Problem}, {}) /\ reruns[r] = {} /\ lab'[r] = lab[r]
  <2>1. lab[r].problem_definition_path = Problem
    BY <1>2 DEF LabAt
  <2>2. Writes(r, f, {Problem}) /\ 6 \notin {5, 13, 16}
    BY <2>1
  <2> QED BY <1>1, <1>2, <2>2 DEF Known, AtPlace, Writes, Returns, Executes, Acts
<1>4. /\ f \in Names /\ f \notin Reports /\ f # Folds /\ f # Problem
      /\ f[1] \in {"literature", "web"} /\ f[1] \notin IterationKinds
  BY NamesAre DEF OnceKinds, IterationKinds, Reports, Eda, Problem, Folds
<1>5. Known' /\ Only(r)
  BY <1>1, <1>3, <1>4, ActsOnly
<1>6. At(r) = 0 /\ At(r)' = 0
  BY <1>1, <1>2, <1>3, AtIteration DEF At
<1>7. Put(r, f, {Problem}, {})
  BY <1>3 DEF Acts
<1>8. /\ n \in todo[r] /\ status[r] = "running" /\ Finish(r, n) /\ reruns'[r] = {}
  BY <1>3 DEF Acts
<1>9. \/ AtPlace(r, 6)' /\ ran'[r] = ran[r] \cup {n}
      \/ AtPlace(r, 7)' /\ ran[r] \cup {n} = Researchers
  BY <1>1, <1>2, <1>8, AdvanceResearch
<1>10. \E q \in {6, 7} : Here(r, q)'
  <2>1. CASE AtPlace(r, 6)' /\ ran'[r] = ran[r] \cup {n}
    <3>1. LabAt(r, 6)'
      BY <1>1, <1>2, <1>3, LabSame
    <3>2. ASSUME NEW g \in Names \ Reports
          PROVE  Written(r, 6, g)' <=> Written(r, 6, g) \/ g = f
      BY <1>6, <2>1, WrittenResearch
    <3>3. FilesAt(r, 6)'
      BY <1>1, <1>2, <1>4, <1>7, <3>2, FilesNext
    <3> QED BY <2>1, <3>1, <3>3 DEF Here
  <2>2. CASE AtPlace(r, 7)' /\ ran[r] \cup {n} = Researchers
    <3>1. LabAt(r, 7)'
      <4>1. LabAt(r, 6 + 1)'
        BY <1>1, <1>2, <1>3, LabStays
      <4> QED BY <4>1
    <3>2. ASSUME NEW g \in Names \ Reports
          PROVE  Written(r, 7, g)' <=> Written(r, 6, g) \/ g = f
      BY <1>6, <2>2, WrittenResearch
    <3>3. FilesAt(r, 7)'
      <4>1. 7 \in Places
        BY DEF Places
      <4> QED BY <1>1, <1>2, <1>4, <1>7, <3>2, <4>1, FilesNext
    <3> QED BY <2>2, <3>1, <3>3 DEF Here
  <2> QED BY <1>9, <2>1, <2>2
<1>11. Fits(r, f, {Problem}, {})
  <2>1. Problem \in Names /\ Present(Problem)
    BY <1>1, Lying
  <2>2. ~Present(f)
    <3>1. Present(f) <=> Written(r, 6, f)
      BY <1>2, <1>4 DEF FilesAt, Reports
    <3>2. f[1] = "literature" => n = "literature_researcher"
      OBVIOUS
    <3>3. f[1] = "web" => n = "web_researcher"
      OBVIOUS
    <3>4. n \notin ran[r]
      BY <1>2, <1>8 DEF AtPlace
    <3> QED BY <1>4, <3>1, <3>2, <3>3, <3>4 DEF Written
  <2>3. Unmixed(f, {Problem})
    BY <1>4 DEF Unmixed, Delivered, IterationKinds
  <2>4. KeepsTrace(r, f, {})
    BY <1>3 DEF KeepsTrace
  <2> QED BY <1>4, <1>7, <2>1, <2>2, <2>3, <2>4 DEF Fits
<1>12. PICK q \in {6, 7} : Here(r, q)'
  BY <1>10
<1>13. q \in Places
  BY DEF Places
<1> QED
  BY <1>1, <1>5, <1>11, <1>12, <1>13, StepTraced

-----------------------------------------------------------------------------
(* The invariant                                                           *)

LEMMA NodeTraces ==
  ASSUME TraceInv, NEW r \in Runs, NodeStep(r)
  PROVE  TraceInv'
<1>0. IInv'
  BY NodeInv DEF TraceInv
<1>1. CASE LiteratureResearcher(r)
  BY <1>0, <1>1, ResearcherTraces DEF LiteratureResearcher, LiteratureResearcherWrites
<1>2. CASE WebResearcher(r)
  BY <1>0, <1>2, ResearcherTraces DEF WebResearcher, WebResearcherWrites
<1>3. ASSUME NEW target, CriticReruns(r, target) PROVE TraceInv'
  BY <1>0, <1>3, CriticRerunsTraces
<1> QED
  BY <1>0, <1>1, <1>2, <1>3, DataAnalystTraces, ProblemFramerTraces,
     ValidationStrategistTraces, LeakageAuditorTraces, CompetitionAnalystTraces,
     MemoryManagerTraces, BaselineDesignerTraces, BaselineRunnerTraces,
     SolutionArchitectTraces, FeatureEngineerTraces, SpecialistSelectorTraces,
     CoderTraces, ScoreEvaluatorTraces, FeatureImportanceExtractorTraces,
     ErrorAnalystTraces, HypothesisGeneratorTraces, ExperimentDesignerTraces,
     ReviewerTraces, ReportWriterTraces, KaggleClientTraces, CriticPassesTraces
  DEF NodeStep

LEMMA InitTraces == Init => TraceInv
<1> SUFFICES ASSUME Init PROVE TraceInv
  OBVIOUS
<1>1. \A f \in Names : files[f].ver = 0 /\ files[f].reran = {} /\ ~Present(f)
  BY DEF Init, Absent, Present
<1>2. ReadsTraced /\ IterationsDoNotMix
  BY <1>1 DEF ReadsTraced, IterationsDoNotMix
<1>3. ASSUME NEW r \in Runs
      PROVE  AtPlace(r, 1) /\ LabAt(r, 1) /\ FilesAt(r, 1)
  <2>1. AtPlace(r, 1)
    BY DEF Init, AtPlace, PhaseAt
  <2>2. lab[r] = NewLab
    BY DEF Init
  <2>3. At(r) = 0
    BY <2>2 DEF At, NewLab
  <2>4. <<>> = [j \in 1..0 |-> j - 1]
    OBVIOUS
  <2>5. LabAt(r, 1)
    BY <2>2, <2>3, <2>4, RunsAssumption DEF LabAt, PathOf, NewLab
  <2>6. FilesAt(r, 1)
    BY <1>1, FoldsIsAName DEF FilesAt, Froze
  <2> QED BY <2>1, <2>5, <2>6
<1>4. /\ DOMAIN status = Runs /\ DOMAIN lab = Runs /\ DOMAIN reruns = Runs /\ 1 \in Places
  BY DEF Init, Places
<1> QED
  BY <1>1, <1>2, <1>3, <1>4, InitInv DEF TraceInv

\* A step that writes nothing and leaves every run where it is.
LEMMA QuietTraces ==
  ASSUME TraceInv, IInv', NEW r, UNCHANGED <<phase, ran, lab, files>>,
         DOMAIN status' = Runs, DOMAIN todo' = Runs, DOMAIN reruns' = Runs,
         \A s \in Runs \ {r} : /\ status'[s] = status[s] /\ todo'[s] = todo[s]
                              /\ reruns'[s] = reruns[s],
         \A p \in Places : r \in Runs /\ AtPlace(r, p) => AtPlace(r, p)',
         \A g \in Names : r \in Runs /\ Unrecorded(r, g) => Unrecorded(r, g)'
  PROVE  TraceInv'
<1>1. ASSUME NEW s \in Runs
      PROVE  \E p \in Places : AtPlace(s, p)' /\ LabAt(s, p)' /\ FilesAt(s, p)'
  <2>1. PICK p \in Places : Here(s, p)
    BY Traced
  <2>2. AtPlace(s, p)'
    <3>1. CASE s = r
      BY <2>1, <3>1 DEF Here
    <3>2. CASE s # r
      <4>1. status'[s] = status[s] /\ todo'[s] = todo[s] /\ reruns'[s] = reruns[s]
        BY <3>2
      <4> QED BY <2>1, <4>1 DEF Here, AtPlace
    <3> QED BY <3>1, <3>2
  <2>3. LabAt(s, p)'
    BY <2>1, LabSame DEF Here
  <2>4. FilesAt(s, p)'
    BY <2>1 DEF Here, FilesAt, Present, Froze, Written, At
  <2> QED BY <2>2, <2>3, <2>4
<1>2. ASSUME NEW s \in Runs, NEW g \in Names, Unrecorded(s, g)
      PROVE  Unrecorded(s, g)'
  <2>1. CASE s = r
    BY <1>2, <2>1
  <2>2. CASE s # r
    <3>1. /\ status'[s] = status[s] /\ todo'[s] = todo[s] /\ reruns'[s] = reruns[s]
          /\ phase'[s] = phase[s] /\ lab'[s] = lab[s]
      BY <2>2
    <3> QED BY <1>2, <3>1 DEF Unrecorded, VerdictFile, CriticNode, At
  <2> QED BY <2>1, <2>2
<1>3. ReadsTraced'
  <2> SUFFICES ASSUME NEW f \in Names
               PROVE  /\ ~Present(f)' => files'[f].reran = {}
                      /\ Present(f)' => \A g \in DOMAIN files'[f].saw \ SourceFiles :
                           /\ g \in Names
                           /\ files'[f].saw[g] \in 1..files'[g].ver
                           /\ \/ files'[f].saw[g] = files'[g].ver
                              \/ files'[g].by # files'[f].by
                              \/ Author(g[1]) \in files'[Record(g)].reran
                              \/ \E by \in Runs : by = files'[f].by /\ Unrecorded(by, g)'
    BY DEF ReadsTraced
  <2>1. files' = files /\ (Present(f)' <=> Present(f))
    BY DEF Present
  <2>2. ~Present(f) => files[f].reran = {}
    BY Traced DEF ReadsTraced
  <2>3. ASSUME Present(f), NEW g \in DOMAIN files[f].saw \ SourceFiles
        PROVE  /\ g \in Names
               /\ files[f].saw[g] \in 1..files[g].ver
               /\ \/ files[f].saw[g] = files[g].ver
                  \/ files[g].by # files[f].by
                  \/ Author(g[1]) \in files[Record(g)].reran
                  \/ \E by \in Runs : by = files[f].by /\ Unrecorded(by, g)'
    <3>1. PICK by \in Runs : by = files[f].by
      BY <2>3, Traced
    <3>2. /\ g \in Names
          /\ files[f].saw[g] \in 1..files[g].ver
          /\ \/ files[f].saw[g] = files[g].ver
             \/ files[g].by # by
             \/ Author(g[1]) \in files[Record(g)].reran
             \/ Unrecorded(by, g)
      BY <2>3, <3>1, Traced DEF ReadsTraced
    <3> QED BY <1>2, <3>1, <3>2
  <2> QED BY <2>1, <2>2, <2>3
<1>4. IterationsDoNotMix'
  BY Traced DEF IterationsDoNotMix, Present
<1>5. \A f \in Names : Present(f)' => files'[f].by \in Runs
  BY DEF TraceInv, Present
<1> QED
  BY <1>1, <1>3, <1>4, <1>5 DEF TraceInv

\* The run that fails in the hands of a critic fails where the critic works.
LEMMA FailLeaves ==
  ASSUME TraceInv, NEW r \in Runs, Fail(r), NEW g, Unrecorded(r, g)
  PROVE  Unrecorded(r, g)'
<1>1. /\ status[r] = "running" /\ status'[r] = "failed"
      /\ UNCHANGED <<phase, todo, lab>>
  BY Traced DEF Fail, Known
<1>2. Author(g[1]) \in reruns[r]
  BY <1>1 DEF Unrecorded
<1>3. PICK p \in {5, 13, 16} : AtPlace(r, p)
  BY <1>2, Traced DEF Here, AtPlace
<1>4. CriticNode(r) \in todo[r]
  <2>1. phase[r] = PhaseAt(p) /\ todo[r] = {Stations[p]}
    BY <1>1, <1>3 DEF AtPlace
  <2> QED BY <2>1, StationsAre DEF CriticNode
<1> QED
  BY <1>1, <1>4 DEF Unrecorded, VerdictFile, CriticNode, At

LEMMA StepTraces == TraceInv /\ [Next]_vars => TraceInv'
<1> SUFFICES ASSUME TraceInv, [Next]_vars PROVE TraceInv'
  OBVIOUS
<1>0. IInv' /\ Known
  BY StepInv, Traced
<1>1. ASSUME NEW r \in Runs, NodeStep(r) PROVE TraceInv'
  BY <1>1, NodeTraces
<1>2. ASSUME NEW r \in Runs, Start(r) PROVE TraceInv'
  <2>1. /\ status' = [status EXCEPT ![r] = "running"] /\ status[r] = "new"
        /\ todo' = [todo EXCEPT ![r] = {"data_analyst"}]
        /\ UNCHANGED <<phase, ran, lab, reruns, files>>
    BY <1>2, UnderstandingSteps DEF Start
  <2>2. ASSUME NEW p \in Places, AtPlace(r, p)
        PROVE  AtPlace(r, p)'
    <3>1. p = 1
      BY <2>1, <2>2 DEF AtPlace
    <3>2. status'[r] = "running" /\ todo'[r] = {Stations[1]}
      BY <1>0, <2>1, StationsAre DEF Known
    <3> QED BY <2>1, <2>2, <3>1, <3>2 DEF AtPlace
  <2>3. ASSUME NEW g, Unrecorded(r, g)
        PROVE  Unrecorded(r, g)'
    BY <2>1, <2>3 DEF Unrecorded, VerdictFile, CriticNode, At
  <2> QED BY <1>0, <2>1, <2>2, <2>3, QuietTraces DEF Known
<1>3. ASSUME NEW r \in Runs, Resume(r) PROVE TraceInv'
  <2>1. /\ status' = [status EXCEPT ![r] = "running"] /\ status[r] = "paused"
        /\ UNCHANGED <<phase, todo, ran, lab, reruns, files>>
    BY <1>3 DEF Resume
  <2>2. ASSUME NEW p \in Places, AtPlace(r, p)
        PROVE  AtPlace(r, p)'
    <3>1. status'[r] # "new" /\ status[r] # "new"
      BY <1>0, <2>1 DEF Known
    <3> QED BY <2>1, <2>2, <3>1 DEF AtPlace
  <2>3. ASSUME NEW g, Unrecorded(r, g)
        PROVE  Unrecorded(r, g)'
    BY <2>1, <2>3 DEF Unrecorded, VerdictFile, CriticNode, At
  <2> QED BY <1>0, <2>1, <2>2, <2>3, QuietTraces DEF Known
<1>4. ASSUME NEW r \in Runs, Fail(r) PROVE TraceInv'
  <2>1. /\ status' = [status EXCEPT ![r] = "failed"] /\ status[r] = "running"
        /\ reruns' = [reruns EXCEPT ![r] = {}]
        /\ UNCHANGED <<phase, todo, ran, lab, files>>
    BY <1>4 DEF Fail
  <2>2. ASSUME NEW p \in Places, AtPlace(r, p)
        PROVE  AtPlace(r, p)'
    <3>1. status'[r] # "new" /\ status[r] # "new" /\ reruns'[r] = {}
      BY <1>0, <2>1 DEF Known
    <3> QED BY <2>1, <2>2, <3>1 DEF AtPlace
  <2>3. ASSUME NEW g, Unrecorded(r, g)
        PROVE  Unrecorded(r, g)'
    BY <1>4, <2>3, FailLeaves
  <2> QED BY <1>0, <2>1, <2>2, <2>3, QuietTraces DEF Known
<1>5. CASE UNCHANGED vars
  <2>1. \A p \in Places, s \in Runs : AtPlace(s, p) => AtPlace(s, p)'
    BY <1>5 DEF vars, AtPlace
  <2>2. \A g, s : Unrecorded(s, g) => Unrecorded(s, g)'
    BY <1>5 DEF vars, Unrecorded, VerdictFile, CriticNode, At
  <2>3. CASE Runs = {}
    BY <1>0, <1>5, <2>3, QuietTraces DEF vars, Known
  <2>4. CASE Runs # {}
    <3>1. PICK r \in Runs : TRUE
      BY <2>4
    <3> QED BY <1>0, <1>5, <2>1, <2>2, <3>1, QuietTraces DEF vars, Known
  <2> QED BY <2>3, <2>4
<1> QED
  BY <1>1, <1>2, <1>3, <1>4, <1>5 DEF Next

-----------------------------------------------------------------------------
(* Which iteration a step writes into                                     *)

\* Nothing is written into an iteration but by the run that froze the folds,
\* and by that run into the iteration it is at.
WritesNow(r) ==
  \E h, ins, again : /\ Put(r, h, ins, again)
                     /\ h[1] \in IterationKinds => h[2] = At(r) /\ Froze(r)

LEMMA LateFroze ==
  ASSUME IInv, NEW r \in Runs, NEW n \in todo[r], n \notin FirstNodes
  PROVE  Froze(r)
BY DEF IInv, Early, FirstNodes

\* A node that takes its results from the last entry of the index.
LEMMA EvaluatedNow ==
  ASSUME TraceInv, NEW r \in Runs, NEW p \in {17, 18}, Stations[p] \in todo[r]
  PROVE  EvaluatedIteration(r) = At(r) /\ Froze(r)
<1>1. p \in (1..24) \ {5, 6, 13}
  OBVIOUS
<1>2. Here(r, p) /\ p \in Places
  BY <1>1, Stands
<1>3. LabAt(r, p)
  BY <1>2 DEF Here
<1>4. At(r) + 1 = IF 15 < p /\ p <= 21 THEN At(r) + 1 ELSE At(r)
  OBVIOUS
<1>5. EvaluatedIteration(r) = At(r)
  BY <1>2, <1>3, <1>4, IndexEntries
<1>6. Froze(r)
  BY <1>2 DEF Here, FilesAt
<1> QED BY <1>5, <1>6

\* A critic's rerun is of the place the critic is at.
LEMMA RerunNow ==
  ASSUME TraceInv, NEW r \in Runs, NEW target, CriticReruns(r, target)
  PROVE  WritesNow(r)
<1>1. Rewrites(r, target) /\ CriticNode(r) \in todo[r]
  BY DEF CriticReruns, Executes
<1>2. CriticNode(r) \notin FirstNodes
  BY DEF CriticNode, FirstNodes
<1>3. Froze(r)
  BY <1>1, <1>2, LateFroze, Traced
<1>4. \E h, ins : Put(r, h, ins, {}) /\ (h[1] \in IterationKinds => h[2] = At(r))
  BY <1>1 DEF Rewrites, DataAnalystWrites, ProblemFramerWrites,
     LeakageAuditorWrites, SolutionArchitectWrites, FeatureEngineerWrites,
     CoderWrites, Writes, Eda, Problem, IterationKinds
<1> QED BY <1>3, <1>4 DEF WritesNow

LEMMA NodesWriteNow ==
  ASSUME TraceInv, NEW r \in Runs, NodeStep(r)
  PROVE  WritesNow(r)
<1>0. IInv
  BY Traced
<1> USE DEF WritesNow, Writes
<1>1. CASE DataAnalyst(r)
  BY <1>1 DEF DataAnalyst, DataAnalystWrites, IterationKinds, Eda, Problem, Folds
<1>2. CASE ProblemFramer(r)
  BY <1>2 DEF ProblemFramer, ProblemFramerWrites, IterationKinds, Eda, Problem, Folds
<1>3. CASE ValidationStrategist(r)
  BY <1>3 DEF ValidationStrategist, ValidationStrategistWrites, IterationKinds, Eda, Problem, Folds
<1>4. CASE LeakageAuditor(r)
  BY <1>4 DEF LeakageAuditor, LeakageAuditorWrites, IterationKinds
<1>5. CASE LiteratureResearcher(r)
  BY <1>5 DEF LiteratureResearcher, LiteratureResearcherWrites, IterationKinds
<1>6. CASE WebResearcher(r)
  BY <1>6 DEF WebResearcher, WebResearcherWrites, IterationKinds
<1>7. CASE CompetitionAnalyst(r)
  BY <1>7 DEF CompetitionAnalyst, CompetitionAnalystWrites, IterationKinds
<1>8. CASE MemoryManager(r)
  BY <1>8 DEF MemoryManager, MemoryManagerWrites, IterationKinds
<1>9. CASE BaselineDesigner(r)
  BY <1>9 DEF BaselineDesigner, BaselineDesignerWrites, IterationKinds
<1>10. CASE BaselineRunner(r)
  BY <1>10 DEF BaselineRunner, BaselineRunnerWrites, IterationKinds
<1>11. CASE Reviewer(r)
  BY <1>11 DEF Reviewer, ReviewerWrites, IterationKinds
<1>12. CASE ReportWriter(r)
  BY <1>12 DEF ReportWriter, ReportWriterWrites, IterationKinds
<1>13. CASE KaggleClient(r)
  BY <1>13 DEF KaggleClient, KaggleClientWrites, IterationKinds
<1>14. CASE SolutionArchitect(r)
  BY <1>0, <1>14, LateFroze
  DEF SolutionArchitect, SolutionArchitectWrites, ReturnsLab, Executes, FirstNodes
<1>15. CASE FeatureEngineer(r)
  BY <1>0, <1>15, LateFroze
  DEF FeatureEngineer, FeatureEngineerWrites, ReturnsLab, Executes, FirstNodes
<1>16. CASE SpecialistSelector(r)
  BY <1>0, <1>16, LateFroze DEF SpecialistSelector, SpecialistWrites, Returns, Executes, FirstNodes
<1>17. CASE Coder(r)
  BY <1>0, <1>17, LateFroze DEF Coder, CoderWrites, ReturnsLab, Executes, FirstNodes
<1>18. CASE ErrorAnalyst(r)
  BY <1>0, <1>18, LateFroze DEF ErrorAnalyst, ErrorAnalystWrites, Returns, Executes, FirstNodes
<1>19. CASE HypothesisGenerator(r)
  BY <1>0, <1>19, LateFroze
  DEF HypothesisGenerator, HypothesisGeneratorWrites, Returns, Executes, FirstNodes
<1>20. CASE ExperimentDesigner(r)
  BY <1>0, <1>20, LateFroze
  DEF ExperimentDesigner, ExperimentDesignerWrites, ReturnsLab, Executes, FirstNodes
<1>21. CASE ScoreEvaluator(r)
  <2>1. Stations[17] \in todo[r] /\ 17 \in {17, 18}
    BY <1>21, StationsAre DEF ScoreEvaluator, ReturnsLab, Executes
  <2>2. EvaluatedIteration(r) = At(r) /\ Froze(r)
    BY <2>1, EvaluatedNow
  <2> QED BY <1>21, <2>2 DEF ScoreEvaluator, ScoreEvaluatorWrites
<1>22. CASE FeatureImportanceExtractor(r)
  <2>1. Stations[18] \in todo[r] /\ 18 \in {17, 18}
    BY <1>22, StationsAre DEF FeatureImportanceExtractor, Returns, Executes
  <2>2. EvaluatedIteration(r) = At(r) /\ Froze(r)
    BY <2>1, EvaluatedNow
  <2> QED BY <1>22, <2>2 DEF FeatureImportanceExtractor, ImportanceExtractorWrites
<1>23. CASE CriticPasses(r)
  <2>1. CriticNode(r) \in todo[r] /\ CriticNode(r) \notin FirstNodes
    BY <1>23 DEF CriticPasses, Executes, CriticNode, FirstNodes
  <2>2. Froze(r)
    BY <1>0, <2>1, LateFroze
  <2> QED BY <1>23, <2>2 DEF CriticPasses, VerdictFile, IterationKinds
<1>24. ASSUME NEW target, CriticReruns(r, target) PROVE WritesNow(r)
  BY <1>24, RerunNow
<1> QED
  BY <1>1, <1>2, <1>3, <1>4, <1>5, <1>6, <1>7, <1>8, <1>9, <1>10, <1>11, <1>12,
     <1>13, <1>14, <1>15, <1>16, <1>17, <1>18, <1>19, <1>20, <1>21, <1>22, <1>23, <1>24
  DEF NodeStep


-----------------------------------------------------------------------------

\* What a critic had made again and has not recorded: its record is not there.
LEMMA NoRecordYet ==
  ASSUME TraceInv, NEW r \in Runs, NEW g \in Names, Unrecorded(r, g)
  PROVE  ~Present(Record(g))
<1>1. PICK p \in {5, 13, 16} : Here(r, p) /\ CriticNode(r) = Stations[p]
  <2>1. CASE CriticNode(r) \in todo[r]
    BY <2>1, CriticPlace
  <2>2. CASE reruns[r] # {}
    <3>1. PICK p \in {5, 13, 16} : Here(r, p)
      BY <2>2, Traced DEF Here, AtPlace
    <3>2. phase[r] = PhaseAt(p)
      BY <3>1 DEF Here, AtPlace
    <3>3. CriticNode(r) = Stations[p]
      BY <3>2, StationsAre DEF CriticNode
    <3> QED BY <3>1, <3>3
  <2> QED BY <2>1, <2>2 DEF Unrecorded
<1>2. Record(g) = VerdictFile(r) /\ Record(g) \in Names
  BY RecordsAre DEF Unrecorded
<1>3. p \in Places /\ p > 3 /\ p # 6
  BY DEF Places
<1>4. /\ Record(g) \notin Reports /\ StationOf[Record(g)[1]] = p
      /\ Record(g)[1] \in OnceKinds \/ (Record(g)[1] \in IterationKinds /\ Record(g)[2] = At(r))
  BY <1>1, <1>2, CriticReads, StationsOfKinds
  DEF Reports, Eda, Problem, OnceKinds, IterationKinds
<1> QED
  BY <1>1, <1>2, <1>3, <1>4, NotYet

\* Whoever the runs of a workspace are, however they fail and whatever their
\* scores: every node finds the files it reads, of those that some node writes,
\* and whatever is replaced after it was read is replaced by another run, by a
\* rerun the critic's record names, or by a rerun of a critic that is at work or
\* failed, which has left no record.
THEOREM ReadsAreTraced == Spec => []NoStaleReads
<1>1. TraceInv => NoStaleReads
  <2> SUFFICES ASSUME TraceInv, NEW f \in Names, Present(f),
                      NEW g \in DOMAIN files[f].saw \ SourceFiles
               PROVE  /\ files[f].saw[g] > 0
                      /\ \/ files[f].saw[g] = files[g].ver
                         \/ files[g].by # files[f].by
                         \/ Rerun(files[f].by, g)
    BY DEF NoStaleReads
  <2>1. files[f].by \in Runs
    BY Traced
  <2>2. /\ g \in Names
        /\ files[f].saw[g] \in 1..files[g].ver
        /\ \/ files[f].saw[g] = files[g].ver
           \/ files[g].by # files[f].by
           \/ Author(g[1]) \in files[Record(g)].reran
           \/ Unrecorded(files[f].by, g)
    BY Traced DEF ReadsTraced
  <2>3. Unrecorded(files[f].by, g) => ~Present(Record(g))
    BY <2>1, <2>2, NoRecordYet
  <2> QED BY <2>2, <2>3 DEF Rerun
<1> QED
  BY InitTraces, StepTraces, <1>1, PTL DEF Spec

\* What an iteration produces is made of that iteration's files and of earlier
\* experiments, and delivery speaks of the last one that was scored.
THEOREM IterationsAreApart == Spec => []IterationsDoNotMix
<1>1. TraceInv => IterationsDoNotMix
  BY DEF TraceInv
<1> QED
  BY InitTraces, StepTraces, <1>1, PTL DEF Spec

\* A run that counts iterations has frozen the folds, so a past iteration of
\* its is out of reach: for itself, which is at a later one, and for everybody
\* else, who gets no further than the folds.
THEOREM PastStaysFinal == Spec => PastIterationsAreFinal
<1>1. ASSUME TraceInv, [Next]_vars, NEW f \in Names, NEW r \in Runs,
             f[1] \in IterationKinds, files[f].by = r, f[2] < At(r)
      PROVE  files'[f] = files[f]
  <2>1. Froze(r) /\ At(r) \in Nat
    <3>1. PICK p \in Places : Here(r, p)
      BY <1>1, Traced
    <3>2. At(r) \in Nat /\ (p <= 10 => At(r) = 0)
      BY <3>1, AtIteration DEF Here
    <3>3. f[2] \in Nat
      BY <1>1, NamesAre, RunsAssumption DEF Iterations
    <3>4. p > 3
      BY <1>1, <3>2, <3>3 DEF Places
    <3> QED BY <3>1, <3>2, <3>4 DEF Here, FilesAt
  <2>2. ASSUME NEW s \in Runs, NodeStep(s)
        PROVE  files'[f] = files[f]
    <3>1. PICK h, ins, again : /\ Put(s, h, ins, again)
                               /\ h[1] \in IterationKinds => h[2] = At(s) /\ Froze(s)
      BY <1>1, <2>2, NodesWriteNow DEF WritesNow
    <3>2. CASE h = f
      <4>1. s = r
        BY <1>1, <2>1, <3>1, <3>2 DEF Froze
      <4> QED BY <1>1, <2>1, <3>1, <3>2, <4>1
    <3>3. CASE h # f
      <4>1. DOMAIN files = Names
        BY <1>1 DEF TraceInv, IInv
      <4> QED BY <3>1, <3>3, <4>1 DEF Put
    <3> QED BY <3>2, <3>3
  <2>3. ASSUME UNCHANGED files
        PROVE  files'[f] = files[f]
    BY <2>3
  <2> QED BY <1>1, <2>2, <2>3 DEF Next, Start, Resume, Fail, vars
<1>2. TraceInv /\ [Next]_vars =>
        [\A f \in Names, r \in Runs :
           f[1] \in IterationKinds /\ files[f].by = r /\ f[2] < At(r) =>
               files'[f] = files[f]]_vars
  BY <1>1
<1> QED
  BY InitTraces, StepTraces, <1>2, PTL DEF Spec, PastIterationsAreFinal
=============================================================================
