--------------------------- MODULE PipelineProofs ---------------------------
(* Theorems about Pipeline, for every MaxScore, MaxIterations, MaxRetries. *)
EXTENDS Pipeline, TLAPS

\* One improvement of the best score is worth m loops: the step of
\* IterationsBounded that multiplies.
LEMMA OneMoreImprovement ==
    ASSUME NEW a \in Nat, NEW b \in Nat, NEW m \in Nat, b >= a + 1
    PROVE  b * m >= a * m + m
<1>1. PICK k \in Nat : b = a + 1 + k
  <2>1. b - (a + 1) \in Nat /\ b = a + 1 + (b - (a + 1))
    OBVIOUS
  <2>2. QED BY <2>1
<1>2. b * m = a * m + m + k * m
  BY <1>1
<1>3. k * m \in Nat
  OBVIOUS
<1>4. a * m \in Nat
  OBVIOUS
<1>5. QED BY <1>2, <1>3, <1>4

\* new_state satisfies the invariant.
LEMMA InitInv == Init => IInv
<1> SUFFICES ASSUME Init PROVE IInv
  OBVIOUS
<1> USE MaxScoreAssumption, MaxIterationsAssumption, MaxRetriesAssumption, MaxChangesAssumption
<1>1. TypeOK
  BY DEF Init, TypeOK, Nodes, Phases, NoScore, NegInf, NoPath
<1>2. LoopNotEntered /\ IndexFollowsIterations /\ IndexedIsOnDisk
  BY DEF Init, LoopNotEntered, IndexFollowsIterations, IndexedIsOnDisk
<1>3. EvaluationsOnDisk /\ BestAsEvaluated /\ CounterCountsSinceBest
  BY DEF Init, EvaluationsOnDisk,
       BestAsEvaluated, CounterCountsSinceBest, Evaluated, Evaluations,
         NoPath
<1>4. BaselineFirst /\ DeliversWhenStale /\ PatienceLeft
  BY DEF Init, BaselineFirst, DeliversWhenStale, PatienceLeft
<1>5. IterationsBounded
  BY DEF Init, IterationsBounded, Evaluations, NegInf
<1>6. QED BY <1>1, <1>2, <1>3, <1>4, <1>5 DEF IInv

LEMMA RoutingType ==
    ASSUME NEW i \in Nat, NEW w \in Nat
    PROVE  /\ Supervisor("phase2_research", i, w)
                = IF i = 0 THEN "phase3_baseline" ELSE "phase4_design"
           /\ Supervisor("phase6_evaluation", i, w)
                = IF w >= MaxIterations THEN "phase7_delivery"
                  ELSE "phase4_design"
  BY DEF Supervisor

\* Training in the current directory keeps the other directories.
LEMMA TrainKeepsOthers ==
    ASSUME TypeOK, NEW score \in RawScores \cup {NoScore}, Train(score)
    PROVE  /\ DOMAIN results' = DOMAIN results \cup {current_iteration}
           /\ DOMAIN results' \subseteq Nat
           /\ \A d \in DOMAIN results' : results'[d] \in RawScores \cup {NoScore}
           /\ \A d \in DOMAIN results :
                 d # current_iteration => results'[d] = results[d]
           /\ results'[current_iteration] = score
  BY DEF TypeOK, Train

\* What was evaluated is on disk, and is not what coder writes now.
LEMMA EvaluatedOnDisk ==
    ASSUME TypeOK, IndexFollowsIterations, IndexedIsOnDisk
    PROVE  /\ Evaluated \subseteq DOMAIN results
           /\ \A d \in Evaluated :
                 node # "experiment_designer" => d # current_iteration
<1>1. Len(experiments) \in Nat /\ Evaluations \in Nat
  BY DEF TypeOK, Evaluations
<1>2. Evaluations <= Len(experiments)
  BY DEF TypeOK, Evaluations, IndexFollowsIterations
<1>3. QED BY <1>1, <1>2 DEF Evaluated, Evaluations, IndexedIsOnDisk, TypeOK

\* Every step of the graph, of the workspace and of the human preserves it.
LEMMA StepInv == IInv /\ [Next]_vars => IInv'
<1> SUFFICES ASSUME IInv, [Next]_vars PROVE IInv'
  OBVIOUS
<1> USE MaxScoreAssumption, MaxIterationsAssumption, MaxRetriesAssumption
<1> USE MaxChangesAssumption
<1> USE DEF Running, Stamp, Enter, PauseBefore, lab, files
<1>t. TypeOK /\ LoopNotEntered /\ IndexFollowsIterations /\ IndexedIsOnDisk
      /\ EvaluationsOnDisk /\ BestAsEvaluated /\ CounterCountsSinceBest /\ BaselineFirst
      /\ IterationsBounded /\ DeliversWhenStale /\ PatienceLeft
  BY DEF IInv
<1>1. CASE Understanding
  <2>1. TypeOK'
    BY <1>1, <1>t DEF Understanding, TypeOK, Nodes, Phases
  <2>2. LoopNotEntered' /\ IndexFollowsIterations' /\ IndexedIsOnDisk'
    BY <1>1, <1>t DEF Understanding, LoopNotEntered, IndexFollowsIterations, IndexedIsOnDisk
  <2>3. EvaluationsOnDisk' /\ BestAsEvaluated' /\ CounterCountsSinceBest'
    BY <1>1, <1>t DEF Understanding, EvaluationsOnDisk,
       BestAsEvaluated, CounterCountsSinceBest, Evaluated,
       Evaluations, LoopNotEntered, NoPath
  <2>4. BaselineFirst' /\ DeliversWhenStale' /\ PatienceLeft' /\ IterationsBounded'
    BY <1>1, <1>t DEF Understanding, BaselineFirst, DeliversWhenStale, PatienceLeft,
       IterationsBounded, Evaluations
  <2>5. QED BY <2>1, <2>2, <2>3, <2>4 DEF IInv
<1>2. CASE Research
  <2>0. node' = "phase3_baseline" /\ phase' = "phase2_research"
    BY <1>2, <1>t, RoutingType DEF Research, LoopNotEntered
  <2>1. TypeOK'
    BY <1>2, <1>t, <2>0 DEF Research, TypeOK, Nodes, Phases
  <2>2. LoopNotEntered' /\ IndexFollowsIterations' /\ IndexedIsOnDisk'
    BY <1>2, <1>t, <2>0 DEF Research, LoopNotEntered, IndexFollowsIterations, IndexedIsOnDisk
  <2>3. EvaluationsOnDisk' /\ BestAsEvaluated' /\ CounterCountsSinceBest'
    BY <1>2, <1>t, <2>0 DEF Research, EvaluationsOnDisk,
       BestAsEvaluated, CounterCountsSinceBest, Evaluated,
       Evaluations, Value
  <2>4. BaselineFirst' /\ DeliversWhenStale' /\ PatienceLeft' /\ IterationsBounded'
    BY <1>2, <1>t, <2>0 DEF Research, BaselineFirst, DeliversWhenStale, PatienceLeft,
       IterationsBounded, Evaluations, LoopNotEntered
  <2>5. QED BY <2>1, <2>2, <2>3, <2>4 DEF IInv
<1>3. CASE Baseline
  <2>1. TypeOK'
    BY <1>3, <1>t DEF Baseline, TypeOK, Nodes, Phases, RawScores
  <2>2. LoopNotEntered' /\ IndexFollowsIterations' /\ IndexedIsOnDisk'
    BY <1>3, <1>t DEF Baseline, LoopNotEntered, IndexFollowsIterations, IndexedIsOnDisk
  <2>3. EvaluationsOnDisk' /\ BestAsEvaluated' /\ CounterCountsSinceBest'
    BY <1>3, <1>t DEF Baseline, EvaluationsOnDisk,
       BestAsEvaluated, CounterCountsSinceBest, Evaluated,
       Evaluations, Value
  <2>4. BaselineFirst' /\ DeliversWhenStale' /\ PatienceLeft' /\ IterationsBounded'
    BY <1>3, <1>t DEF Baseline, BaselineFirst, DeliversWhenStale, PatienceLeft,
       IterationsBounded, Evaluations, LoopNotEntered, NoScore, RawScores
  <2>5. QED BY <2>1, <2>2, <2>3, <2>4 DEF IInv
<1>4. CASE Design
  <2>1. TypeOK'
    BY <1>4, <1>t DEF Design, TypeOK, Nodes, Phases
  <2>2. LoopNotEntered' /\ IndexFollowsIterations' /\ IndexedIsOnDisk'
    BY <1>4, <1>t DEF Design, LoopNotEntered, IndexFollowsIterations, IndexedIsOnDisk
  <2>3. EvaluationsOnDisk' /\ BestAsEvaluated' /\ CounterCountsSinceBest'
    BY <1>4, <1>t DEF Design, EvaluationsOnDisk,
       BestAsEvaluated, CounterCountsSinceBest, Evaluated,
       Evaluations, Value
  <2>4. BaselineFirst' /\ DeliversWhenStale' /\ PatienceLeft' /\ IterationsBounded'
    BY <1>4, <1>t DEF Design, BaselineFirst, DeliversWhenStale, PatienceLeft,
       IterationsBounded, Evaluations
  <2>5. QED BY <2>1, <2>2, <2>3, <2>4 DEF IInv
<1>5. CASE Coder
  <2>0. PICK score \in RawScores : Train(score) /\ experiments' = Append(experiments, Entry(score))
    BY <1>5 DEF Coder
  <2>a. Entry(score) \in Entries /\ Entry(score).iteration = current_iteration
        /\ Entry(score).path = current_iteration
    BY <1>t DEF Entry, Entries, TypeOK
  <2>b. experiments \in Seq(Entries) /\ Len(experiments) = current_iteration
    BY <1>5, <1>t DEF Coder, TypeOK, IndexFollowsIterations
  <2>c. /\ experiments' \in Seq(Entries)
        /\ Len(experiments') = Len(experiments) + 1
        /\ DOMAIN experiments' = DOMAIN experiments \cup {Len(experiments) + 1}
        /\ \A i \in DOMAIN experiments : experiments'[i] = experiments[i]
        /\ experiments'[Len(experiments) + 1] = Entry(score)
    BY <2>0, <2>a, <2>b
  <2>d. /\ DOMAIN results' = DOMAIN results \cup {current_iteration}
        /\ DOMAIN results' \subseteq Nat
        /\ \A d \in DOMAIN results' : results'[d] \in RawScores \cup {NoScore}
        /\ \A d \in DOMAIN results : d # current_iteration => results'[d] = results[d]
    BY <2>0, <1>t, TrainKeepsOthers
  <2>1. TypeOK'
    BY <1>5, <1>t, <2>c, <2>d DEF Coder, TypeOK, Nodes, Phases
  <2>2. IndexFollowsIterations'
    BY <1>5, <1>t, <2>a, <2>b, <2>c DEF Coder, IndexFollowsIterations, TypeOK
  <2>3. LoopNotEntered' /\ IndexedIsOnDisk'
    BY <1>5, <1>t, <2>b, <2>c, <2>d DEF Coder, LoopNotEntered, IndexedIsOnDisk, TypeOK
  <2>4. Evaluated' = Evaluated /\ Evaluations' = Evaluations
        /\ \A d \in Evaluated : d \in DOMAIN results /\ d # current_iteration
    BY <1>5, <1>t, EvaluatedOnDisk DEF Coder, Evaluated, Evaluations
  <2>5. EvaluationsOnDisk' /\ BestAsEvaluated' /\ CounterCountsSinceBest'
    BY <1>5, <1>t, <2>4, <2>d DEF Coder, EvaluationsOnDisk,
       BestAsEvaluated, CounterCountsSinceBest, Value
  <2>6. BaselineFirst' /\ DeliversWhenStale' /\ PatienceLeft' /\ IterationsBounded'
    BY <1>5, <1>t, <2>4 DEF Coder, BaselineFirst, DeliversWhenStale, PatienceLeft,
       IterationsBounded
  <2>7. QED BY <2>1, <2>2, <2>3, <2>5, <2>6 DEF IInv
<1>6. CASE CriticRetriesCoder
  <2>0. PICK score \in RawScores : Train(score)
    BY <1>6 DEF CriticRetriesCoder
  <2>d. /\ DOMAIN results' = DOMAIN results \cup {current_iteration}
        /\ DOMAIN results' \subseteq Nat
        /\ \A d \in DOMAIN results' : results'[d] \in RawScores \cup {NoScore}
        /\ \A d \in DOMAIN results : d # current_iteration => results'[d] = results[d]
    BY <2>0, <1>t, TrainKeepsOthers
  <2>1. TypeOK'
    BY <1>6, <1>t, <2>d DEF CriticRetriesCoder, TypeOK
  <2>2. LoopNotEntered' /\ IndexFollowsIterations' /\ IndexedIsOnDisk'
    BY <1>6, <1>t, <2>d DEF CriticRetriesCoder, LoopNotEntered, IndexFollowsIterations,
       IndexedIsOnDisk
  <2>4. Evaluated' = Evaluated /\ Evaluations' = Evaluations
        /\ \A d \in Evaluated : d \in DOMAIN results /\ d # current_iteration
    BY <1>6, <1>t, EvaluatedOnDisk DEF CriticRetriesCoder, Evaluated, Evaluations
  <2>5. EvaluationsOnDisk' /\ BestAsEvaluated' /\ CounterCountsSinceBest'
    BY <1>6, <1>t, <2>4, <2>d DEF CriticRetriesCoder, EvaluationsOnDisk,
       BestAsEvaluated, CounterCountsSinceBest, Value
  <2>6. BaselineFirst' /\ DeliversWhenStale' /\ PatienceLeft' /\ IterationsBounded'
    BY <1>6, <1>t, <2>4 DEF CriticRetriesCoder, BaselineFirst, DeliversWhenStale,
       PatienceLeft, IterationsBounded
  <2>7. QED BY <2>1, <2>2, <2>5, <2>6 DEF IInv
<1>7. CASE CriticPasses
  <2>1. TypeOK'
    BY <1>7, <1>t DEF CriticPasses, TypeOK, Nodes, Phases
  <2>2. LoopNotEntered' /\ IndexFollowsIterations' /\ IndexedIsOnDisk'
    BY <1>7, <1>t DEF CriticPasses, LoopNotEntered, IndexFollowsIterations, IndexedIsOnDisk
  <2>3. EvaluationsOnDisk' /\ BestAsEvaluated' /\ CounterCountsSinceBest'
    BY <1>7, <1>t DEF CriticPasses, EvaluationsOnDisk,
       BestAsEvaluated, CounterCountsSinceBest, Evaluated,
       Evaluations, Value
  <2>4. BaselineFirst' /\ DeliversWhenStale' /\ PatienceLeft' /\ IterationsBounded'
    BY <1>7, <1>t DEF CriticPasses, BaselineFirst, DeliversWhenStale, PatienceLeft,
       IterationsBounded, Evaluations
  <2>5. QED BY <2>1, <2>2, <2>3, <2>4 DEF IInv
<1>8. CASE ScoreEvaluator
  <2>a. /\ Len(experiments) = current_iteration + 1
        /\ EvaluatedDir = current_iteration
        /\ current_iteration \in DOMAIN results
        /\ RawScore = results[current_iteration]
        /\ RawScore \in RawScores \cup {NoScore}
    BY <1>8, <1>t DEF ScoreEvaluator, TypeOK, IndexFollowsIterations,
       IndexedIsOnDisk, EvaluatedDir, RawScore
  <2>b. /\ Evaluations = current_iteration
        /\ Evaluations' = current_iteration + 1
        /\ Evaluated = 0..(current_iteration - 1)
        /\ Evaluated' = Evaluated \cup {current_iteration}
        /\ current_iteration \notin Evaluated
    BY <1>8, <1>t DEF ScoreEvaluator, Evaluations, Evaluated, TypeOK
  <2>c. \A d \in Evaluated' : d \in DOMAIN results /\ results[d] \in RawScores \cup {NoScore}
    BY <1>t, <2>a, <2>b, EvaluatedOnDisk DEF TypeOK
  <2>n. \A x \in RawScores : Normalized(x) \in NormalizedScores
    BY DEF RawScores, NormalizedScores, Normalized, NormalizedAs
  <2>d. Direction \in Directions
    BY DEF Direction, Directions
  <2>e. /\ DOMAIN evaluations = Evaluated
        /\ DOMAIN evaluations' = Evaluated'
        /\ \A d \in Evaluated : evaluations'[d] = evaluations[d]
        /\ evaluations'[current_iteration]
             = [raw_score |-> results[current_iteration], direction |-> Direction]
    BY <1>8, <1>t, <2>a, <2>b DEF ScoreEvaluator, WriteEvaluation, EvaluationsOnDisk
  <2>v. /\ \A d \in Evaluated : Value(d)' = Value(d)
        /\ \A d \in Evaluated' :
              d = current_iteration => Value(d)' = Normalized(results[current_iteration])
    BY <2>e, <1>8 DEF ScoreEvaluator, Value, Normalized
  <2>r. \A d \in Evaluated' : evaluations'[d] \in Reports
    <3>1. \A d \in Evaluated : evaluations[d] \in Reports
      BY <1>t, <2>e DEF TypeOK
    <3>2. [raw_score |-> results[current_iteration], direction |-> Direction] \in Reports
      BY <2>a, <2>d DEF Reports
    <3>3. QED BY <3>1, <3>2, <2>b, <2>e
  <2>1. TypeOK'
    <3>1. Evaluated' \subseteq Nat
      BY <2>b, <1>t DEF TypeOK
    <3>2. best_score' \in NormalizedScores \cup {NegInf}
          /\ best_experiment_path' \in Nat \cup {NoPath}
          /\ iterations_without_improvement' \in Nat
      BY <1>8, <1>t, <2>a, <2>n DEF ScoreEvaluator, TypeOK, Improves
    <3>3. QED
      BY <1>8, <1>t, <2>e, <2>r, <3>1, <3>2 DEF ScoreEvaluator, TypeOK, Nodes
  <2>2. LoopNotEntered' /\ IndexFollowsIterations' /\ IndexedIsOnDisk'
    BY <1>8, <1>t, <2>a DEF ScoreEvaluator, LoopNotEntered, IndexFollowsIterations, IndexedIsOnDisk
  <2>3. CounterCountsSinceBest'
    BY <1>8, <1>t, <2>a, <2>b DEF ScoreEvaluator, CounterCountsSinceBest, TypeOK, NoPath
  <2>4. EvaluationsOnDisk'
    BY <1>8, <1>t, <2>a, <2>b, <2>e DEF ScoreEvaluator, EvaluationsOnDisk
  <2>8. BestAsEvaluated'
    <3>0. \A d \in Evaluated : evaluations[d].raw_score # NoScore =>
             Value(d) <= best_score /\ Value(d) \in Int
      <4>1. \A d \in Evaluated : evaluations[d] \in Reports
        BY <1>t, <2>e DEF TypeOK
      <4>2. \A d \in Evaluated : evaluations[d].raw_score # NoScore =>
               evaluations[d].raw_score \in RawScores
        BY <4>1 DEF Reports
      <4>3. QED
        BY <1>t, <4>2 DEF BestAsEvaluated, Value, NormalizedAs, RawScores
    <3>1. CASE Improves(RawScore)
      <4>1. /\ best_score' = Normalized(results[current_iteration])
            /\ best_experiment_path' = current_iteration
            /\ results[current_iteration] # NoScore
            /\ Normalized(results[current_iteration]) > best_score
            /\ Normalized(results[current_iteration]) \in NormalizedScores
        BY <1>8, <3>1, <2>a, <2>n DEF ScoreEvaluator, Improves
      <4>2. best_score' # NegInf /\ best_experiment_path' # NoPath
        BY <4>1, <1>t DEF NormalizedScores, NegInf, NoPath, TypeOK
      <4>4. best_score \in Int
        BY <1>t DEF TypeOK, NormalizedScores, NegInf
      <4>5. ASSUME NEW d \in Evaluated', evaluations'[d].raw_score # NoScore
            PROVE  /\ Value(d)' <= best_score'
                   /\ d < best_experiment_path' => Value(d)' < best_score'
        <5>1. CASE d \in Evaluated
          BY <4>1, <3>0, <4>4, <4>5, <5>1, <2>e, <2>v DEF NormalizedScores
        <5>2. CASE d = current_iteration
          BY <4>1, <5>2, <1>t, <2>v DEF NormalizedScores, TypeOK
        <5>3. QED BY <5>1, <5>2, <2>b
      <4>6. best_score' = Value(best_experiment_path)'
        BY <4>1, <2>b, <2>e, <1>8 DEF ScoreEvaluator, Value, Normalized
      <4>7. /\ best_experiment_path' \in Evaluated'
            /\ evaluations'[best_experiment_path'].raw_score # NoScore
        <5>1. evaluations'[current_iteration].raw_score = results[current_iteration]
          BY <2>e
        <5>2. QED BY <5>1, <4>1, <2>b
      <4>8. QED BY <4>2, <4>5, <4>6, <4>7 DEF BestAsEvaluated
    <3>2. CASE ~Improves(RawScore)
      <4>1. /\ UNCHANGED <<best_score, best_experiment_path>>
            /\ results[current_iteration] # NoScore
                 => ~(Normalized(results[current_iteration]) > best_score)
        BY <1>8, <3>2, <2>a DEF ScoreEvaluator, Improves
      <4>2. results[current_iteration] # NoScore
              => Normalized(results[current_iteration]) <= best_score
        BY <4>1, <1>t, <2>a, <2>n DEF TypeOK, NormalizedScores, NegInf
      <4>3. best_experiment_path # NoPath => best_experiment_path < current_iteration
        BY <1>t, <2>b DEF BestAsEvaluated, TypeOK
      <4>4. best_experiment_path = NoPath => ~(current_iteration < best_experiment_path)
        BY <1>t DEF TypeOK, NoPath
      <4>5. ~(current_iteration < best_experiment_path)
        BY <4>3, <4>4, <1>t DEF TypeOK, NoPath
      <4>6. ASSUME NEW d \in Evaluated', evaluations'[d].raw_score # NoScore
            PROVE  /\ Value(d)' <= best_score'
                   /\ d < best_experiment_path' => Value(d)' < best_score'
        <5>1. CASE d \in Evaluated
          BY <4>1, <4>6, <5>1, <1>t, <2>e, <2>v DEF BestAsEvaluated
        <5>2. CASE d = current_iteration
          <6>1. evaluations'[current_iteration].raw_score = results[current_iteration]
            BY <2>e
          <6>2. Value(d)' = Normalized(results[current_iteration])
            BY <5>2, <2>v
          <6>3. QED BY <6>1, <6>2, <4>1, <4>2, <4>5, <4>6, <5>2
        <5>3. QED BY <5>1, <5>2, <2>b
      <4>7. best_experiment_path # NoPath =>
              /\ best_experiment_path' \in Evaluated'
              /\ evaluations'[best_experiment_path'].raw_score # NoScore
              /\ best_score' = Value(best_experiment_path)'
        BY <4>1, <1>t, <2>b, <2>e DEF BestAsEvaluated, Value
      <4>8. best_experiment_path' = NoPath <=> best_score' = NegInf
        BY <4>1, <1>t DEF BestAsEvaluated, NoPath, NegInf
      <4>9. QED BY <4>1, <4>6, <4>7, <4>8 DEF BestAsEvaluated, NoPath
    <3>3. QED BY <3>1, <3>2
  <2>5. IterationsBounded'
    <3>1. CASE Improves(RawScore)
      <4>1. /\ best_score' \in NormalizedScores
            /\ best_score' > best_score
            /\ iterations_without_improvement' = 0
        BY <1>8, <3>1, <2>a, <2>n DEF ScoreEvaluator, Improves
      <4> DEFINE a == best_score - NegInf
                 b == best_score' - NegInf
      <4>2. a \in Nat /\ b \in Nat /\ b >= a + 1
        <5>1. best_score \in Int /\ best_score >= NegInf /\ NegInf \in Int
          BY <1>t DEF TypeOK, NormalizedScores, NegInf
        <5>2. best_score' \in Int
          BY <4>1 DEF NormalizedScores
        <5>3. best_score' >= best_score + 1
          BY <4>1, <5>1, <5>2
        <5>4. \A x, y, z \in Int :
                 x >= z /\ y >= x + 1
                   => x - z \in Nat /\ y - z \in Nat /\ y - z >= (x - z) + 1
          OBVIOUS
        <5>5. QED BY <5>1, <5>2, <5>3, <5>4
      <4>3. b * MaxIterations >= a * MaxIterations + MaxIterations
        BY <4>2, OneMoreImprovement, MaxIterationsAssumption
      <4>4. iterations_without_improvement + 1 <= MaxIterations
        BY <1>8, <1>t DEF ScoreEvaluator, PatienceLeft, TypeOK
      <4>5. current_iteration <= a * MaxIterations + iterations_without_improvement
        BY <1>t, <2>b DEF IterationsBounded
      <4>6. a * MaxIterations \in Nat /\ b * MaxIterations \in Nat
        BY <4>2
      <4> HIDE DEF a, b
      <4>7. current_iteration + 1 <= b * MaxIterations
        BY <4>3, <4>4, <4>5, <4>6, <1>t DEF TypeOK
      <4>8. QED BY <4>1, <4>7, <4>6, <2>b DEF IterationsBounded, b, NegInf
    <3>2. CASE ~Improves(RawScore)
      <4> DEFINE a == best_score - NegInf
      <4>1. /\ best_score' = best_score
            /\ iterations_without_improvement' = iterations_without_improvement + 1
        BY <1>8, <3>2 DEF ScoreEvaluator
      <4>2. a \in Nat
        BY <1>t DEF TypeOK, NormalizedScores, NegInf
      <4>3. a * MaxIterations \in Nat
        BY <4>2
      <4>4. current_iteration <= a * MaxIterations + iterations_without_improvement
        BY <1>t, <2>b DEF IterationsBounded
      <4> HIDE DEF a
      <4>5. current_iteration + 1 <= a * MaxIterations + (iterations_without_improvement + 1)
        BY <4>3, <4>4, <1>t DEF TypeOK
      <4>6. QED BY <4>1, <4>5, <2>b DEF IterationsBounded, a, NegInf
    <3>3. QED BY <3>1, <3>2
  <2>6. BaselineFirst' /\ DeliversWhenStale' /\ PatienceLeft'
    BY <1>8, <1>t DEF ScoreEvaluator, BaselineFirst, DeliversWhenStale, PatienceLeft, TypeOK
  <2>7. QED BY <2>1, <2>2, <2>3, <2>4, <2>5, <2>6, <2>8 DEF IInv
<1>9. CASE ExperimentDesigner
  <2>0. /\ phase' = "phase6_evaluation"
        /\ node' = IF iterations_without_improvement >= MaxIterations
                   THEN "phase7_delivery" ELSE "phase4_design"
        /\ current_iteration' = current_iteration + 1
    BY <1>9, <1>t, RoutingType DEF ExperimentDesigner, TypeOK
  <2>1. TypeOK'
    BY <1>9, <1>t, <2>0 DEF ExperimentDesigner, TypeOK, Nodes, Phases
  <2>2. LoopNotEntered' /\ IndexFollowsIterations' /\ IndexedIsOnDisk'
    BY <1>9, <1>t, <2>0 DEF ExperimentDesigner, LoopNotEntered, IndexFollowsIterations,
       IndexedIsOnDisk, TypeOK
  <2>3. Evaluations' = Evaluations /\ Evaluated' = Evaluated
    BY <1>9, <1>t, <2>0 DEF ExperimentDesigner, Evaluations, Evaluated, TypeOK
  <2>4. EvaluationsOnDisk' /\ BestAsEvaluated' /\ CounterCountsSinceBest'
    BY <1>9, <1>t, <2>3 DEF ExperimentDesigner, EvaluationsOnDisk,
       BestAsEvaluated, CounterCountsSinceBest, Value
  <2>5. BaselineFirst' /\ DeliversWhenStale' /\ PatienceLeft' /\ IterationsBounded'
    BY <1>9, <1>t, <2>0, <2>3 DEF ExperimentDesigner, BaselineFirst, DeliversWhenStale,
       PatienceLeft, IterationsBounded, TypeOK
  <2>6. QED BY <2>1, <2>2, <2>4, <2>5 DEF IInv
<1>10. CASE Delivery
  <2>1. TypeOK'
    BY <1>10, <1>t DEF Delivery, TypeOK, Nodes, Phases
  <2>2. LoopNotEntered' /\ IndexFollowsIterations' /\ IndexedIsOnDisk'
    BY <1>10, <1>t DEF Delivery, LoopNotEntered, IndexFollowsIterations, IndexedIsOnDisk
  <2>3. EvaluationsOnDisk' /\ BestAsEvaluated' /\ CounterCountsSinceBest'
    BY <1>10, <1>t DEF Delivery, EvaluationsOnDisk,
       BestAsEvaluated, CounterCountsSinceBest, Evaluated,
       Evaluations, Value
  <2>4. BaselineFirst' /\ DeliversWhenStale' /\ PatienceLeft' /\ IterationsBounded'
    BY <1>10, <1>t DEF Delivery, BaselineFirst, DeliversWhenStale, PatienceLeft,
       IterationsBounded, Evaluations
  <2>5. QED BY <2>1, <2>2, <2>3, <2>4 DEF IInv
<1>11. CASE NodeRaises
  <2>0. /\ DOMAIN results \subseteq DOMAIN results'
        /\ DOMAIN results' \subseteq Nat
        /\ \A d \in DOMAIN results' : results'[d] \in RawScores \cup {NoScore}
        /\ \A d \in DOMAIN results :
              results'[d] = results[d]
              \/ (node \in {"coder", "code_critic"} /\ d = current_iteration)
    <3>1. CASE UNCHANGED results
      BY <3>1, <1>t DEF TypeOK
    <3>2. CASE node \in {"coder", "code_critic"}
               /\ \E score \in RawScores \cup {NoScore} : Train(score)
      <4>1. PICK score \in RawScores \cup {NoScore} : Train(score)
        BY <3>2
      <4>2. QED BY <3>2, <4>1, <1>t, TrainKeepsOthers
    <3>3. QED BY <1>11, <3>1, <3>2 DEF NodeRaises
  <2>1. TypeOK'
    BY <1>11, <1>t, <2>0 DEF NodeRaises, TypeOK
  <2>2. LoopNotEntered' /\ IndexFollowsIterations' /\ IndexedIsOnDisk'
    BY <1>11, <1>t, <2>0 DEF NodeRaises, LoopNotEntered, IndexFollowsIterations, IndexedIsOnDisk
  <2>3. Evaluations' = Evaluations /\ Evaluated' = Evaluated
        /\ \A d \in Evaluated : d \in DOMAIN results /\ results'[d] = results[d]
    BY <1>11, <1>t, <2>0, EvaluatedOnDisk DEF NodeRaises, Evaluations, Evaluated
  <2>4. EvaluationsOnDisk' /\ BestAsEvaluated' /\ CounterCountsSinceBest'
    BY <1>11, <1>t, <2>3 DEF NodeRaises, EvaluationsOnDisk,
       BestAsEvaluated, CounterCountsSinceBest, Value
  <2>5. BaselineFirst' /\ DeliversWhenStale' /\ PatienceLeft' /\ IterationsBounded'
    BY <1>11, <1>t, <2>3 DEF NodeRaises, BaselineFirst, DeliversWhenStale, PatienceLeft,
       IterationsBounded
  <2>6. QED BY <2>1, <2>2, <2>4, <2>5 DEF IInv
<1>12. CASE ResultsLost
  <2>0. /\ DOMAIN results' = DOMAIN results
        /\ \A d \in DOMAIN results' : results'[d] \in RawScores \cup {NoScore}
        /\ \A d \in DOMAIN results : d # current_iteration => results'[d] = results[d]
    BY <1>12, <1>t DEF ResultsLost, TypeOK
  <2>1. TypeOK'
    BY <1>12, <1>t, <2>0 DEF ResultsLost, TypeOK
  <2>2. LoopNotEntered' /\ IndexFollowsIterations' /\ IndexedIsOnDisk'
    BY <1>12, <1>t, <2>0 DEF ResultsLost, LoopNotEntered, IndexFollowsIterations, IndexedIsOnDisk
  <2>3. Evaluations' = Evaluations /\ Evaluated' = Evaluated
        /\ \A d \in Evaluated : d \in DOMAIN results /\ results'[d] = results[d]
    BY <1>12, <1>t, <2>0, EvaluatedOnDisk DEF ResultsLost, Running, Evaluations, Evaluated
  <2>4. EvaluationsOnDisk' /\ BestAsEvaluated' /\ CounterCountsSinceBest'
    BY <1>12, <1>t, <2>3 DEF ResultsLost, EvaluationsOnDisk,
       BestAsEvaluated, CounterCountsSinceBest, Value
  <2>5. BaselineFirst' /\ DeliversWhenStale' /\ PatienceLeft' /\ IterationsBounded'
    BY <1>12, <1>t, <2>3 DEF ResultsLost, BaselineFirst, DeliversWhenStale, PatienceLeft,
       IterationsBounded
  <2>6. QED BY <2>1, <2>2, <2>4, <2>5 DEF IInv
<1>13. CASE /\ UNCHANGED <<node, lab, results, evaluations, retries>>
            /\ status' \in {"running", "paused", "failed", "completed"}
            /\ definition' \in Directions \cup {"none"}
            /\ changes' \in 0..MaxChanges
  <2>1. TypeOK'
    BY <1>13, <1>t DEF TypeOK
  <2>2. LoopNotEntered' /\ IndexFollowsIterations' /\ IndexedIsOnDisk'
    BY <1>13, <1>t DEF LoopNotEntered, IndexFollowsIterations, IndexedIsOnDisk
  <2>3. Evaluations' = Evaluations /\ Evaluated' = Evaluated
    BY <1>13 DEF Evaluations, Evaluated
  <2>4. EvaluationsOnDisk' /\ BestAsEvaluated' /\ CounterCountsSinceBest'
    BY <1>13, <1>t, <2>3 DEF EvaluationsOnDisk, BestAsEvaluated, Value, CounterCountsSinceBest
  <2>5. BaselineFirst' /\ DeliversWhenStale' /\ PatienceLeft' /\ IterationsBounded'
    BY <1>13, <1>t, <2>3 DEF BaselineFirst, DeliversWhenStale, PatienceLeft, IterationsBounded
  <2>6. QED BY <2>1, <2>2, <2>4, <2>5 DEF IInv
<1>14. CASE DefinitionChanges
  BY <1>13, <1>14, <1>t DEF DefinitionChanges, TypeOK
<1>15. CASE Resume
  BY <1>13, <1>15, <1>t DEF Resume, TypeOK
<1>16. CASE UNCHANGED vars
  BY <1>13, <1>16, <1>t DEF vars, TypeOK
<1>17. QED
  BY <1>1, <1>2, <1>3, <1>4, <1>5, <1>6, <1>7, <1>8, <1>9, <1>10, <1>11, <1>12,
     <1>14, <1>15, <1>16 DEF Next, NodeStep

\* The inductive invariant holds in every reachable state.
THEOREM Inductive == Spec => []IInv
<1>1. QED BY InitInv, StepInv, PTL DEF Spec

\* Every field keeps its type; in particular the supervisor is never asked
\* about a phase it does not know (src/graph/supervisor.py:35).
THEOREM TypeCorrect == Spec => []TypeOK
<1>1. IInv => TypeOK BY DEF IInv
<1>2. QED BY <1>1, Inductive, PTL

\* The experiments index follows the iterations whatever the critic retries.
THEOREM IndexIsAligned == Spec => []IndexFollowsIterations
<1>1. IInv => IndexFollowsIterations BY DEF IInv
<1>2. QED BY <1>1, Inductive, PTL

\* While all evaluations have read one direction, the best of their reports is
\* the best of what is on disk.
LEMMA BestOfOneDirection ==
    ASSUME IInv
    PROVE  BestInOneDirection
<1>t. TypeOK /\ EvaluationsOnDisk /\ BestAsEvaluated
  BY DEF IInv
<1> SUFFICES ASSUME NEW dir \in Directions,
                    \A d \in Evaluated : evaluations[d].direction = dir,
                    NEW d \in Evaluated, results[d] # NoScore
             PROVE  /\ best_experiment_path # NoPath
                    /\ NormalizedAs(results[d], dir)
                         <= NormalizedAs(results[best_experiment_path], dir)
                    /\ d < best_experiment_path
                         => NormalizedAs(results[d], dir)
                              < NormalizedAs(results[best_experiment_path], dir)
  BY DEF BestInOneDirection
<1>1. \A e \in Evaluated :
         /\ evaluations[e] \in Reports
         /\ results[e] = evaluations[e].raw_score
         /\ Value(e) = NormalizedAs(results[e], dir)
  BY <1>t DEF TypeOK, EvaluationsOnDisk, Value
<1>2. Value(d) <= best_score /\ (d < best_experiment_path => Value(d) < best_score)
  BY <1>t, <1>1 DEF BestAsEvaluated
<1>3. Value(d) \in Int /\ Value(d) > NegInf
  <2>1. results[d] \in RawScores
    BY <1>1 DEF Reports
  <2>2. QED BY <1>1, <2>1, MaxScoreAssumption DEF NormalizedAs, RawScores, NegInf
<1>4. best_score # NegInf
  BY <1>2, <1>3, <1>t, MaxScoreAssumption DEF TypeOK, NormalizedScores, NegInf
<1>5. best_experiment_path # NoPath
  BY <1>4, <1>t DEF BestAsEvaluated
<1>6. best_score = NormalizedAs(results[best_experiment_path], dir)
  BY <1>5, <1>1, <1>t DEF BestAsEvaluated
<1>7. QED BY <1>1, <1>2, <1>5, <1>6

\* best_score and best_experiment_path describe what the score evaluation
\* reports and the evaluated directories hold: the best of all scores as they
\* were normalized, and the best experiment of the run as long as
\* problem_definition.json was read the same way each time, for any number of
\* changes of that file (src/nodes/compute/score_evaluator.py:206-233).
THEOREM BestScoreIsOnDisk == Spec => []BestIsOnDisk
<1>1. IInv => BestIsOnDisk
  BY BestOfOneDirection DEF IInv, BestIsOnDisk
<1>2. QED BY <1>1, Inductive, PTL

\* The stale counter is the distance to the best experiment, and delivery
\* starts exactly when it reaches max_iterations.
THEOREM CounterIsDistance == Spec => []CounterSteersLoop
<1>1. IInv => CounterSteersLoop BY DEF IInv, CounterSteersLoop
<1>2. QED BY <1>1, Inductive, PTL

\* The baseline comes before the design loop and is never redone.
THEOREM BaselineComesFirst == Spec => []BaselineFirst
<1>1. IInv => BaselineFirst BY DEF IInv
<1>2. QED BY <1>1, Inductive, PTL

\* The number of design loops is bounded by the improvements still possible.
THEOREM LoopIsBounded == Spec => []IterationsBounded
<1>1. IInv => IterationsBounded BY DEF IInv
<1>2. QED BY <1>1, Inductive, PTL
=============================================================================
