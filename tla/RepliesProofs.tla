---------------------------- MODULE RepliesProofs ----------------------------
(***************************************************************************)
(* What comes of the models' replies, for every set of replies.            *)
(*                                                                         *)
(* Contracts: what the validators let through can be used.  A design on    *)
(* disk can be searched, an ensemble's design reads every experiment once. *)
(* The theorems speak of all integers, names and lists a model may write.  *)
(*                                                                         *)
(* Memory: what a competition has learnt stays in its store, under the     *)
(* right name, for every number of runs and sources: neither the order in  *)
(* which the model answers nor the clusters it proposes can lose or swap a *)
(* source.                                                                 *)
(***************************************************************************)
EXTENDS Contracts, Memory, FunctionTheorems, FiniteSetTheorems, SequenceTheorems,
        WellFoundedInduction, TLAPS

-----------------------------------------------------------------------------
(* Contracts                                                               *)

\* The tolerance admits a step one unit beyond the range only when the range
\* is as large as the tolerance is fine.
LEMMA StepFits ==
  ASSUME NEW s \in Int, NEW range \in Int, NEW T \in Nat \ {0},
         s * T <= range * (T + 1), range < T
  PROVE  s <= range
<1>1. SUFFICES ASSUME s >= range + 1 PROVE FALSE
  OBVIOUS
<1>2. (s - (range + 1)) * T >= 0
  <2>1. DEFINE d == s - (range + 1)
  <2>2. d \in Nat
    BY <1>1
  <2>3. d * T \in Nat
    BY <2>2
  <2> QED BY <2>3
<1>3. (s - (range + 1)) * T = s * T - (range * T + T)
  OBVIOUS
<1>4. range * (T + 1) = range * T + range
  OBVIOUS
<1> QED
  BY <1>2, <1>3, <1>4

\* Whatever numbers the model wrote, an accepted parameter gives Optuna a
\* choice.
LEMMA AcceptedParamIsSamplable ==
  ASSUME NEW p \in ParamSpec, ValidParam(p)
  PROVE  Samplable(p)
<1>1. CASE p.type = "categorical"
  BY <1>1 DEF ValidParam, ValidChoices, Samplable
<1>2. CASE p.type \in {"int", "float"}
  <2>1. ValidNumericParam(p)
    BY <1>2 DEF ValidParam
  <2>2. /\ p.low.value \in Int /\ p.high.value \in Int /\ p.step.value \in Int
        /\ p.low.value < p.high.value
    BY <2>1 DEF ParamSpec, Json, ValidNumericParam
  <2>3. p.log.kind = "bool" /\ p.log.value = 1 => p.low.value > 0 /\ p.step = Absent
    BY <2>1 DEF ValidNumericParam, ValidLog, Absent
  <2>4. p.step # Absent =>
          p.step.value > 0 /\ p.step.value * Slack <= (p.high.value - p.low.value) * (Slack + 1)
    BY <2>1 DEF ValidNumericParam, ValidStep, StepWithinRange
  <2>5. SUFFICES ASSUME p.high.value - p.low.value < Slack
                 PROVE  \E x, y \in Grid(p) : x # y
    BY <1>2, <2>2, <2>3, <2>4, LimitsAssumption DEF Samplable
  <2> DEFINE width == IF p.step = Absent THEN 1 ELSE p.step.value
             range == p.high.value - p.low.value
  <2>6. width \in Int /\ 1 <= width /\ width <= range
    <3>1. CASE p.step = Absent
      BY <3>1, <2>2
    <3>2. CASE p.step # Absent
      <4>1. p.step.value <= range
        BY <3>2, <2>2, <2>4, <2>5, LimitsAssumption, StepFits
      <4> QED BY <3>2, <4>1, <2>2, <2>4
    <3> QED BY <3>1, <3>2
  <2> HIDE DEF width
  <2>7. p.low.value \in Grid(p)
    <3>1. p.low.value \in p.low.value..p.high.value /\ 0 \in 0..range
      BY <2>2
    <3>2. p.low.value = p.low.value + 0 * width
      BY <2>2, <2>6
    <3> QED BY <3>1, <3>2 DEF Grid, width
  <2>8. p.low.value + width \in Grid(p)
    <3>1. p.low.value + width \in p.low.value..p.high.value /\ 1 \in 0..range
      BY <2>2, <2>6
    <3>2. p.low.value + width = p.low.value + 1 * width
      BY <2>2, <2>6
    <3> QED BY <3>1, <3>2 DEF Grid, width
  <2>9. p.low.value # p.low.value + width
    BY <2>2, <2>6
  <2> QED BY <2>7, <2>8, <2>9
<1> QED
  BY <1>1, <1>2 DEF ValidParam

\* An accepted design can be searched.
LEMMA AcceptedDesignIsSamplable ==
  ASSUME NEW d \in Designs, NEW specialist, ValidDesign(d, specialist)
  PROVE  /\ DOMAIN d.space # {}
         /\ \A name \in DOMAIN d.space : Samplable(d.space[name]) /\ name \notin DOMAIN d.fixed
         /\ (DOMAIN d.space \cup DOMAIN d.fixed) \cap ForbiddenCvKeys = {}
<1>1. ASSUME NEW name \in DOMAIN d.space
      PROVE  Samplable(d.space[name])
  <2>1. d.space[name] \in ParamSpec
    BY DesignsAssumption
  <2>2. ValidParam(d.space[name])
    BY DEF ValidDesign
  <2> QED BY <2>1, <2>2, AcceptedParamIsSamplable
<1>2. DOMAIN d.space \cap DOMAIN d.fixed = {} /\ DOMAIN d.space # {}
  BY DEF ValidDesign
<1>3. (DOMAIN d.space \cup DOMAIN d.fixed) \cap ForbiddenCvKeys = {}
  BY DEF ValidDesign
<1> QED
  BY <1>1, <1>2, <1>3

\* Accepted bases are as many files as experiments.
LEMMA BasesAreDistinct ==
  ASSUME oof \in Seq(Int), ValidBases(BaseExperiments)
  PROVE  Cardinality({BaseExperiments[i].oof_path : i \in 1..Len(BaseExperiments)}) = Len(oof)
<1>1. Len(oof) \in Nat /\ BaseExperiments \in Seq([experiment_id : Int, oof_path : Int])
  BY DEF BaseExperiments
<1>2. Len(BaseExperiments) = Len(oof)
  BY <1>1 DEF BaseExperiments
<1> DEFINE S == 1..Len(oof)
           T == {BaseExperiments[i].oof_path : i \in S}
           f == [i \in S |-> BaseExperiments[i].oof_path]
<1>3. f \in Bijection(S, T)
  <2>1. f \in [S -> T] /\ \A t \in T : \E i \in S : f[i] = t
    OBVIOUS
  <2>2. \A i, j \in S : f[i] = f[j] => i = j
    BY <1>2 DEF ValidBases
  <2> QED BY <2>1, <2>2 DEF Bijection, Injection, Surjection, IsInjective
<1>4. IsFiniteSet(S) /\ Cardinality(S) = Len(oof)
  <2>1. 1 \in Int /\ Len(oof) \in Int
    BY <1>1
  <2>2. /\ IsFiniteSet(1..Len(oof))
        /\ Cardinality(1..Len(oof)) = IF 1 > Len(oof) THEN 0 ELSE Len(oof) - 1 + 1
    BY <2>1, FS_Interval, Zenon
  <2> QED BY <1>1, <2>2
<1>5. ExistsBijection(S, T)
  BY <1>3 DEF ExistsBijection
<1> HIDE DEF S, T, f
<1>6. Cardinality(T) = Cardinality(S)
  BY <1>4, <1>5, FS_Bijection
<1> QED
  BY <1>2, <1>4, <1>6 DEF S, T

-----------------------------------------------------------------------------
(* Ranks and orders                                                        *)

\* A surjection of 1..n is an injection: n ranks that cover 1..n differ, and n
\* names that make a set of n do.
LEMMA CoversOnce ==
  ASSUME NEW n \in Nat, NEW T, NEW f \in [1..n -> T],
         \A t \in T : \E i \in 1..n : f[i] = t, Cardinality(T) = n
  PROVE  \A i, j \in 1..n : f[i] = f[j] => i = j
<1>1. IsFiniteSet(1..n) /\ Cardinality(1..n) = n
  <2>1. 1 \in Int /\ n \in Int
    OBVIOUS
  <2>2. /\ IsFiniteSet(1..n)
        /\ Cardinality(1..n) = IF 1 > n THEN 0 ELSE n - 1 + 1
    BY <2>1, FS_Interval, Zenon
  <2> QED BY <2>2
<1>2. f \in Surjection(1..n, T)
  BY DEF Surjection
<1>3. f \in Injection(1..n, T)
  BY <1>1, <1>2, FS_SurjSameCardinalityImpliesInj
<1> QED
  BY <1>3 DEF Injection, IsInjective

\* As many entries come before an entry as there are smaller ranks.
LEMMA PlaceIsRank ==
  ASSUME NEW es, Len(es) \in Nat, RankPermutation(es), NEW j \in 1..Len(es)
  PROVE  /\ es[j].rank \in 1..Len(es)
         /\ Place(es, j) = es[j].rank - 1
<1> DEFINE n == Len(es)
           rank == [i \in 1..n |-> es[i].rank]
           r == es[j].rank
           S == {k \in 1..n : RunsBefore(es, k, j)}
           g == [k \in S |-> rank[k]]
<1>1. rank \in [1..n -> 1..n] /\ \A t \in 1..n : \E i \in 1..n : rank[i] = t
  BY DEF RankPermutation
<1>2. Cardinality(1..n) = n
  <2>1. 1 \in Int /\ n \in Int
    OBVIOUS
  <2>2. Cardinality(1..n) = IF 1 > n THEN 0 ELSE n - 1 + 1
    BY <2>1, FS_Interval, Zenon
  <2> QED BY <2>2
<1>3. \A a, b \in 1..n : rank[a] = rank[b] => a = b
  <2> DEFINE T == 1..n
  <2>1. n \in Nat
    OBVIOUS
  <2>2. rank \in [1..n -> T] /\ (\A t \in T : \E i \in 1..n : rank[i] = t) /\ Cardinality(T) = n
    BY <1>1, <1>2
  <2> HIDE DEF rank, n, T
  <2> QED BY <2>1, <2>2, CoversOnce
<1>4. r \in 1..n /\ r = rank[j] /\ n \in Nat
  BY <1>1
<1>5. \A k \in 1..n : k \in S <=> rank[k] \in 1..(r - 1)
  <2>1. TAKE k \in 1..n
  <2>2. rank[k] \in 1..n /\ es[k].rank = rank[k] /\ es[j].rank = r
    BY <1>1
  <2>3. k \in S <=> (rank[k] < r \/ (rank[k] = r /\ k < j))
    BY <2>2 DEF RunsBefore
  <2>4. rank[k] = r => k = j
    BY <1>3, <1>4
  <2> HIDE DEF rank, S, r
  <2> QED BY <1>4, <2>2, <2>3, <2>4
<1>6. g \in Bijection(S, 1..(r - 1))
  <2>1. g \in [S -> 1..(r - 1)] /\ \A a, b \in S : g[a] = g[b] => a = b
    BY <1>3, <1>5
  <2>2. ASSUME NEW t \in 1..(r - 1) PROVE \E k \in S : g[k] = t
    <3>1. t \in 1..n
      BY <1>4
    <3>2. PICK k \in 1..n : rank[k] = t
      BY <1>1, <3>1
    <3>3. k \in S
      BY <1>5, <3>2
    <3> QED BY <3>2, <3>3
  <2> QED BY <2>1, <2>2 DEF Bijection, Injection, Surjection, IsInjective
<1>7. IsFiniteSet(S)
  <2>1. IsFiniteSet(1..n)
    <3>1. 1 \in Int /\ n \in Int
      OBVIOUS
    <3> QED BY <3>1, FS_Interval, Zenon
  <2>2. S \in SUBSET (1..n)
    OBVIOUS
  <2> HIDE DEF S
  <2> QED BY <2>1, <2>2, FS_Subset
<1>8. Cardinality(1..(r - 1)) = r - 1
  <2>1. 1 \in Int /\ r - 1 \in Int
    BY <1>4
  <2>2. Cardinality(1..(r - 1)) = IF 1 > r - 1 THEN 0 ELSE r - 1 - 1 + 1
    BY <2>1, FS_Interval, Zenon
  <2> QED BY <1>4, <2>2
<1>9. Cardinality(S) = r - 1
  <2>1. ExistsBijection(S, 1..(r - 1))
    BY <1>6 DEF ExistsBijection
  <2> HIDE DEF S
  <2> QED BY <1>7, <1>8, <2>1, FS_Bijection
<1> QED
  BY <1>4, <1>9 DEF Place

\* So the entry of rank i comes i-th.
LEMMA RankedByRank ==
  ASSUME NEW es, Len(es) \in Nat, RankPermutation(es)
  PROVE  /\ Len(Ranked(es)) = Len(es)
         /\ \A i \in 1..Len(es) : Ranked(es)[i].rank = i
<1>1. Len(Ranked(es)) = Len(es)
  BY DEF Ranked
<1>2. ASSUME NEW i \in 1..Len(es) PROVE Ranked(es)[i].rank = i
  <2> DEFINE j == CHOOSE k \in 1..Len(es) : Place(es, k) = i - 1
  <2>1. \E k \in 1..Len(es) : Place(es, k) = i - 1
    <3>1. PICK k \in 1..Len(es) : es[k].rank = i
      BY DEF RankPermutation
    <3> QED BY <3>1, PlaceIsRank
  <2>2. j \in 1..Len(es) /\ Place(es, j) = i - 1
    BY <2>1
  <2>3. es[j].rank = i
    BY <2>2, PlaceIsRank
  <2> QED BY <2>3 DEF Ranked
<1> QED
  BY <1>1, <1>2

\* The order of an accepted plan names each of its families once.
LEMMA OrderNamesOnce ==
  ASSUME NEW p \in Plans, ValidPlan(p)
  PROVE  \A i \in 1..Len(p.model_families) :
           \E k \in 1..Len(p.order) : \A l \in 1..Len(p.order) :
             p.order[l][1] = p.model_families[i][1] <=> l = k
<1> DEFINE n == Len(p.order)
           T == Normalized(p.order)
           f == [l \in 1..n |-> p.order[l][1]]
<1>1. n \in Nat
  BY PlansAssumption
<1>2. f \in [1..n -> T] /\ \A t \in T : \E l \in 1..n : f[l] = t
  BY DEF Normalized
<1>3. Cardinality(T) = n /\ T = Normalized(p.model_families)
  BY DEF ValidPlan, Distinct
<1>4. \A a, b \in 1..n : f[a] = f[b] => a = b
  <2> HIDE DEF f, T, n
  <2> QED BY <1>1, <1>2, <1>3, CoversOnce
<1>5. TAKE i \in 1..Len(p.model_families)
<1>6. p.model_families[i][1] \in T
  BY <1>3 DEF Normalized
<1>7. PICK k \in 1..n : f[k] = p.model_families[i][1]
  BY <1>2, <1>6
<1> QED
  BY <1>4, <1>7

-----------------------------------------------------------------------------
(* The inductive invariant                                                 *)

LEMMA InitInv == Init => IInv
  BY DEF Init, IInv, IndexGrows, DesignIsSamplable, EnsembleReadsEachExperiment

\* A step that writes something else than a design leaves no design to judge.
LEMMA OtherArtifact ==
  ASSUME artifact'.kind # "design"
  PROVE  DesignIsSamplable' /\ EnsembleReadsEachExperiment'
  BY DEF DesignIsSamplable, EnsembleReadsEachExperiment

LEMMA SpecialistStep ==
  ASSUME IInv, Specialist
  PROVE  IInv'
<1>1. PICK d \in Designs, family \in Families[Chosen] :
        /\ Write("specialist_selector", "design", Design(d, Chosen, family, <<>>), "coder")
        /\ Chosen # "ensemble_specialist"
        /\ ValidDesign(d, Chosen)
        /\ Unchanged
  BY DEF Specialist
<1>2. /\ artifact' = [kind |-> "design", content |-> Design(d, Chosen, family, <<>>)]
      /\ stage = "specialist_selector" /\ stage' = "coder"
      /\ iteration' = iteration /\ oof' = oof
  BY <1>1 DEF Write, Unchanged
<1>3. /\ artifact'.content.specialist # "ensemble_specialist"
      /\ artifact'.content.search_space = d.space
      /\ artifact'.content.fixed_params = d.fixed
  BY <1>1, <1>2 DEF Design
<1>4. IndexGrows'
  BY <1>2 DEF IInv, IndexGrows
<1>5. DesignIsSamplable'
  BY <1>1, <1>3, AcceptedDesignIsSamplable DEF DesignIsSamplable
<1>6. EnsembleReadsEachExperiment'
  BY <1>3 DEF EnsembleReadsEachExperiment
<1> QED
  BY <1>4, <1>5, <1>6 DEF IInv

LEMMA EnsembleStep ==
  ASSUME IInv, EnsembleSpecialist
  PROVE  IInv'
<1>1. PICK d \in Designs, family \in Families["ensemble_specialist"] :
        /\ Write("specialist_selector", "design",
                 Design(d, Chosen, family, BaseExperiments), "coder")
        /\ Chosen = "ensemble_specialist"
        /\ ValidDesign(d, Chosen)
        /\ ValidBases(BaseExperiments)
        /\ Unchanged
  BY DEF EnsembleSpecialist
<1>2. /\ artifact' = [kind |-> "design", content |-> Design(d, Chosen, family, BaseExperiments)]
      /\ stage = "specialist_selector" /\ stage' = "coder"
      /\ iteration' = iteration /\ oof' = oof
  BY <1>1 DEF Write, Unchanged
<1>3. /\ artifact'.content.base_experiments = BaseExperiments
      /\ artifact'.content.search_space = d.space
      /\ artifact'.content.fixed_params = d.fixed
  BY <1>2 DEF Design
<1>4. IndexGrows'
  BY <1>2 DEF IInv, IndexGrows
<1>5. DesignIsSamplable'
  BY <1>1, <1>3, AcceptedDesignIsSamplable DEF DesignIsSamplable
<1>6. oof \in Seq(Int) /\ Len(oof) = iteration /\ iteration \in Nat
  BY <1>2 DEF IInv, IndexGrows
<1>7. Len(oof) >= 2
  BY <1>1 DEF Chosen, SelectBySignal, ShouldEnsemble
<1>8. /\ Len(BaseExperiments) = Len(oof)
      /\ \A i \in 1..Len(BaseExperiments) : BaseExperiments[i].experiment_id = i - 1
  BY <1>6 DEF BaseExperiments
<1>9. Cardinality({BaseExperiments[i].oof_path : i \in 1..Len(BaseExperiments)}) = Len(oof)
  BY <1>1, <1>6, BasesAreDistinct
<1>10. EnsembleReadsEachExperiment'
  BY <1>2, <1>3, <1>6, <1>7, <1>8, <1>9 DEF EnsembleReadsEachExperiment
<1> QED
  BY <1>4, <1>5, <1>10 DEF IInv

LEMMA StepInv == IInv /\ [Next]_vars => IInv'
<1> SUFFICES ASSUME IInv, [Next]_vars PROVE IInv'
  OBVIOUS
<1> USE DEF IInv
<1>1. CASE ProblemFramer
  <2>1. artifact'.kind # "design"
    BY <1>1 DEF ProblemFramer, Write
  <2>2. IndexGrows'
    BY <1>1 DEF ProblemFramer, Write, IndexGrows
  <2> QED BY <2>1, <2>2, OtherArtifact
<1>2. CASE ValidationStrategist \/ LeakageAuditor \/ BaselineDesigner \/ FeatureEngineer
  <2>1. artifact'.kind # "design"
    BY <1>2 DEF ValidationStrategist, LeakageAuditor, BaselineDesigner, FeatureEngineer, Write
  <2>2. IndexGrows'
    BY <1>2 DEF ValidationStrategist, LeakageAuditor, BaselineDesigner, FeatureEngineer,
                Write, Unchanged, IndexGrows
  <2> QED BY <2>1, <2>2, OtherArtifact
<1>3. CASE SolutionArchitect
  <2>1. artifact'.kind # "design"
    BY <1>3 DEF SolutionArchitect, Write
  <2>2. IndexGrows'
    BY <1>3 DEF SolutionArchitect, Write, IndexGrows
  <2> QED BY <2>1, <2>2, OtherArtifact
<1>4. CASE Specialist
  BY <1>4, SpecialistStep
<1>5. CASE EnsembleSpecialist
  BY <1>5, EnsembleStep
<1>6. CASE Coder
  <2>1. artifact'.kind # "design"
    BY <1>6 DEF Coder, Write
  <2>2. oof' \in Seq(Int) /\ Len(oof') = iteration' + 1
    BY <1>6 DEF Coder, Write, IndexGrows
  <2>3. IndexGrows'
    BY <1>6, <2>1, <2>2 DEF Coder, Write, IndexGrows
  <2> QED BY <2>1, <2>3, OtherArtifact
<1>7. CASE ErrorAnalyst \/ HypothesisGenerator
  <2>1. artifact'.kind # "design"
    BY <1>7 DEF ErrorAnalyst, HypothesisGenerator, Write
  <2>2. IndexGrows'
    BY <1>7 DEF ErrorAnalyst, HypothesisGenerator, Write, Unchanged, IndexGrows
  <2> QED BY <2>1, <2>2, OtherArtifact
<1>8. CASE ExperimentDesigner
  <2>1. artifact'.kind # "design"
    BY <1>8 DEF ExperimentDesigner, Write
  <2>2. IndexGrows'
    BY <1>8, <2>1 DEF ExperimentDesigner, Write, IndexGrows
  <2> QED BY <2>1, <2>2, OtherArtifact
<1>9. CASE Refused
  <2>1. artifact' = artifact /\ iteration' = iteration /\ oof' = oof /\ stage' = "failed"
    BY <1>9 DEF Refused
  <2>2. IndexGrows'
    BY <2>1 DEF IndexGrows
  <2> QED
    BY <2>1, <2>2 DEF DesignIsSamplable, EnsembleReadsEachExperiment
<1>10. CASE UNCHANGED vars
  BY <1>10 DEF vars, IndexGrows, DesignIsSamplable, EnsembleReadsEachExperiment
<1> QED
  BY <1>1, <1>2, <1>3, <1>4, <1>5, <1>6, <1>7, <1>8, <1>9, <1>10 DEF Next

\* Every design that reaches the coder can be searched by Optuna, whatever the
\* model replied.
THEOREM DesignsCanBeSearched == Spec => []DesignIsSamplable
<1>1. IInv => DesignIsSamplable
  BY DEF IInv
<1> QED
  BY <1>1, InitInv, StepInv, PTL DEF Spec

\* An ensemble reads each earlier experiment's predictions once, whatever
\* paths the generated code declared.
THEOREM EnsemblesAreComplete == Spec => []EnsembleReadsEachExperiment
<1>1. IInv => EnsembleReadsEachExperiment
  BY DEF IInv
<1> QED
  BY <1>1, InitInv, StepInv, PTL DEF Spec

\* What is written in an order is in order, whatever order it was listed in;
\* the invariant needs no strengthening, since a plan, hypotheses or changes
\* are judged when they are written and stay until the next file is.
LEMMA OrderStep == RankedInOrder /\ [Next]_vars => RankedInOrder'
<1> SUFFICES ASSUME RankedInOrder, [Next]_vars PROVE RankedInOrder'
  OBVIOUS
<1>1. CASE artifact'.kind \notin {"hypotheses", "changes", "plan"}
  BY <1>1 DEF RankedInOrder
<1>2. CASE UNCHANGED artifact
  BY <1>2 DEF RankedInOrder
<1>3. ASSUME NEW es, NEW kind \in {"hypotheses", "changes"}, Len(es) \in Nat,
             RankPermutation(es), artifact' = [kind |-> kind, content |-> Ranked(es)]
      PROVE  RankedInOrder'
  <2>1. /\ artifact'.kind = kind /\ artifact'.content = Ranked(es)
        /\ kind # "plan"
    BY <1>3
  <2> QED BY <1>3, <2>1, RankedByRank DEF RankedInOrder
<1>4. CASE HypothesisGenerator
  <2>1. PICK hs \in HypothesisLists :
          /\ artifact' = [kind |-> "hypotheses", content |-> Ranked(hs)]
          /\ ValidHypotheses(hs)
    BY <1>4 DEF HypothesisGenerator, Write
  <2>2. Len(hs) \in Nat /\ RankPermutation(hs)
    BY <2>1 DEF ValidHypotheses
  <2> QED BY <1>3, <2>1, <2>2
<1>5. CASE ExperimentDesigner
  <2>1. PICK cs \in ChangeLists :
          /\ artifact' = [kind |-> "changes", content |-> Ranked(cs)]
          /\ ValidChanges(cs)
    BY <1>5 DEF ExperimentDesigner, Write
  <2>2. Len(cs) \in Nat /\ RankPermutation(cs)
    BY <2>1 DEF ValidChanges
  <2> QED BY <1>3, <2>1, <2>2
<1>6. CASE SolutionArchitect
  <2>1. PICK p \in Plans : ValidPlan(p) /\ artifact' = [kind |-> "plan", content |-> p]
    BY <1>6 DEF SolutionArchitect, Write
  <2>2. artifact'.kind = "plan" /\ artifact'.content = p
    BY <2>1
  <2> QED BY <2>1, <2>2, OrderNamesOnce DEF RankedInOrder
<1>7. CASE ProblemFramer \/ ValidationStrategist \/ LeakageAuditor \/ BaselineDesigner
  BY <1>1, <1>7 DEF ProblemFramer, ValidationStrategist, LeakageAuditor,
                    BaselineDesigner, Write
<1>8. CASE FeatureEngineer \/ Specialist \/ EnsembleSpecialist \/ Coder \/ ErrorAnalyst
  BY <1>1, <1>8 DEF FeatureEngineer, Specialist, EnsembleSpecialist, Coder,
                    ErrorAnalyst, Write
<1> QED
  BY <1>2, <1>4, <1>5, <1>6, <1>7, <1>8 DEF Next, Refused, vars

\* Hypotheses and changes are read in the order of their ranks, and a plan's
\* order has one place for each family.
THEOREM RanksAreOrders == Spec => []RankedInOrder
<1>1. Init => RankedInOrder
  BY DEF Init, RankedInOrder
<1> QED
  BY <1>1, OrderStep, PTL DEF Spec

-----------------------------------------------------------------------------
(* Memory                                                                  *)

\* A nonempty set of numbers has a least one.
LEMMA MinIn == ASSUME NEW S \in SUBSET Nat, S # {} PROVE Min(S) \in S
<1> DEFINE R == OpToRel(<, Nat)
<1>1. IsWellFoundedOn(R, Nat)
  BY NatLessThanWellFounded
<1>2. \A x, y \in Nat : <<x, y>> \in R <=> x < y
  BY DEF OpToRel
<1> HIDE DEF R
<1>3. PICK x \in S : \A y \in S : ~(<<y, x>> \in R)
  BY <1>1, WFMin
<1>4. ASSUME NEW y \in S PROVE x <= y
  <2>1. x \in Nat /\ y \in Nat
    OBVIOUS
  <2>2. ~(y < x)
    BY <2>1, <1>2, <1>3
  <2> QED BY <2>1, <2>2
<1> QED BY <1>4 DEF Min

LEMMA MemoryInitInv == MemoryInit => MemoryInv
<1> SUFFICES ASSUME MemoryInit PROVE MemoryInv
  OBVIOUS
<1>1. docs = <<>> /\ indexed = <<>> /\ candidates = <<>> /\ reports = {}
  BY DEF MemoryInit
<1>2. found \in [Researchers -> Seq(AllSources)]
  BY DEF MemoryInit
<1> QED
  BY <1>1, <1>2 DEF MemoryInv, NothingForgotten, Attributed

\* Every order of a finite set is a sequence of its members.
LEMMA OrdersAreSequences ==
  ASSUME NEW T, IsFiniteSet(T), NEW S \in SUBSET T, NEW order \in Orders(S)
  PROVE  /\ order \in Seq(T)
         /\ DOMAIN order \subseteq Nat
         /\ \A i \in DOMAIN order : order[i] \in S
<1>1. IsFiniteSet(S)
  BY FS_Subset
<1>2. Cardinality(S) \in Nat
  BY <1>1, FS_CardinalityType
<1>3. order \in [1..Cardinality(S) -> S]
  BY DEF Orders
<1>4. order \in [1..Cardinality(S) -> T]
  BY <1>3
<1> QED
  BY <1>2, <1>3, <1>4

\* The documents of an answer that covers the sources.
LEMMA DocumentsMatchSources ==
  ASSUME NEW sources \in Seq(AllSources), NEW answer \in Answers(sources),
         Covers(answer, sources)
  PROVE  /\ BuildIndexDocuments(sources, answer) \in Seq(Documents)
         /\ Len(BuildIndexDocuments(sources, answer)) = Len(sources)
         /\ \A i \in 1..Len(sources) :
              BuildIndexDocuments(sources, answer)[i]
                = [text |-> {sources[i]}, source |-> {sources[i]},
                   key_findings |-> {sources[i]}]
<1> DEFINE new == BuildIndexDocuments(sources, answer)
           position(i) == CHOOSE p \in DOMAIN answer : answer[p] = i
<1>1. \A i \in 1..Len(sources) : answer[position(i)] = i
  <2>1. \A i \in 1..Len(sources) : \E p \in DOMAIN answer : answer[p] = i
    BY DEF Covers, Range
  <2> QED BY <2>1
<1>2. new = [i \in 1..Len(sources) |->
               [text |-> {sources[i]}, source |-> {sources[i]},
                key_findings |-> {sources[answer[position(i)]]}]]
  BY DEF BuildIndexDocuments
<1> HIDE DEF new, position
<1>3. \A i \in 1..Len(sources) :
        new[i] = [text |-> {sources[i]}, source |-> {sources[i]},
                  key_findings |-> {sources[i]}]
  BY <1>1, <1>2
<1>4. \A i \in 1..Len(sources) : sources[i] \in AllSources
  OBVIOUS
<1>5. ASSUME NEW i \in 1..Len(sources) PROVE new[i] \in Documents
  <2>1. {sources[i]} \in SUBSET AllSources
    BY <1>4
  <2>2. [text |-> {sources[i]}, source |-> {sources[i]}, key_findings |-> {sources[i]}]
          \in Documents
    BY <2>1 DEF Documents
  <2>3. new[i] = [text |-> {sources[i]}, source |-> {sources[i]},
                  key_findings |-> {sources[i]}]
    BY <1>3
  <2> QED BY <2>2, <2>3
<1>6. Len(sources) \in Nat
  OBVIOUS
<1>7. new \in [1..Len(sources) -> Documents]
  BY <1>2, <1>5
<1>8. new \in Seq(Documents) /\ Len(new) = Len(sources)
  BY <1>6, <1>7
<1> QED
  BY <1>3, <1>8 DEF new

LEMMA ExtractKeeps ==
  ASSUME MemoryInv, NEW n, Extract(n)
  PROVE  MemoryInv'
<1>1. n \in Researchers
  BY DEF Extract
<1>2. PICK answer \in Answers(found[n]) :
        /\ Covers(answer, found[n])
        /\ IndexNew(BuildIndexDocuments(found[n], answer), found[n])
        /\ reports' = reports \cup
             {<<found[n][i], BuildIndexDocuments(found[n], answer)[i].key_findings>> :
                i \in 1..Len(found[n])}
  BY DEF Extract
<1> DEFINE new == BuildIndexDocuments(found[n], answer)
           old == Len(docs)
<1>3. found[n] \in Seq(AllSources)
  BY <1>1 DEF MemoryInv
<1>4. /\ new \in Seq(Documents) /\ Len(new) = Len(found[n])
      /\ \A i \in 1..Len(found[n]) :
           new[i] = [text |-> {found[n][i]}, source |-> {found[n][i]},
                     key_findings |-> {found[n][i]}]
  BY <1>2, <1>3, DocumentsMatchSources
<1>5. docs' = docs \o new /\ indexed' = indexed \o found[n]
  BY <1>2 DEF IndexNew
<1>6. reports' = reports \cup
        {<<found[n][i], new[i].key_findings>> : i \in 1..Len(found[n])}
  BY <1>2
<1>7. UNCHANGED <<found, candidates>>
  BY DEF Extract
<1> HIDE DEF new, old
<1>8. /\ docs \in Seq(Documents) /\ indexed \in Seq(AllSources)
      /\ Len(docs) = old /\ Len(indexed) = old
      /\ old \in Nat /\ Len(found[n]) \in Nat
  BY <1>3 DEF MemoryInv, old
<1>9. /\ docs' \in Seq(Documents) /\ Len(docs') = old + Len(found[n])
      /\ \A i \in 1..(old + Len(found[n])) :
           docs'[i] = IF i <= old THEN docs[i] ELSE new[i - old]
  <2>1. /\ docs \o new \in Seq(Documents) /\ Len(docs \o new) = Len(docs) + Len(new)
        /\ \A i \in 1..(Len(docs) + Len(new)) :
             (docs \o new)[i] = IF i <= Len(docs) THEN docs[i] ELSE new[i - Len(docs)]
    <3>1. docs \in Seq(Documents) /\ new \in Seq(Documents)
      BY <1>4, <1>8
    <3> QED BY <3>1, ConcatProperties
  <2>2. docs' = docs \o new /\ Len(docs) = old /\ Len(new) = Len(found[n])
    BY <1>4, <1>5, <1>8
  <2> QED BY <2>1, <2>2, Zenon
<1>10. /\ indexed' \in Seq(AllSources) /\ Len(indexed') = old + Len(found[n])
       /\ \A i \in 1..(old + Len(found[n])) :
            indexed'[i] = IF i <= old THEN indexed[i] ELSE found[n][i - old]
  <2>1. /\ indexed \o found[n] \in Seq(AllSources)
        /\ Len(indexed \o found[n]) = Len(indexed) + Len(found[n])
        /\ \A i \in 1..(Len(indexed) + Len(found[n])) :
             (indexed \o found[n])[i] = IF i <= Len(indexed) THEN indexed[i]
                                         ELSE found[n][i - Len(indexed)]
    BY <1>3, <1>8, ConcatProperties
  <2>2. indexed' = indexed \o found[n] /\ Len(indexed) = old
    BY <1>5, <1>8
  <2> QED BY <2>1, <2>2, Zenon
<1>11. DOMAIN docs = 1..old /\ DOMAIN docs' = 1..(old + Len(found[n]))
  BY <1>8, <1>9
<1>12. ASSUME NEW id \in DOMAIN docs'
       PROVE  /\ indexed'[id] \in docs'[id].text
              /\ docs'[id].source = docs'[id].text
              /\ docs'[id].key_findings = docs'[id].text
  <2>1. CASE id <= old
    <3>1. id \in DOMAIN docs /\ docs'[id] = docs[id] /\ indexed'[id] = indexed[id]
      BY <1>8, <1>9, <1>10, <1>11, <2>1
    <3> QED BY <3>1 DEF MemoryInv, NothingForgotten, Attributed
  <2>2. CASE ~(id <= old)
    <3>1. id - old \in 1..Len(found[n])
      BY <1>8, <1>11, <2>2
    <3>2. docs'[id] = new[id - old] /\ indexed'[id] = found[n][id - old]
      BY <1>9, <1>10, <1>11, <2>2
    <3>3. new[id - old] = [text |-> {found[n][id - old]}, source |-> {found[n][id - old]},
                           key_findings |-> {found[n][id - old]}]
      BY <1>4, <3>1
    <3> QED BY <3>2, <3>3
  <2> QED BY <2>1, <2>2
<1>13. \A pair \in reports' : pair[2] = {pair[1]}
  <2>1. ASSUME NEW i \in 1..Len(found[n])
        PROVE  new[i].key_findings = {found[n][i]}
    <3>1. new[i] = [text |-> {found[n][i]}, source |-> {found[n][i]},
                    key_findings |-> {found[n][i]}]
      BY <1>4
    <3> QED BY <3>1
  <2> QED BY <1>6, <2>1 DEF MemoryInv, Attributed
<1>14. \A i \in DOMAIN candidates' : candidates'[i] \in DOMAIN docs'
  BY <1>7, <1>8, <1>11 DEF MemoryInv
<1> QED
  BY <1>7, <1>8, <1>9, <1>10, <1>12, <1>13, <1>14
  DEF MemoryInv, NothingForgotten, Attributed

LEMMA ConsolidateKeeps ==
  ASSUME MemoryInv, Consolidate
  PROVE  MemoryInv'
<1>1. PICK clusters \in Partitions(DOMAIN candidates) :
        Upsert(BuildConsolidated(clusters))
  BY DEF Consolidate
<1> DEFINE consolidated == BuildConsolidated(clusters)
           Merged(id) == CHOOSE new \in consolidated : new[1] = id
           Hit(id) == \E new \in consolidated : new[1] = id
<1>2. /\ docs' = [id \in DOMAIN docs |-> IF Hit(id) THEN Merged(id)[2] ELSE docs[id]]
      /\ UNCHANGED indexed
  BY <1>1 DEF Upsert
<1>3. UNCHANGED <<found, candidates, reports>>
  BY DEF Consolidate
<1>4. ASSUME NEW id \in DOMAIN docs, Hit(id)
      PROVE  /\ docs'[id] \in Documents
             /\ indexed[id] \in docs'[id].text
             /\ docs'[id].source = docs'[id].text
             /\ docs'[id].key_findings = docs'[id].text
  <2>1. Merged(id) \in consolidated /\ Merged(id)[1] = id
    BY <1>4
  <2>2. PICK c \in clusters :
          Merged(id) = <<CanonicalId(c), [text |-> TextsOf(c), source |-> SourcesOf(c),
                                          key_findings |-> TextsOf(c)]>>
    BY <2>1 DEF BuildConsolidated
  <2> HIDE DEF Merged, consolidated
  <2>3. c \subseteq DOMAIN candidates /\ c # {}
    BY DEF Partitions
  <2>4. Min(c) \in c
    <3>1. c \in SUBSET Nat
      BY <2>3 DEF MemoryInv
    <3> QED BY <2>3, <3>1, MinIn
  <2>5. id = candidates[Min(c)]
    BY <2>1, <2>2 DEF CanonicalId
  <2>6. docs'[id] = [text |-> TextsOf(c), source |-> SourcesOf(c),
                     key_findings |-> TextsOf(c)]
    BY <1>2, <1>4, <2>2
  <2>7. \A i \in c : docs[candidates[i]] \in Documents
                     /\ docs[candidates[i]].source = docs[candidates[i]].text
    BY <2>3 DEF MemoryInv, Attributed
  <2>8. TextsOf(c) \in SUBSET AllSources
    BY <2>7 DEF TextsOf, Documents
  <2>9. SourcesOf(c) = TextsOf(c)
    <3>1. {docs[candidates[i]].source : i \in c} = {docs[candidates[i]].text : i \in c}
      BY <2>7
    <3> QED BY <3>1 DEF SourcesOf, TextsOf
  <2>10. indexed[id] \in TextsOf(c)
    <3>1. indexed[id] \in docs[candidates[Min(c)]].text
      BY <1>4, <2>5 DEF MemoryInv, NothingForgotten
    <3> QED BY <2>4, <3>1 DEF TextsOf
  <2> QED BY <2>6, <2>8, <2>9, <2>10 DEF Documents
<1>5. ASSUME NEW id \in DOMAIN docs, ~Hit(id) PROVE docs'[id] = docs[id]
  BY <1>2, <1>5
<1> HIDE DEF Hit
<1>6. DOMAIN docs' = DOMAIN docs
  BY <1>2
<1>7. \A id \in DOMAIN docs : docs'[id] \in Documents
  BY <1>4, <1>5 DEF MemoryInv
<1>8. docs' \in Seq(Documents) /\ Len(docs') = Len(docs)
  <2>1. Len(docs) \in Nat /\ DOMAIN docs = 1..Len(docs)
    BY DEF MemoryInv
  <2>2. docs' \in [1..Len(docs) -> Documents]
    BY <1>2, <1>7, <2>1
  <2> QED BY <2>1, <2>2
<1>9. NothingForgotten'
  BY <1>2, <1>4, <1>5, <1>6 DEF NothingForgotten, MemoryInv
<1>10. Attributed'
  BY <1>3, <1>4, <1>5, <1>6 DEF Attributed, MemoryInv
<1> QED
  BY <1>2, <1>3, <1>6, <1>8, <1>9, <1>10 DEF MemoryInv

LEMMA MemoryStepInv == MemoryInv /\ [MemoryNext]_memory_vars => MemoryInv'
<1> SUFFICES ASSUME MemoryInv, [MemoryNext]_memory_vars PROVE MemoryInv'
  OBVIOUS
<1>0. ASSUME UNCHANGED <<docs, indexed, reports>>,
             found' \in [Researchers -> Seq(AllSources)],
             DOMAIN candidates' \subseteq Nat,
             \A i \in DOMAIN candidates' : candidates'[i] \in DOMAIN docs
      PROVE  MemoryInv'
  BY <1>0 DEF MemoryInv, NothingForgotten, Attributed
<1>1. CASE Begin
  <2>1. /\ UNCHANGED <<docs, indexed>> /\ reports' = {} /\ candidates' = <<>>
        /\ found' \in [Researchers -> Seq(AllSources)]
    BY <1>1 DEF Begin
  <2> QED BY <2>1 DEF MemoryInv, NothingForgotten, Attributed
<1>2. ASSUME NEW n, Search(n) PROVE MemoryInv'
  <2>1. PICK S \in SUBSET Sources[n] : \E sources \in Orders(S) :
               found' = [found EXCEPT ![n] = sources]
    BY <1>2 DEF Search
  <2>2. n \in Researchers
    BY <1>2 DEF Search
  <2>3. S \in SUBSET AllSources
    BY <2>1, <2>2 DEF AllSources
  <2>4. \A sources \in Orders(S) : sources \in Seq(AllSources)
    BY <2>3, OrdersAreSequences, SourcesAssumption
  <2>5. found' \in [Researchers -> Seq(AllSources)]
    BY <2>1, <2>4 DEF MemoryInv
  <2> QED BY <1>0, <1>2, <2>5 DEF Search, MemoryInv
<1>3. ASSUME NEW n, Extract(n) PROVE MemoryInv'
  BY <1>3, ExtractKeeps
<1>4. CASE Query
  <2>1. PICK n : \E window \in kSubset(n, DOMAIN docs) : candidates' \in Orders(window)
    BY <1>4 DEF Query
  <2>2. PICK window \in SUBSET DOMAIN docs : candidates' \in Orders(window)
    BY <2>1 DEF kSubset
  <2>3. IsFiniteSet(DOMAIN docs)
    <3>1. DOMAIN docs = 1..Len(docs) /\ Len(docs) \in Int /\ 1 \in Int
      BY DEF MemoryInv
    <3> QED BY <3>1, FS_Interval, Zenon
  <2>4. /\ DOMAIN candidates' \subseteq Nat
        /\ \A i \in DOMAIN candidates' : candidates'[i] \in window
    BY <2>2, <2>3, OrdersAreSequences
  <2> QED BY <1>0, <1>4, <2>2, <2>4 DEF Query, MemoryInv
<1>5. CASE Consolidate
  BY <1>5, ConsolidateKeeps
<1>6. CASE Fail
  BY <1>0, <1>6 DEF Fail, MemoryInv
<1>7. ASSUME NEW n, Report(n) PROVE MemoryInv'
  BY <1>0, <1>7 DEF Report, MemoryInv
<1>8. CASE UNCHANGED memory_vars
  BY <1>0, <1>8 DEF memory_vars, MemoryInv
<1> QED
  BY <1>1, <1>2, <1>3, <1>4, <1>5, <1>6, <1>7, <1>8 DEF MemoryNext

\* Whatever was ever indexed under an id is quoted by the document of that id,
\* in every run and after every consolidation.
THEOREM NothingIsForgotten == MemorySpec => []NothingForgotten
<1>1. MemoryInv => NothingForgotten
  BY DEF MemoryInv
<1> QED
  BY MemoryInitInv, MemoryStepInv, <1>1, PTL DEF MemorySpec

\* Every document, and every entry of a report, speaks of the sources it names.
THEOREM FindingsAreAttributed == MemorySpec => []Attributed
<1>1. MemoryInv => Attributed
  BY DEF MemoryInv
<1> QED
  BY MemoryInitInv, MemoryStepInv, <1>1, PTL DEF MemorySpec
=============================================================================
