---------------------------- MODULE CoderProofs -----------------------------
(* Theorems about Coder, for any retry budgets and any number of escaped   *)
(* processes.                                                              *)
EXTENDS Coder, TLAPS

\* The files after a write: everything else is what it was.
LEMMA WriteFiles ==
    ASSUME TypeOK, NEW e \in Nat, NEW written \in SUBSET Artifacts, Write(e, written)
    PROVE  /\ files' \in [Artifacts -> Nat \cup {Missing}]
           /\ results' \in Results
           /\ \A a \in Artifacts : files'[a] = IF a \in written THEN e ELSE files[a]
<1>1. files \in [Artifacts -> Nat \cup {Missing}] /\ results \in Results
  BY DEF TypeOK
<1>2. files' = [a \in Artifacts |-> IF a \in written THEN e ELSE files[a]]
  BY DEF Write
<1>3. results' \in Results
  BY <1>1 DEF Write
<1>4. QED BY <1>1, <1>2, <1>3

\* One more call pays for the attempts of the last one.
LEMMA OneMoreCall ==
    \A m, c, r, a \in Nat :
        c >= 1 /\ a <= m /\ r <= (c - 1) * (m + 1) + a + 1
            => r <= ((c + 1) - 1) * (m + 1) + 0
<1> SUFFICES ASSUME NEW m \in Nat, NEW c \in Nat, NEW r \in Nat, NEW a \in Nat,
                    c >= 1, a <= m, r <= (c - 1) * (m + 1) + a + 1
             PROVE  r <= ((c + 1) - 1) * (m + 1) + 0
  OBVIOUS
<1>1. c * (m + 1) = (c - 1) * (m + 1) + (m + 1)
  OBVIOUS
<1>2. QED BY <1>1

\* The bound is a number, so that a step can be compared with it.
LEMMA BoundType ==
    ASSUME TypeOK
    PROVE  (calls - 1) * (MaxExecutionRetries + 1) \in Int
  BY BudgetsAssumption DEF TypeOK

LEMMA InitInv == Init => IInv
<1> SUFFICES ASSUME Init PROVE IInv
  OBVIOUS
<1>1. TypeOK
  BY BudgetsAssumption DEF Init, TypeOK, LeftOver, Missing, Results, Outcomes
<1>2. ArtifactsAreFresh /\ AcceptedIsOneRun
  BY DEF Init, ArtifactsAreFresh, AcceptedIsOneRun
<1>3. ExecutionsBounded
  <2>1. \A m \in Nat : (1 - 1) * (m + 1) = 0
    OBVIOUS
  <2>2. (calls - 1) * (MaxExecutionRetries + 1) = 0
    BY <2>1, BudgetsAssumption DEF Init
  <2>3. QED BY <2>2 DEF Init, ExecutionsBounded
<1>4. QED BY <1>1, <1>2, <1>3 DEF IInv

\* An attempt that fails counts, whatever it left on disk.
LEMMA FailInv ==
    ASSUME IInv, Fail, pc \in {"prompt", "validate"},
           UNCHANGED <<calls, runs, script, files, results, outcome, survivors>>
    PROVE  IInv'
<1>1. /\ pc' \in {"prompt", "raised"}
      /\ attempt' \in 0..MaxExecutionRetries
      /\ pc' = "prompt" => attempt' = attempt + 1
      /\ pc' = "raised" => attempt' = attempt
  BY BudgetsAssumption DEF IInv, TypeOK, Fail
<1>2. TypeOK'
  BY <1>1 DEF IInv, TypeOK
<1>3. ArtifactsAreFresh' /\ AcceptedIsOneRun'
  BY <1>1 DEF ArtifactsAreFresh, AcceptedIsOneRun
<1>4. ExecutionsBounded'
  <2> DEFINE b == (calls - 1) * (MaxExecutionRetries + 1)
  <2>1. b \in Int /\ runs \in Int /\ attempt \in Int
    BY BoundType, BudgetsAssumption DEF IInv, TypeOK
  <2>2. runs <= b + attempt + IF pc \in {"prompt", "execute"} THEN 0 ELSE 1
    BY DEF IInv, ExecutionsBounded
  <2>3. runs' = runs /\ b' = b
    OBVIOUS
  <2>4. SUFFICES runs <= b + attempt' + IF pc' \in {"prompt", "execute"} THEN 0 ELSE 1
    BY <2>3 DEF ExecutionsBounded
  <2> HIDE DEF b
  <2>5. runs <= b + attempt + 1
    BY <2>1, <2>2
  <2>6. CASE pc' = "prompt"
    BY <1>1, <2>1, <2>5, <2>6
  <2>7. CASE pc' = "raised"
    BY <1>1, <2>1, <2>5, <2>7
  <2>8. QED BY <1>1, <2>6, <2>7
<1>5. QED BY <1>2, <1>3, <1>4 DEF IInv

LEMMA StepInv == IInv /\ [Next]_vars => IInv'
<1> SUFFICES ASSUME IInv, [Next]_vars PROVE IInv'
  OBVIOUS
<1>1. /\ TypeOK
      /\ attempt \in Nat /\ calls \in Nat /\ runs \in Nat
      /\ (calls - 1) * (MaxExecutionRetries + 1) \in Int
  BY BudgetsAssumption, BoundType DEF IInv, TypeOK
<1>2. CASE Malformed
  BY <1>2, FailInv DEF Malformed
<1>3. CASE ValidateFails
  BY <1>3, FailInv DEF ValidateFails
<1>4. CASE WriteScript
  <2>1. /\ pc = "prompt" /\ pc' = "execute" /\ script' = runs + 1
        /\ files' = [a \in Artifacts |-> IF a \in Contract THEN Missing ELSE files[a]]
        /\ UNCHANGED <<attempt, calls, runs, results, outcome, survivors>>
    BY <1>4 DEF WriteScript, Clear
  <2>2. files' \in [Artifacts -> Nat \cup {Missing}]
    BY <1>1, <2>1 DEF TypeOK
  <2>3. \A a \in Contract : files'[a] = Missing
    BY <2>1 DEF Contract, Artifacts
  <2>4. TypeOK'
    BY <1>1, <2>1, <2>2 DEF TypeOK
  <2>5. ArtifactsAreFresh' /\ AcceptedIsOneRun' /\ ExecutionsBounded'
    BY <2>1, <2>3 DEF IInv, ArtifactsAreFresh, AcceptedIsOneRun, ExecutionsBounded
  <2>6. QED BY <2>4, <2>5 DEF IInv
<1>5. CASE Execute
  <2>1. /\ pc = "execute" /\ pc' = "validate" /\ runs' = runs + 1
        /\ outcome' \in Outcomes
        /\ survivors' \in {survivors, survivors \cup {runs'}}
        /\ UNCHANGED <<attempt, calls, script>>
    BY <1>5 DEF Execute
  <2>2. PICK written \in SUBSET Artifacts : Write(runs', written)
    BY <1>5 DEF Execute
  <2>3. /\ files' \in [Artifacts -> Nat \cup {Missing}]
        /\ results' \in Results
        /\ \A a \in Artifacts : files'[a] = IF a \in written THEN runs' ELSE files[a]
    BY <1>1, <2>1, <2>2, WriteFiles
  <2>4. TypeOK'
    BY <1>1, <2>1, <2>3 DEF TypeOK
  <2>5. ArtifactsAreFresh'
    <3>1. script' = runs'
      BY <2>1 DEF IInv, ArtifactsAreFresh
    <3>2. survivors' = {} => \A a \in Contract : files'[a] \in {runs', Missing}
      <4>1. survivors' = {} => survivors = {}
        BY <2>1
      <4>2. \A a \in Contract : a \in Artifacts
        BY DEF Contract, Artifacts
      <4>3. QED BY <2>1, <2>3, <4>1, <4>2 DEF IInv, ArtifactsAreFresh
    <3>3. QED BY <2>1, <3>1, <3>2 DEF ArtifactsAreFresh
  <2>6. AcceptedIsOneRun'
    BY <2>1 DEF AcceptedIsOneRun
  <2>7. ExecutionsBounded'
    BY <1>1, <2>1 DEF IInv, ExecutionsBounded
  <2>8. QED BY <2>4, <2>5, <2>6, <2>7 DEF IInv
<1>6. CASE ValidatePasses
  <2>1. /\ pc = "validate" /\ pc' = "review" /\ Acceptable
        /\ UNCHANGED <<attempt, calls, runs, script, files, results, outcome, survivors>>
    BY <1>6 DEF ValidatePasses
  <2>2. AcceptedIsOneRun'
    BY <2>1 DEF IInv, ArtifactsAreFresh, AcceptedIsOneRun, Acceptable, Contract
  <2>3. TypeOK' /\ ArtifactsAreFresh' /\ ExecutionsBounded'
    BY <2>1 DEF IInv, TypeOK, ArtifactsAreFresh, ExecutionsBounded
  <2>4. QED BY <2>2, <2>3 DEF IInv
<1>7. CASE CriticPasses
  BY <1>7 DEF CriticPasses, IInv, TypeOK, ArtifactsAreFresh, AcceptedIsOneRun, ExecutionsBounded
<1>8. CASE CriticCallsCoder
  <2>1. /\ pc = "review" /\ pc' = "prompt" /\ calls' = calls + 1 /\ attempt' = 0
        /\ calls <= MaxRetries
        /\ UNCHANGED <<runs, script, files, results, outcome, survivors>>
    BY <1>8 DEF CriticCallsCoder
  <2>2. TypeOK'
    BY <1>1, <2>1, BudgetsAssumption DEF TypeOK
  <2>3. ArtifactsAreFresh' /\ AcceptedIsOneRun'
    BY <2>1 DEF ArtifactsAreFresh, AcceptedIsOneRun
  <2>4. ExecutionsBounded'
    <3>1. /\ MaxExecutionRetries \in Nat /\ calls >= 1 /\ attempt <= MaxExecutionRetries
          /\ runs <= (calls - 1) * (MaxExecutionRetries + 1) + attempt + 1
      BY <1>1, <2>1, BudgetsAssumption DEF IInv, TypeOK, ExecutionsBounded
    <3>2. runs <= ((calls + 1) - 1) * (MaxExecutionRetries + 1) + 0
      BY <1>1, <3>1, OneMoreCall
    <3>3. QED BY <1>1, <2>1, <3>1, <3>2 DEF ExecutionsBounded
  <2>5. QED BY <2>2, <2>3, <2>4 DEF IInv
<1>9. CASE Raises
  <2>1. /\ pc' = "raised"
        /\ UNCHANGED <<attempt, calls, runs, script, files, results, outcome, survivors>>
    BY <1>9 DEF Raises
  <2>2. TypeOK' /\ ArtifactsAreFresh' /\ AcceptedIsOneRun'
    BY <2>1 DEF IInv, TypeOK, ArtifactsAreFresh, AcceptedIsOneRun
  <2>3. ExecutionsBounded'
    BY <1>1, <2>1 DEF IInv, ExecutionsBounded
  <2>4. QED BY <2>2, <2>3 DEF IInv
<1>10. ASSUME NEW e \in survivors, SurvivorWrites(e) PROVE IInv'
  <2>1. UNCHANGED <<pc, attempt, calls, runs, script, outcome, survivors>>
    BY <1>10 DEF SurvivorWrites
  <2>2. e \in Nat
    BY <1>1 DEF TypeOK
  <2>3. PICK a \in Artifacts : Write(e, {a})
    BY <1>10 DEF SurvivorWrites
  <2>4. files' \in [Artifacts -> Nat \cup {Missing}] /\ results' \in Results
    BY <1>1, <2>2, <2>3, WriteFiles
  <2>5. TypeOK' /\ ExecutionsBounded'
    BY <1>1, <2>1, <2>4 DEF IInv, TypeOK, ExecutionsBounded
  <2>6. ArtifactsAreFresh' /\ AcceptedIsOneRun'
    BY <2>1 DEF IInv, ArtifactsAreFresh, AcceptedIsOneRun
  <2>7. QED BY <2>5, <2>6 DEF IInv
<1>11. CASE UNCHANGED vars
  BY <1>11 DEF vars, IInv, TypeOK, ArtifactsAreFresh, AcceptedIsOneRun, ExecutionsBounded
<1>12. QED
  BY <1>2, <1>3, <1>4, <1>5, <1>6, <1>7, <1>8, <1>9, <1>10, <1>11 DEF Next, Step

-----------------------------------------------------------------------------

LEMMA Inductive == Spec => []IInv
  BY InitInv, StepInv, PTL DEF Spec

\* Type correctness of the implementation phase for any budgets.
THEOREM TypeCorrect == Spec => []TypeOK
  BY Inductive, PTL DEF IInv

\* Without an escaped process, what is accepted was written by one execution
\* of the script beside it, whatever earlier attempts, calls and runs left.
THEOREM OneRunIsAccepted == Spec => []AcceptedIsOneRun
  BY Inductive, PTL DEF IInv

\* The budgets of coder and its critic bound the executions together.
THEOREM ExecutionsAreBounded == Spec => []ExecutionsBounded
  BY Inductive, PTL DEF IInv
=============================================================================
