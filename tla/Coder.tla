------------------------------- MODULE Coder --------------------------------
(***************************************************************************)
(* One implementation phase: CoderNode.__call__ (src/nodes/llm/coder.py),  *)
(* its attempts to get a training script that runs, the executor           *)
(* (src/tools/code_executor.py), and the reruns CodeCriticNode makes of    *)
(* the whole node (src/nodes/llm/code_critic.py).                          *)
(*                                                                         *)
(* Every file of the experiment directory carries the number of the        *)
(* execution that wrote it; LeftOver is a file an earlier run of the same  *)
(* workspace left in the same directory.  What the script does is up to    *)
(* the LLM that wrote it.                                                  *)
(***************************************************************************)
EXTENDS Integers, FiniteSets

CONSTANTS
    MaxExecutionRetries,  \* _MAX_EXECUTION_RETRIES
    MaxRetries,           \* critic.max_retries of phase 5
    MaxEscapes            \* bound: executions that leave a process behind

ASSUME BudgetsAssumption == MaxExecutionRetries \in Nat /\ MaxRetries \in Nat
ASSUME EscapesAssumption == MaxEscapes \in Nat

VARIABLES
    pc,        \* "prompt", "execute", "validate", "review", "passed", "raised"
    attempt,   \* of the current call
    calls,     \* calls of the node: the graph's and the critic's
    runs,      \* executions so far
    script,    \* the execution train.py was written for
    files,     \* who wrote each artifact
    results,   \* what results.json says
    outcome,   \* how the last execution ended
    survivors  \* executions with a process that escaped the kill

vars == <<pc, attempt, calls, runs, script, files, results, outcome, survivors>>

LeftOver == 0
Missing == -1

\* "custom" is a name of its own inside the directory that oof_path may give.
Artifacts == {"results", "submission", "oof", "custom"}

\* The names _clear_contract_artifacts knows.
Contract == {"results", "submission", "oof"}

\* "valid": an object with a finite cv_score and a known metric.  "outside" is
\* an oof_path that leaves the directory.
Results == [valid : BOOLEAN, oof : {"oof", "custom", "outside"}]

Outcomes == {"ok", "nonzero", "timeout"}

TypeOK ==
    /\ pc \in {"prompt", "execute", "validate", "review", "passed", "raised"}
    /\ attempt \in 0..MaxExecutionRetries
    /\ calls \in 1..(MaxRetries + 1)
    /\ runs \in Nat
    /\ script \in Nat
    /\ files \in [Artifacts -> Nat \cup {Missing}]
    /\ results \in Results
    /\ outcome \in Outcomes
    /\ survivors \subseteq 1..runs

Init ==
    /\ pc = "prompt"
    /\ attempt = 0
    /\ calls = 1
    /\ runs = 0
    /\ script = LeftOver
    /\ files \in [Artifacts -> {LeftOver, Missing}]
    /\ results = [valid |-> TRUE, oof |-> "oof"]
    /\ outcome = "ok"
    /\ survivors = {}

-----------------------------------------------------------------------------
(* The attempts                                                            *)

\* Mutant: one attempt too many.
AnotherAttempt ==
    IF attempt <= MaxExecutionRetries
    THEN pc' = "prompt" /\ attempt' = attempt + 1
    ELSE pc' = "raised" /\ UNCHANGED attempt

\* The reason goes back to the LLM, or the node raises ValueError.
Fail ==
    IF attempt < MaxExecutionRetries
    THEN pc' = "prompt" /\ attempt' = attempt + 1
    ELSE pc' = "raised" /\ UNCHANGED attempt

\* _extract_code finds no block, several, or an empty one.
Malformed ==
    /\ pc = "prompt"
    /\ Fail
    /\ UNCHANGED <<calls, runs, script, files, results, outcome, survivors>>

\* Mutant: the previous attempt's submission is left where it is.
ClearAllButSubmission ==
    files' = [a \in Artifacts |->
                IF a \in {"results", "oof"} THEN Missing ELSE files[a]]

Clear ==
    files' = [a \in Artifacts |-> IF a \in Contract THEN Missing ELSE files[a]]

WriteScript ==
    /\ pc = "prompt"
    /\ script' = runs + 1
    /\ Clear
    /\ pc' = "execute"
    /\ UNCHANGED <<attempt, calls, runs, results, outcome, survivors>>

\* Execution e leaves the files of written behind.
Write(e, written) ==
    /\ files' = [a \in Artifacts |-> IF a \in written THEN e ELSE files[a]]
    /\ IF "results" \in written THEN results' \in Results ELSE UNCHANGED results

\* execute: the script ran, failed or was killed, after writing what it got to.
Execute ==
    /\ pc = "execute"
    /\ runs' = runs + 1
    /\ \E written \in SUBSET Artifacts : Write(runs', written)
    /\ outcome' \in Outcomes
    /\ survivors' \in {survivors} \cup
         (IF Cardinality(survivors) < MaxEscapes THEN {survivors \cup {runs'}} ELSE {})
    /\ pc' = "validate"
    /\ UNCHANGED <<attempt, calls, script>>

\* A process that left the process group writes one more file.
SurvivorWrites(e) ==
    /\ e \in survivors
    /\ pc \notin {"passed", "raised"}
    /\ \E a \in Artifacts : Write(e, {a})
    /\ UNCHANGED <<pc, attempt, calls, runs, script, outcome, survivors>>

\* _validate_run returns no reason.
Acceptable ==
    /\ outcome = "ok"
    /\ files["results"] # Missing
    /\ results.valid
    /\ files["submission"] # Missing
    /\ results.oof # "outside"
    /\ files[results.oof] # Missing

ValidateFails ==
    /\ pc = "validate"
    /\ ~Acceptable
    /\ Fail
    /\ UNCHANGED <<calls, runs, script, files, results, outcome, survivors>>

ValidatePasses ==
    /\ pc = "validate"
    /\ Acceptable
    /\ pc' = "review"
    /\ UNCHANGED <<attempt, calls, runs, script, files, results, outcome, survivors>>

-----------------------------------------------------------------------------
(* code_critic                                                             *)

CriticPasses ==
    /\ pc = "review"
    /\ pc' = "passed"
    /\ UNCHANGED <<attempt, calls, runs, script, files, results, outcome, survivors>>

\* Mutant: the critic forgets to count.
CriticCallsUncounted ==
    /\ pc = "review"
    /\ calls <= MaxRetries
    /\ attempt' = 0
    /\ pc' = "prompt"
    /\ UNCHANGED <<calls, runs, script, files, results, outcome, survivors>>

\* "iterate": the node is called again, with all its attempts.
CriticCallsCoder ==
    /\ pc = "review"
    /\ calls <= MaxRetries
    /\ calls' = calls + 1
    /\ attempt' = 0
    /\ pc' = "prompt"
    /\ UNCHANGED <<runs, script, files, results, outcome, survivors>>

\* The LLM or the disk raises.
Raises ==
    /\ pc \notin {"passed", "raised"}
    /\ pc' = "raised"
    /\ UNCHANGED <<attempt, calls, runs, script, files, results, outcome, survivors>>

Step ==
    \/ Malformed \/ WriteScript \/ Execute
    \/ ValidateFails \/ ValidatePasses
    \/ CriticPasses \/ CriticCallsCoder

Next == Step \/ Raises \/ \E e \in survivors : SurvivorWrites(e)

Spec == Init /\ [][Next]_vars

-----------------------------------------------------------------------------
(* Properties                                                              *)

\* What the critic reviews and the pipeline goes on with is the work of one
\* execution of the script that lies beside it: no file of an earlier attempt,
\* call or run is taken for one of this attempt (the docstring of
\* _clear_contract_artifacts).  Two cases are excepted, as the code does: a
\* process that escaped the kill, and an oof_path under a name of its own.
AcceptedIsOneRun ==
    pc \in {"review", "passed"} /\ survivors = {} =>
        /\ outcome = "ok"
        /\ script = runs
        /\ files["results"] = runs
        /\ files["submission"] = runs
        /\ results.oof = "oof" => files["oof"] = runs

\* A script is run at most once per attempt and MaxExecutionRetries + 1 times
\* per call, over all the calls the critic makes.
ExecutionsBounded ==
    runs <= (calls - 1) * (MaxExecutionRetries + 1) + attempt
              + IF pc \in {"prompt", "execute"} THEN 0 ELSE 1

\* The files the contract names are gone when the script starts, and what is
\* there when it is validated is its own.
ArtifactsAreFresh ==
    /\ pc = "execute" =>
         /\ script = runs + 1
         /\ survivors = {} => \A a \in Contract : files[a] = Missing
    /\ pc = "validate" =>
         /\ script = runs
         /\ survivors = {} => \A a \in Contract : files[a] \in {runs, Missing}

\* The inductive invariant of the phase.
IInv == TypeOK /\ ArtifactsAreFresh /\ AcceptedIsOneRun /\ ExecutionsBounded
=============================================================================
