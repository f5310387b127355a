# A verification development for data-science-lab

data-science-lab runs a LangGraph pipeline of LLM nodes and compute nodes that
takes a Kaggle competition from its data to a submission, behind a FastAPI
server (`src/api`).  This directory models the parts of it that keep state,
interleave or loop, checks them with TLC on small instances and proves the
central results with TLAPS for every value of the constants.

Paths below are relative to the repository root.

## 1. Inventory

| Component | State it keeps | Operations | What is hard | What makes it correct |
|---|---|---|---|---|
| Run lifecycle: `src/api/routers/runs.py`, `registry.py`, `main.py` | `active_runs` (run id -> asyncio task), one JSON record per run on disk, one sqlite checkpoint per run, `graph_cache` | create, list, get, resume; the background task `_run_and_track` / `_resume_and_track` | every `await asyncio.to_thread` lets other handlers and tasks in; the process may die between any two writes; writes may fail | one driver at a time; the registry tells the truth about the checkpoint; every run settles |
| Live events: `src/api/event_emitter.py`, `routers/events.py` | `event_queues` (run id -> bounded queue) | emit from the worker thread, put with drop-oldest, sentinel, SSE generators | a thread feeds a loop through `call_soon_threadsafe`; overflow; several clients; a resume replaces the queue | the sentinel is last, nothing is reordered, a client is closed |
| Chat: `routers/chat.py`, `explainer.py` | the session of one socket | prologue, approve, redirect, questions | it resumes runs through the same handler as HTTP | same as the run lifecycle |
| Kaggle: `routers/kaggle.py`, `nodes/compute/kaggle_client.py`, `tools/kaggle_client.py` | `active_submissions`; the submissions on Kaggle's side | the submit endpoint, the phase-7 node; both upload and then read the latest score | check, await, act; two submitters that do not know of each other; a score that arrives minutes later; an upload whose answer is lost | one request per run; nothing guessed is uploaded; the answer is true |
| Pipeline graph: `src/graph/` | `LabState`, the sqlite checkpoint | seven phases, `supervisor`, human checkpoints | a loop controlled by counters that different nodes write | baseline first, loop bounded, delivery exactly when stale |
| Scoring: `nodes/compute/score_evaluator.py`, `_evaluation_common.py`, `nodes/llm/experiment_designer.py` | `best_score`, `best_experiment_path`, `iterations_without_improvement`, `current_iteration` | score, compare, count | the critic rewrites results on disk after the index entry was made; files may be missing | state, index and disk agree |
| Critics: `nodes/llm/analysis_critic.py`, `code_critic.py` | retry counts per target, the verdict record | review, blame, rerun a target inside the call | the LLM may answer anything; a target may refuse | budgets hold, the record says why the loop ended |
| Coder and executor: `nodes/llm/coder.py`, `src/tools/code_executor.py` | the experiment directory | ask, write, clear, run with a timeout, validate, retry | artifacts of an earlier attempt; a script killed half way; a process that escapes the kill; two nested retry budgets | what is accepted is the work of one execution |
| Understanding: `nodes/llm/data_analyst.py`, `problem_framer.py`, `validation_strategist.py`, `leakage_auditor.py` | `fold_config.json` (write-once) and three reports | one file each | another run in the same workspace; a rerun upstream of the frozen folds | the folds never change, and whoever is beyond them froze them |
| Design and report nodes: `nodes/llm/solution_architect.py`, `feature_engineer.py`, `error_analyst.py`, `hypothesis_generator.py`, `reviewer.py`, `report_writer.py`, `nodes/compute/feature_importance_extractor.py` | files per iteration, path fields of `LabState` | read some files, ask the model, validate, write one | which iteration a file belongs to is found in four different ways; a critic has files rewritten that were already read | nobody works from an outdated file, iterations do not mix |
| Experiment design: `nodes/llm/_experiment_design.py`, the specialists, `nodes/compute/specialist_selector.py` | `design.json` | choose a specialist, validate its reply | the reply is free text and is executed an hour later; Optuna accepts silently what tunes nothing | a design on disk can be searched; an ensemble reads every experiment once |
| Workspace: `src/workspace` | files | read, replace atomically | several runs may share a workspace | see the two rows above |
| Observability: `src/observability/jsonl_callback.py` | starts, parents and usage by callback run id; the JSONL log | start, end and error hooks of chains and LLM calls | hooks on several threads, nested graphs with the same names, errors, lost writes | spans pair, tokens are charged to who used them, nothing leaks |
| Memory and retrieval: `src/memory`, `src/tools/rag.py`, the four nodes of phase 2 | a vector store per competition, shared by its runs | search, index, query, consolidate | answers and clusters in any order; failed runs leave what they indexed | nothing is forgotten or credited to someone else |
| Configuration, prompts, LLM factory, read-only routers | none that changes | load, list | none | - |
| Web frontend: `frontend/` | UI state | polls the API | none on the server | - |

How they meet: a request handler on the event loop schedules at most one
background task; the task runs `graph.invoke` in a worker thread; nodes read and
write `LabState` and the workspace; the emitter carries their events back to
the loop into the queue of the run; SSE clients drain that queue; when the graph
pauses or ends, the task copies the outcome from the checkpoint into the
registry, and a client resumes it over HTTP or over the chat socket.

## 2. Modules

| Module | Models | State and actions |
|---|---|---|
| `RunStatus` | the abstract run lifecycle | `record`, `driver`: only the driven run's status moves |
| `RunLifecycle` | `routers/runs.py`, `registry.py`, the resume paths of `routers/chat.py` | `record` and `ckpt` are the files that survive a `Crash`; `active_runs`, `graph_cache`, the tasks' `stage` and the requests' `req` do not.  One action per stretch of code between two awaits; `CreateRun` is one action because `create_run` awaits nothing before it schedules the task |
| `EventStream` | `event_emitter.py`, `routers/events.py`, the sentinel in `_run_and_track` | `queues` (one per segment: create, and each resume), `registered` is `event_queues[run_id]`, `calls` the callbacks handed to the loop, `reader` the SSE generators |
| `Pipeline` | `src/graph`, `coder`, `code_critic`'s rerun, `score_evaluator`, `experiment_designer`, `baseline_runner` | `lab` is the part of `LabState` the control flow reads, `results` the `results.json` of every experiment directory, `definition` what `problem_definition.json` says of the metric at the moment (it may be lost or replaced: `DefinitionChanges`), `evaluations` the `score_evaluation_{N}.json` reports, `node` the next node of the checkpoint |
| `CriticLoop` | one call of `AnalysisCriticNode` or `CodeCriticNode` | one action per way through one turn of the `for` loop, and the loop's `else` |
| `Coder` | `CoderNode.__call__`, `execute`, and the reruns of `code_critic` | `files` holds, for each artifact, the number of the execution that wrote it; one action per way through an attempt, `Execute` leaves any subset of the artifacts with any exit, `SurvivorWrites` is a process that left the process group |
| `KaggleSubmit` | `submit_run`, `KaggleClientNode.run`, `submit` and `get_score` | `submissions` is Kaggle's list by date; `req` is the request or last answer of each connection, one action per stretch between two awaits; `delivery` is the phase-7 node of each run, one action per call that leaves the process |
| `PhaseGraph` | `config/phases/*.yaml`, `graph/phases/generic.py`, `graph/builder.py`, `graph/supervisor.py` | no state: the edges of each phase, its supersteps, the way from phase to phase |
| `Artifacts` | every node of the seven phases, `workspace_manager.py`, the path fields of `LabState`, the reruns of both critics | `files` gives each file its author, its version and the versions its author read; `lab`, `phase`, `todo` and `ran` are each run's `LabState` and place in the graph.  One action per node; a run is started, paused, resumed or fails |
| `Contracts` | the validators of `_experiment_design.py`, `_evaluation_llm_common.py` and the node modules, `specialist_selector.py`, `ensemble_specialist.py` | `artifact` is the file written last; one action per node that accepts a reply, `Refused` is the `ValueError` |
| `Observability` | `JsonlCallbackHandler` and the order in which LangGraph calls it | the four tables of the handler, `log`; `open`, `calling`, `todo` are LangGraph's side.  One action per hook call |
| `Memory` | the store, the three researchers, `memory_manager` | `docs` is the collection, `found` and `candidates` what a node keeps between its search and its answer; one action per step of a node that leaves the process |
| `MC*` | small instances | symmetry sets and constant sets too long for a `.cfg` |
| `*Proofs` | theorems about the module they are named after; `RepliesProofs` is about `Contracts` and `Memory`, `ObserversProofs` about `EventStream` and `Observability` | see section 6 |

`RunLifecycle` is shown to implement `RunStatus` by
`INSTANCE RunStatus WITH driver <- Driver`, where `Driver` is the run whose
task is alive.  A status may be settled only by its driver and only from
"running"; a crash or a lost write is the abstract step `Lose`.

`Artifacts`, `Memory` and `Observability` run on the graphs `PhaseGraph` builds.
`Artifacts` composes what the other modules look at one by one: the phases of
`Pipeline`, the reruns of `CriticLoop` and the checkpoints of `RunLifecycle` (one
run executes at a time, others wait), over files that all of them share.  There a
score is only better or not, a review only a pass or a rerun, and a coder call
one write, because the modules named after them treat the rest.

What is abstracted everywhere: prompts, feedback texts, metrics other than the
one cross-validation score, and the format of files.  A file is what its
readers can tell apart (a score or nothing; a status; a next node or none).

## 3. Runs

| Run | Shows | Bounds, and why they are enough |
|---|---|---|
| `lifecycle_overlap` | one live task, the registered one; an executing run says "running"; "pending" and "running" have a driver or a named cause; racing cache misses are bounded | 2 runs, 3 tasks, 2 connections, failing writes.  A conflict needs two requests and one task that is already going; a third task shows a task of a run that was driven before.  Runs, tasks and connections are only compared, so they are symmetric |
| `lifecycle_restart` | registry and checkpoint agree, the handlers implement `RunStatus`; everything settles: the server becomes free, runs settle, requests are answered | 1 run, 2 tasks, 2 connections, and two crashes, each at any point, so that one can hit what the other left behind (no symmetry: liveness) |
| `lifecycle_stale_resume` | finding: a resume accepted on a stale copy of the record | 1 run, 1 connection |
| `stream_queue` | newest events kept in order with the sentinel last, in-order delivery, an undisturbed client is closed | limit 2 (the code's 1000), so that 4 events overflow it with and without a reader; 2 segments: a resume replaces the queue once, and every later one does the same |
| `pipeline_scores` | index, disk, best score and counter agree; the counter steers the loop; the graph comes to rest | scores 0..1 in both directions, a patience of 2, 1 critic rerun, 1 change of `problem_definition.json` at any point.  Two scores distinguish better, equal and worse; the patience must exceed 1 to see the counter between 0 and the limit; one change makes two evaluations of one run read different directions |
| `critic_calls` | budgets end a call, a call is conclusive, it ends | the 4 targets of phase 1, one of them write-once, budgets -1..3 (the YAML says 3) |
| `coder_attempts` | what is reviewed and passed on was written by one execution; executions are bounded | 3 attempts per call as in the code, 1 rerun by the critic, 1 escaped process: a stale file needs one earlier attempt, call or run, and each of the three is there |
| `kaggle_guard` | guard, no guessed upload, true reports, every request answered | 1 run, 2 connections, 2 directories, 3 uploads (the node and two requests), 1 lost file.  The guard is per run and uploads meet only in Kaggle's list, where a second run would do what the node of the same run does |
| `artifacts` | the folds guard a shared workspace, no stale reads, iterations do not mix, past iterations are final | 2 runs of one workspace, each through all phases with up to 3 iterations (two that may improve and need not, a patience of 1: an ensemble needs two earlier experiments), 2 critic reruns per run, so that both can hit one phase or one target twice.  A third run would meet the same folds as the second |
| `log_records` | the handler forgets, spans pair, tokens add up | phases 1 to 6 and phase 4 once more: two parallel nodes, the checkpoints of phases 1, 4 and 6, so 4 segments with a handler each, and a second iteration in which names come again; 2 calls of `code_critic`, and known, unknown and zero usage; 1 lost record, which may be of one of five names: a phase and a node that come twice, a node beside another, one with several calls, one without.  Phase 4 is the first phase that comes twice, and every later repetition is of the same kind |
| `memory` | nothing forgotten, everything attributed | 2 runs, 2 papers (an answer in the wrong order needs two) and 1 page, queries of at most 3 of up to 6 documents, so that consolidated documents are queried, clustered and left out again |
| `contracts` | designs can be searched, an ensemble reads each experiment, ranks are orders | for every node correct replies and, field by field, wrong ones (bounds, kinds, duplicates, forbidden keys, 1 against `true`); 3 iterations; numbers in a unit in which `_MAX_EXACT_INT` is 9 and the tolerance of the step is 1 + 1/3, so that both are within reach |

The properties of each run, by the names of their definitions, with the theorem
that states the property for every value of the constants where there is one:

| Run | Property (theorem) |
|---|---|
| `lifecycle_overlap` | `OneRegisteredDriver` (`MutualExclusion`), `ExecutingIsRunning` (`ExecutingRunIsRunning`), `StatusHasDriver` (`NoSilentStall`), `GraphBuildsBounded` (`BuildsAreBounded`) |
| `lifecycle_restart` | `RegistryAgreesWithCheckpoint` (`RegistryIsTruthful`), `ImplementsRunStatus` (`LifecycleRefinement`), `EverythingSettles` |
| `lifecycle_stale_resume` | `ResumeOnlyWhenInterrupted` |
| `stream_queue` | `QueueIsNewest` (`StreamIsNewest`), `DeliveredInOrder` (`ConnectionsSeeOrder`), `UnsharedStreamCloses` |
| `pipeline_scores` | `TypeOK` (`TypeCorrect`), `IndexFollowsIterations` (`IndexIsAligned`), `BestIsOnDisk` (`BestScoreIsOnDisk`), `CounterSteersLoop` (`CounterIsDistance`), `IterationsBounded` (`LoopIsBounded`), `EventuallyRests` |
| `critic_calls` | `TypeOK` (`TypeCorrect`), `BudgetsEndCalls` (`BudgetsHold`), `CallIsConclusive` (`CallConcludes`), `Concludes` |
| `coder_attempts` | `TypeOK` (`TypeCorrect`), `AcceptedIsOneRun` (`OneRunIsAccepted`), `ExecutionsBounded` (`ExecutionsAreBounded`) |
| `kaggle_guard` | `TypeOK` (`TypeCorrect`), `GuardMatchesRequests` (`OneRequestPerRun`), `NeverGuessed` (`NothingIsGuessed`), `ReportsAreTrue` (`AnswersAreTrue`), `SubmissionsEnd` |
| `artifacts` | `FoldsGuardWorkspace` (`WorkspaceIsGuarded`), `NoStaleReads` (`ReadsAreTraced`), `IterationsDoNotMix` (`IterationsAreApart`), `PastIterationsAreFinal` (`PastStaysFinal`) |
| `log_records` | `HandlerForgets` (`HandlersForget`), `SpansPair` (`SpansArePaired`), `TokensAddUp` (`TokensAreItsOwn`) |
| `memory` | `NothingForgotten` (`NothingIsForgotten`), `Attributed` (`FindingsAreAttributed`) |
| `contracts` | `DesignIsSamplable` (`DesignsCanBeSearched`), `EnsembleReadsEachExperiment` (`EnsemblesAreComplete`), `RankedInOrder` (`RanksAreOrders`) |

Each property of a passing run has a mutant in `PROJECT.json`: an operator
written beside the definition it replaces, marked `Mutant:` in its comment,
that changes the model as a plausible bug would change the code.

### Fairness

* `RunLifecycle`: weak fairness of each background task and of each request
  handler.  asyncio runs every ready callback, `to_thread` calls return or
  raise, and `graph.invoke` ends (that it does is what `Pipeline` and
  `CriticLoop` check).  New requests and crashes are not fair.
* `EventStream`: weak fairness of the run's own steps and of a connected
  generator's `queue.get`.  No client has to connect, stay or resume.
* `Pipeline`: weak fairness of the next node.  No human has to resume.
* `KaggleSubmit`: weak fairness of each request and of each node: handlers are
  scheduled and calls of the Kaggle API return or raise.  Nobody has to submit,
  and Kaggle may never score.
* `Coder` has no liveness property: `ExecutionsBounded` bounds it.
* `CriticLoop`: weak fairness of the call: the LLM and the targets return or raise.
* `Artifacts`, `Contracts`, `Memory` and `Observability` have safety properties only:
  that a graph ends is `Pipeline`'s question, and a run may wait at a checkpoint or be
  killed at any point.

## 4. What the runs found

`lifecycle_stale_resume`: `do_resume` reads the record (`runs.py:292`), awaits the
graph, and tests that copy (`runs.py:301`).  A resume can be accepted for a run that
meanwhile was resumed by someone else and is completed or failed, although `docs/api.md:34-35`
promises `409`.

## 5. Observations

What the code does and a reader of the docs would not expect.  The models contain
each of these behaviours; the properties promise only what holds in spite of them.

About runs, streams and submissions:

* a run left "running" by a killed process is refused by `do_resume`;
  `docs/adr/0001-run-registry-on-disk.md:70-71` calls it recoverable by resume;
* two clients of one run share its queue and its one sentinel, so one of them
  is never closed; `docs/api.md:128-129` says the stream closes by itself;
* `_event_stream` removes `event_queues[run_id]` by name: a client of the segment
  before a resume removes the queue of the segment after it, against
  `docs/api.md:131-132` and `main.py:181-184`;
* the answer of `POST /api/runs/{id}/submit` is the score of the competition's
  latest submission (`tools/kaggle_client.py:125`), which is someone else's if
  anyone submits between the upload and the read; `routers/kaggle.py:1-2` says "the
  resulting public leaderboard score".  `ReportsAreTrue` says what does hold: the
  score is never of an older submission than one's own;
* two requests that miss `graph_cache` for the same run both build a graph and a
  sqlite connection (`runs.py:105`), which the docstring (`runs.py:93-98`) and
  `main.py:175-178` rule out.  `GraphBuildsBounded` states how far it can go;
* when `update_state` raises (`runs.py:259`) the error leaves `_resume_and_track`
  before its `try`: no status is written and no sentinel is put.
  `UnsharedStreamCloses` excepts this case by name (`run = "unended"`);
* an upload that Kaggle accepted and whose answer was lost is reported as a failure
  (`routers/kaggle.py:156`, `kaggle_client.py:456`); the user's retry uploads twice.

About the pipeline:

* `docs/configuration.md:82` calls `max_iterations` the maximum of phase 4 -> 6
  loops; `supervisor.py:32` compares it with the iterations without improvement.
  `IterationsBounded` and `CounterSteersLoop` state what the code does;
* `_clear_contract_artifacts` says that its invariant "holds unconditionally"
  (`coder.py:254`).  It does for processes that end with their script; one that
  left the process group may still write.  `AcceptedIsOneRun` excepts it, and the
  custom `oof_path` the same docstring names as a residual limitation;
* after the critic has had the coder run again, `results.json` is the last call's and
  `cv_score` of the index entry the first call's: what is scored is the file;
* the direction of a score is derived again at every evaluation from
  `problem_definition.json`, and a file that is missing or unreadable means "maximize"
  (`score_evaluator.py:206-215`).  `docs/adr/0004-score-polarity-on-labstate.md` (status
  "Accepted") and `src/state.py:13-18` say that `score_evaluator` sets
  `LabState.score_direction` once and reuses it; no code writes the field.  When the file is
  lost or replaced, scores of opposite signs are compared and `best_score` may belong to
  the worse experiment.  `BestIsOnDisk` says what is left: `best_score` is the best of
  the scores as each evaluation read and reported them (`BestAsEvaluated`), what was
  evaluated is unchanged on disk (`EvaluationsOnDisk`), and no directory on disk is better
  as long as all evaluations read one direction (`BestInOneDirection`);
* a second run in a workspace is stopped by the frozen folds, but only after
  `data_analyst` and `problem_framer` have overwritten the reports of the first one
  and `notebooks/01_eda.ipynb`, which `data_analyst` writes together with its report
  (one file, `Eda`, in `Artifacts`: nothing reads the notebook).  If
  the first run waits at a checkpoint it goes on with those, the metric and with it
  the direction of the score included.  `FoldsGuardWorkspace` and `NoStaleReads` except
  exactly these two files and that author;
* a critic that has an earlier node run again does not run the nodes behind it again: a
  feature spec may be of the plan before the rerun.  `NoStaleReads` asks that the
  critic's record names the rerun.  The record is written last (`analysis_critic.py:383`):
  a critic that fails after a rerun leaves a replaced file and no record, and the property
  allows that case by name (`Unrecorded`).  Such a run has failed and is not resumed;
* `reviewer` looks for `src/features.py`, `src/models.py` and `src/train.py`
  (`_delivery_common.py:111`), which no node writes: it reviews them as missing.  They are
  among the files it reads (`SourceFiles`), and `NoStaleReads` speaks of the others;
* an evaluation may find no score (`score_evaluator.py:223-229`), the first one too: a run
  may come to delivery with `best_experiment_path` empty;
* `blocks_progression` of the leakage audit and `experiment_plan_{i}.json` are written
  and read by no code;
* `docs/pipeline.md:1659` says the JSONL handler is "Not wired up yet"; `runs.py:196`
  and `310` do it.

What the properties do not catch, because the code does it: the record that a lost status
write or a raising `create_run` leaves for good, the stream of such a run, a shared
sentinel, a file from an escaped process, an upload done twice.  Each is a step of its
model; the `hazards` list of `PROJECT.json` names no property for them and says why.

About replies:

* a step one unit larger than the range is refused for small ranges and accepted
  for integer ranges of 10^9 and more, because the tolerance is relative
  (`_STEP_RANGE_TOLERANCE`); the parameter is then a constant.  A categorical
  with one choice is one as well.  `DesignIsSamplable` excepts both;
* an ensemble needs a different OOF file from every experiment.  If two `results.json`
  name the same one, every later ensemble design is refused and the run fails;
* that the folds of `fold_config.json` cover the data, or do not overlap, is not asked.

About memory:

* a run that fails in phase 2 leaves its documents, the next run indexes the same
  sources again under new ids, and a consolidation never deletes what it
  absorbs: texts that quote texts grow with every run of a competition.

## 6. Proofs

`tlapm` checks every theorem to the last leaf.  The only assumptions are the
named ones on the constants.

* **`RunLifecycleProofs`**, for any number of runs, tasks, connections and
  restarts.  `IInv` strengthens the checked invariants by what makes them
  inductive: a request past its first step knows a run that has a record
  (`RequestHasRun`; without it `do_resume` could set going a run nobody
  created), a task that has not written "running" yet resumes a settled record
  (`ResumingIsSettled`; needed for the refinement and for the record of a task whose
  `update_state` fails), and a task that reads the snapshot has a checkpoint.  The
  key step is that `_has_active_run` sees every live task
  (`LiveTaskRegistered`), so that a new task is only spawned when there is none.
  From `IInv` follow the safety invariants and `LifecycleRefinement`
  (`Spec => ImplementsRunStatus`), where each action maps to a step of
  `RunStatus` or to a stutter.
  `GraphBuildsBounded` has an argument of its own, `BuildsAccounted`: until the first
  graph of a run is cached, every build is a handler that is about to store it; from
  then on no lookup misses, and what may still be built is in the hands of handlers
  that missed before.  Either way builds are counted against distinct connections.
* **`PipelineProofs`**, for every score range, patience and retry budget.  `IInv`
  adds that the score fields are untouched before the loop, that the directories
  in the index exist, and that an iteration starts only with patience left.  No bound is
  put on how often `problem_definition.json` changes.
  `BestIsOnDisk` needs `IndexFollowsIterations`: a rerun by the critic rewrites the
  directory of the current iteration only, which has not been scored yet, so what
  has been scored stays as it was.
* **`CriticLoopProofs`**, for any set of targets and any integer budget.  The
  pigeonhole argument in the comment above `max_total_cycles` is made exact: the
  granted retries form a subset of `Targets \X 0..(max_retries - 1)`, every
  completed cycle has been paid for with one of them, so the cycle number stays
  below `(max_retries + 1) * |Targets|`.

* **`CoderProofs`**, for any two retry budgets and any number of escaped processes.
  `AcceptedIsOneRun` needs `ArtifactsAreFresh`: before the script starts the three
  contract files are gone, and when it is validated each is its own or missing.
  `ExecutionsBounded` is inductive with the type invariant; its arithmetic step is
  that a rerun pays for all the attempts of the call before it.
* **`KaggleSubmitProofs`**, for any runs, connections and bounds.  `IInv` says of
  each request and each node what it may upload and whose submission it reports
  (`GoodRequest`, `GoodArtifact`).  `SubmissionsGrow` is the frame: these facts
  survive every upload, because submissions are only appended, and every new best
  experiment, because `bests` only grows.  `GuardMatchesRequests` needs nothing
  else: `LetsGo` uses that no second request is in flight for the run it releases.

* **`ArtifactsProofs`**, for any number of runs in a workspace, any patience, any
  number of reruns.  `FoldsGuardWorkspace` is inductive once it is known where a run
  may be without having frozen the folds: in one of the first three nodes of
  phase 1 (`Early`), or else it is the one that froze them (`Froze`).  That a run
  passes `validation_strategist` on the way needs the graph: phase 1 is a chain
  (`Chained`, from `Phase1Edges`, which computes the edges of the YAML), so its superstep
  is one node.  Every later node then goes by one lemma, `LateNode`.

  `NoStaleReads`, `IterationsDoNotMix` and `PastIterationsAreFinal` need to know, at
  every node, what a run's state says and what is on disk: the files are named in
  different ways (a path field, the iteration counter, the last index entry, a file
  that must exist), and the properties hold because the ways agree.  `TraceInv` says so
  place by place.  A run is at one of 25 `Places`, the 24 `Stations` in the order the edges
  of the seven YAML files give, and the end (`AtPlace`); there `LabAt` gives each path field and the length
  of the index, and `FilesAt` says which files exist: exactly those of the stations
  behind it and of the iterations before it.  `ReadsTraced` strengthens `NoStaleReads`
  by what makes it last: versions read are versions written, and a critic at work, or failed
  at it, has no record yet that could contradict (`NoRecordYet`); if it ends, its record
  names the nodes it ran again.  Each node has one lemma that follows
  it from its station to the next.
* **`RepliesProofs`, `Memory`**, for any finite sets of sources, any number of runs and
  any length of a query.  Two facts carry it: an answer that covers the sources has an
  extraction of each, so the documents are each about their own source
  (`DocumentsMatchSources`); and a cluster contains its canonical member (`MinIn`, by
  well-foundedness), so what it quoted is among what the merged document quotes.
* **`RepliesProofs`, `Contracts`**, for any replies whatsoever, any families and limits.
  The core is the arithmetic of `StepFits`: a step that passes the tolerance leaves two
  points, unless the range is at least `Slack` units.  `EnsembleReadsEachExperiment`
  needs `IndexGrows`: the index has one entry per iteration whose coder has run.
  `RankedInOrder` is about the nodes' sort by rank, which is stable: `Ranked` says
  it without recursion, an entry's place is the number of entries that run before it
  (`RunsBefore`: a lower rank, or the same rank and earlier in the reply).  Places are
  different and below the length, hence a permutation, and the check that the ranks are
  1..n makes rank and place the same.
* **`ObserversProofs`, `EventStream`**, for any limit, any number of events, segments
  and clients.  `StreamInv` counts: what the loop has yet to run are the newest events in
  order, with the result of `graph.invoke` behind them (`CallsInOrder`), so the numbers
  put so far are known (`PutSoFar`) and a queue's contents follow from its length alone;
  and what a connection saw last lies before whatever its queue still holds
  (`ReaderIsBehind`), which gives `DeliveredInOrder` for each step.
* **`ObserversProofs`, `Observability`**, for any plan of phases and any usages.
  `HandlerForgets` rests on LangGraph's side, `GraphInv`: chain runs nest
  (`OpenBelow`), and a phase goes forward (`GoesForward`, from the edges
  `PhaseGraph` builds), so no node begins twice in a phase and a run id is fresh when
  its hook is called.  `Remembers` adds what the four tables hold.  `Traced` relates the
  log to that: each record is about a chain run that has begun, each end about one that
  is over, with the `Total` of the usages reported to it, which the handler had summed
  up one by one (`SumOptional` adds the cardinalities of disjoint sets).
  `SpansPair` and `TokensAddUp` hold over any number of iterations, because a record
  carries the iteration of its state and that tells the passes of a phase apart.
  `IterationIsCounted` says that `current_iteration` is the number of phases 6 behind, so
  what begins is stamped with the iteration of its place in the plan; and on a plan that
  follows the edges of the pipeline (`PlanAssumption`) two places of one phase lie in
  different iterations, because a phase comes again only behind a phase 6
  (`PlanGoesForward`, by a least counterexample).

The assumptions are the bounds being numbers and the kinds of value apart
(`NoRun` is no run), with these that say something about the system: there is a
connection (`ConnsAssumption`: else nobody asks for a graph), the sources of a run and
the connections are finitely many, replies have the types their parsers let through
(`DesignsAssumption`, `PlansAssumption`), critic budgets are integers, negative ones
included, and the plan of `Observability` follows the pipeline's edges.

Every safety property of a passing run is stated by a theorem, action properties and the
refinement included.  Only model-checked are the liveness properties
(`EverythingSettles`, `UnsharedStreamCloses`, `EventuallyRests`, `Concludes`,
`SubmissionsEnd`): the prover has no fairness or `ENABLED`.

## 7. Not modelled

What could be added, and what it would take:

* `Coder` as an implementation of the step `Pipeline` takes for phase 5
  (`INSTANCE ... WITH`): both are checked, the map between them is not;
* the pairing of events in `event_emitter.py` has the shape of the log handler's, which
  `Observability` models; it is not modelled a second time.

Not modelled, and why:

* the embedding model, similarity scores and `where` filters of the store: `Memory` lets
  a query return any documents in any order, and nothing in the pipeline filters;
* configuration, prompts and the LLM factory: loaded once, sequential, no state
  that changes;
* read-only routers (`experiments`, `files`, `mlflow`): they change nothing;
* the frontend: a client of the API; what it can do to the server is any sequence
  of requests, which the models already contain;
* the text of prompts and reports, the budget that truncates what a prompt quotes, and
  the training scripts: an LLM writes them, so the models let them do anything their
  reader can tell apart;
* the keyword lists of `feature_engineer`, `specialist_selector` and the specialists:
  they are data (`FittedAs`, `Families`, the signals of a reply), the models contain what
  is done with a match;
* a restart in `KaggleSubmit`: `active_submissions` is lost together with the
  requests it guards, what Kaggle has is kept, and a run that a crash stopped in
  phase 7 cannot be resumed (section 5), so its node does not run again: what is
  left is what failed requests and a failed node leave.
