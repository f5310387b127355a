---------------------------- MODULE RunLifecycle ----------------------------
(***************************************************************************)
(* The run lifecycle of the API server: src/api/routers/runs.py, the       *)
(* on-disk registry src/api/registry.py, the session prologue of the chat  *)
(* WebSocket (src/api/routers/chat.py) and the in-memory tables made by    *)
(* create_app (src/api/main.py).                                           *)
(*                                                                         *)
(* One event loop runs the request handlers and the background tasks; a    *)
(* handler gives the loop away only at an `await`, so each action below is *)
(* one await-free stretch of the loop, or one stretch of a worker thread   *)
(* started with asyncio.to_thread.  Worker threads interleave with the     *)
(* loop and with each other.  The process can be killed at any point and   *)
(* restarted: the files under runs/ survive, app.state does not.           *)
(***************************************************************************)
EXTENDS Naturals, FiniteSets

CONSTANTS
    Runs,        \* run ids that uuid4 can hand out
    Tasks,       \* asyncio task objects
    Conns,       \* request handlers / WebSocket sessions in flight
    NoRun,       \* "no run id"
    NoTask,      \* "no task registered"
    MaxCrashes,  \* bound on process restarts
    DiskFaults   \* TRUE: a registry write may raise

ASSUME RunsAssumption == NoRun \notin Runs
ASSUME TasksAssumption == NoTask \notin Tasks
ASSUME ConnsAssumption == IsFiniteSet(Conns) /\ Conns # {}
ASSUME BoundsAssumption == MaxCrashes \in Nat /\ DiskFaults \in BOOLEAN

VARIABLES
    record,       \* status field of runs/{run_id}/run.json; "none": no file
    ckpt,         \* the LangGraph checkpoint of the run, by its `next`
    active_runs,  \* app.state.active_runs
    driven,       \* the run an asyncio task drives
    stage,        \* how far the task is
    graph_cache,  \* app.state.graph_cache: number of the cached graph, or 0
    builds,       \* graphs (sqlite connections) opened since process start
    req,          \* the request handlers
    crashes,      \* process restarts so far
    orphans       \* history: runs whose driver vanished without a status write

vars == <<record, ckpt, active_runs, driven, stage, graph_cache, builds, req,
          crashes, orphans>>

-----------------------------------------------------------------------------
(* State spaces                                                            *)

Statuses == {"pending", "running", "interrupted", "completed", "failed"}

\* snapshot.next is non-empty exactly in "paused" (also mid-execution).
Checkpoints == {"empty", "paused", "end"}

\* "resuming": awaiting update_state; "starting": about to enter
\* _run_and_track's try; "invoking": awaiting graph.invoke; "snapshot":
\* awaiting graph.get_state; "done": task.done(), or no task.
LiveStages == {"resuming", "starting", "invoking", "snapshot"}
Stages == LiveStages \cup {"done"}

Ops == {"none", "resume", "read", "chat"}

\* "reading": read_run_record in a worker; "lookup": about to test
\* `run_id not in cache`; "building": the test missed; "storing": the factory
\* returned; "values": graph.get_state; "reread": chat's second record read;
\* "frame": chat's state_reader; "checking": do_resume back on the loop.
Pcs == {"idle", "reading", "lookup", "building", "storing", "values",
        "reread", "frame", "checking"}

\* `seen` is do_resume's copy of the record; the copies that only feed a
\* response are not kept.
Requests == [op: Ops, pc: Pcs, run: Runs \cup {NoRun},
             seen: Statuses \cup {"none"}, todo: SUBSET Runs]

Request(op, pc, r, s, todo) ==
    [op |-> op, pc |-> pc, run |-> r, seen |-> s, todo |-> todo]

Idle == Request("none", "idle", NoRun, "none", {})

TypeOK ==
    /\ record \in [Runs -> Statuses \cup {"none"}]
    /\ ckpt \in [Runs -> Checkpoints]
    /\ active_runs \in [Runs -> Tasks \cup {NoTask}]
    /\ driven \in [Tasks -> Runs \cup {NoRun}]
    /\ stage \in [Tasks -> Stages]
    /\ graph_cache \in [Runs -> Nat]
    /\ builds \in [Runs -> Nat]
    /\ req \in [Conns -> Requests]
    /\ crashes \in 0..MaxCrashes
    /\ orphans \in SUBSET Runs

-----------------------------------------------------------------------------
(* Shared operators                                                        *)

Live(t) == stage[t] \in LiveStages

\* Mutant: only a task inside graph.invoke counts as active.
HasInvokingRun ==
    \E r \in Runs : active_runs[r] # NoTask /\ stage[active_runs[r]] = "invoking"

\* Mutant: task.done() is not asked.
HasRegisteredRun == \E r \in Runs : active_runs[r] # NoTask

\* _has_active_run: some registered task is not .done().
HasActiveRun ==
    \E r \in Runs : active_runs[r] # NoTask /\ Live(active_runs[r])

\* registry.update_run_status: the status is replaced atomically.
SetStatus(r, s) == record' = [record EXCEPT ![r] = s]

\* Mutant: the task is scheduled and never registered.
SpawnUnregistered(t, r, s) ==
    /\ ~Live(t)
    /\ \A q \in Runs : active_runs[q] # t
    /\ driven' = [driven EXCEPT ![t] = r]
    /\ stage' = [stage EXCEPT ![t] = s]
    /\ UNCHANGED active_runs

\* asyncio.create_task followed, without an await, by the registration.  A
\* finished task that active_runs no longer holds is garbage: its id is reused.
Spawn(t, r, s) ==
    /\ ~Live(t)
    /\ \A q \in Runs : active_runs[q] # t
    /\ driven' = [driven EXCEPT ![t] = r]
    /\ stage' = [stage EXCEPT ![t] = s]
    /\ active_runs' = [active_runs EXCEPT ![r] = t]

SetStage(t, s) ==
    /\ stage' = [stage EXCEPT ![t] = s]
    /\ UNCHANGED driven

Reply(c) == req' = [req EXCEPT ![c] = Idle]

Goto(c, pc) ==
    req' = [req EXCEPT ![c] = Request(@.op, pc, @.run, @.seen, @.todo)]

-----------------------------------------------------------------------------
(* The process                                                             *)

Init ==
    /\ record = [r \in Runs |-> "none"]
    /\ ckpt = [r \in Runs |-> "empty"]
    /\ active_runs = [r \in Runs |-> NoTask]
    /\ driven = [t \in Tasks |-> NoRun]
    /\ stage = [t \in Tasks |-> "done"]
    /\ graph_cache = [r \in Runs |-> 0]
    /\ builds = [r \in Runs |-> 0]
    /\ req = [c \in Conns |-> Idle]
    /\ crashes = 0
    /\ orphans = {}

\* The process is killed and started again: create_app makes empty tables,
\* no task or handler survives, and nothing reconciles the registry.
Crash ==
    /\ crashes < MaxCrashes
    /\ crashes' = crashes + 1
    /\ active_runs' = [r \in Runs |-> NoTask]
    /\ driven' = [t \in Tasks |-> NoRun]
    /\ stage' = [t \in Tasks |-> "done"]
    /\ graph_cache' = [r \in Runs |-> 0]
    /\ builds' = [r \in Runs |-> 0]
    /\ req' = [c \in Conns |-> Idle]
    /\ orphans' = orphans \cup {driven[t] : t \in {u \in Tasks : Live(u)}}
    /\ UNCHANGED <<record, ckpt>>

-----------------------------------------------------------------------------
(* POST /api/runs: create_run has no await, so it is one step.             *)

CreateRun(r, t) ==
    /\ ~HasActiveRun
    /\ record[r] = "none"
    /\ SetStatus(r, "pending")
    /\ graph_cache' = [graph_cache EXCEPT ![r] = 1]
    /\ builds' = [builds EXCEPT ![r] = 1]
    /\ Spawn(t, r, "starting")
    /\ UNCHANGED <<ckpt, req, crashes, orphans>>

\* The graph factory raises after the record was written: HTTP 500, and the
\* record stays "pending" with nothing to drive it.
CreateRunBuildFails(r) ==
    /\ ~HasActiveRun
    /\ record[r] = "none"
    /\ SetStatus(r, "pending")
    /\ orphans' = orphans \cup {r}
    /\ UNCHANGED <<ckpt, active_runs, driven, stage, graph_cache, builds, req, crashes>>

-----------------------------------------------------------------------------
(* Requests that look a graph up: GET /api/runs, GET /api/runs/{id}, the   *)
(* chat session prologue, and do_resume.                                   *)

\* get_run reads the record on the loop; list_runs reads all of them.
ReadCall(c, S) ==
    /\ req[c].pc = "idle"
    /\ \E r \in S :
         req' = [req EXCEPT ![c] = Request("read", "lookup", r, "none", S \ {r})]
    /\ UNCHANGED <<record, ckpt, active_runs, driven, stage, graph_cache, builds,
                   crashes, orphans>>

GetRun(c) == \E r \in Runs : record[r] # "none" /\ ReadCall(c, {r})

ListRuns(c) == ReadCall(c, {r \in Runs : record[r] # "none"})

\* do_resume and chat first read the record in a worker thread.
ResumeCall(c, op) ==
    /\ req[c].pc = "idle"
    /\ \E r \in Runs :
         req' = [req EXCEPT ![c] = Request(op, "reading", r, "none", {})]
    /\ UNCHANGED <<record, ckpt, active_runs, driven, stage, graph_cache, builds,
                   crashes, orphans>>

\* Mutant: a missing record leaves the request without an answer.
ReadRecordUnanswered(c) ==
    /\ req[c].pc = "reading"
    /\ record[req[c].run] # "none"
    /\ req' = [req EXCEPT ![c] = Request(@.op, "lookup", @.run, record[@.run], {})]
    /\ UNCHANGED <<record, ckpt, active_runs, driven, stage, graph_cache, builds,
                   crashes, orphans>>

\* registry.read_run_record; RunNotFoundError ends the request (404).
ReadRecord(c) ==
    /\ req[c].pc = "reading"
    /\ IF record[req[c].run] = "none"
       THEN Reply(c)
       ELSE LET seen == IF req[c].op = "resume" THEN record[req[c].run]
                        ELSE "none"
            IN  req' = [req EXCEPT ![c] = Request(@.op, "lookup", @.run, seen, {})]
    /\ UNCHANGED <<record, ckpt, active_runs, driven, stage, graph_cache, builds,
                   crashes, orphans>>

AfterLookup(c) ==
    IF req[c].op = "resume" THEN "checking"
    ELSE IF req[c].op = "chat" THEN "reread" ELSE "values"

\* _get_or_build_graph in a worker thread: test, build, store are three steps
\* that other threads may interleave with.
LookupGraph(c) ==
    /\ req[c].pc = "lookup"
    /\ Goto(c, IF graph_cache[req[c].run] = 0 THEN "building"
               ELSE AfterLookup(c))
    /\ UNCHANGED <<record, ckpt, active_runs, driven, stage, graph_cache, builds,
                   crashes, orphans>>

BuildGraph(c) ==
    /\ req[c].pc = "building"
    /\ builds' = [builds EXCEPT ![req[c].run] = @ + 1]
    /\ Goto(c, "storing")
    /\ UNCHANGED <<record, ckpt, active_runs, driven, stage, graph_cache, crashes,
                   orphans>>

\* graph_factory raises: HTTP 500 or a closed socket.
BuildGraphFails(c) ==
    /\ req[c].pc = "building"
    /\ Reply(c)
    /\ UNCHANGED <<record, ckpt, active_runs, driven, stage, graph_cache, builds,
                   crashes, orphans>>

\* Mutant: the graph is returned without being cached.
StoreGraphForgotten(c) ==
    /\ req[c].pc = "storing"
    /\ Goto(c, AfterLookup(c))
    /\ UNCHANGED <<record, ckpt, active_runs, driven, stage, graph_cache, builds,
                   crashes, orphans>>

\* `cache[run_id] = ...` by the thread that built; the last writer wins.
StoreGraph(c) ==
    /\ req[c].pc = "storing"
    /\ graph_cache' = [graph_cache EXCEPT ![req[c].run] = builds[req[c].run]]
    /\ Goto(c, AfterLookup(c))
    /\ UNCHANGED <<record, ckpt, active_runs, driven, stage, builds, crashes, orphans>>

\* _live_values, then the next record of list_runs or the response.
ReadValues(c) ==
    /\ req[c].pc = "values"
    /\ \/ /\ req[c].todo = {}
          /\ Reply(c)
       \/ \E r \in req[c].todo :
            req' = [req EXCEPT ![c] = Request(@.op, "lookup", r, @.seen,
                                              @.todo \ {r})]
    /\ UNCHANGED <<record, ckpt, active_runs, driven, stage, graph_cache, builds,
                   crashes, orphans>>

\* chat re-reads the record before it decides on the checkpoint frame.
ChatReread(c) ==
    /\ req[c].pc = "reread"
    /\ IF record[req[c].run] = "interrupted"
       THEN Goto(c, "frame")
       ELSE Reply(c)
    /\ UNCHANGED <<record, ckpt, active_runs, driven, stage, graph_cache, builds,
                   crashes, orphans>>

\* The checkpoint frame is sent; the session's later approve/redirect frames
\* are do_resume calls of the same connection.
ChatFrame(c) ==
    /\ req[c].pc = "frame"
    /\ Reply(c)
    /\ UNCHANGED <<record, ckpt, active_runs, driven, stage, graph_cache, builds,
                   crashes, orphans>>

-----------------------------------------------------------------------------
(* The await-free tail of do_resume                                        *)

\* 409: another run is active, or the record read earlier was not interrupted.
ResumeRefused(c) ==
    /\ req[c].pc = "checking"
    /\ HasActiveRun \/ req[c].seen # "interrupted"
    /\ Reply(c)
    /\ UNCHANGED <<record, ckpt, active_runs, driven, stage, graph_cache, builds,
                   crashes, orphans>>

\* Mutant: the zero-await check for another active run is gone.
ResumeAcceptedUnchecked(c, t) ==
    /\ req[c].pc = "checking"
    /\ req[c].seen = "interrupted"
    /\ Spawn(t, req[c].run, "resuming")
    /\ Reply(c)
    /\ UNCHANGED <<record, ckpt, graph_cache, builds, crashes, orphans>>

ResumeAccepted(c, t) ==
    /\ req[c].pc = "checking"
    /\ ~HasActiveRun
    /\ req[c].seen = "interrupted"
    /\ Spawn(t, req[c].run, "resuming")
    /\ Reply(c)
    /\ UNCHANGED <<record, ckpt, graph_cache, builds, crashes, orphans>>

-----------------------------------------------------------------------------
(* The background task: _resume_and_track and _run_and_track               *)

\* update_state writes human_feedback; it does not move the checkpoint.
UpdateState(t) ==
    /\ stage[t] = "resuming"
    /\ SetStage(t, "starting")
    /\ UNCHANGED <<record, ckpt, active_runs, graph_cache, builds, req,
                   crashes, orphans>>

\* update_state raises outside any try: the task dies, the status stays.
UpdateStateRaises(t) ==
    /\ stage[t] = "resuming"
    /\ SetStage(t, "done")
    /\ UNCHANGED <<record, ckpt, active_runs, graph_cache, builds, req,
                   crashes, orphans>>

\* Mutant: the graph runs under the old status.
InvokeUnmarked(t) ==
    /\ stage[t] = "starting"
    /\ SetStage(t, "invoking")
    /\ UNCHANGED <<record, ckpt, active_runs, graph_cache, builds, req, crashes,
                   orphans>>

MarkRunning(t) ==
    /\ stage[t] = "starting"
    /\ SetStatus(driven[t], "running")
    /\ SetStage(t, "invoking")
    /\ UNCHANGED <<ckpt, active_runs, graph_cache, builds, req, crashes,
                   orphans>>

\* Mutant: the exception is logged and the status is left alone.
FailRunSilently(t) ==
    /\ SetStage(t, "done")
    /\ UNCHANGED <<record, active_runs, graph_cache, builds, req, crashes, orphans>>

\* The except and finally blocks: the "failed" write may raise in its turn.
FailRun(t) ==
    /\ SetStage(t, "done")
    /\ \/ /\ SetStatus(driven[t], "failed")
          /\ UNCHANGED orphans
       \/ /\ DiskFaults
          /\ orphans' = orphans \cup {driven[t]}
          /\ UNCHANGED record
    /\ UNCHANGED <<active_runs, graph_cache, builds, req, crashes>>

MarkRunningFails(t) ==
    /\ DiskFaults
    /\ stage[t] = "starting"
    /\ FailRun(t)
    /\ UNCHANGED ckpt

\* The worker thread saves the checkpoint of one superstep.
GraphStep(t) ==
    /\ stage[t] = "invoking"
    /\ ckpt[driven[t]] = "empty"
    /\ ckpt' = [ckpt EXCEPT ![driven[t]] = "paused"]
    /\ UNCHANGED <<record, active_runs, driven, stage, graph_cache, builds, req,
                   crashes, orphans>>

\* invoke returns at an interrupt or at END; on a finished thread it returns
\* at once and leaves the checkpoint alone.
InvokeReturns(t) ==
    /\ stage[t] = "invoking"
    /\ \E k \in {"paused", "end"} :
         /\ ckpt[driven[t]] = "end" => k = "end"
         /\ ckpt' = [ckpt EXCEPT ![driven[t]] = k]
    /\ SetStage(t, "snapshot")
    /\ UNCHANGED <<record, active_runs, graph_cache, builds, req, crashes,
                   orphans>>

\* A node raised; the last saved checkpoint stays.
InvokeRaises(t) ==
    /\ stage[t] = "invoking"
    /\ FailRun(t)
    /\ UNCHANGED ckpt

\* Mutant: snapshot.next is not looked at.
SnapshotCompletes(t) ==
    /\ stage[t] = "snapshot"
    /\ SetStatus(driven[t], "completed")
    /\ SetStage(t, "done")
    /\ UNCHANGED <<ckpt, active_runs, graph_cache, builds, req, crashes,
                   orphans>>

\* "interrupted" if snapshot.next else "completed".
SnapshotReturns(t) ==
    /\ stage[t] = "snapshot"
    /\ SetStatus(driven[t], IF ckpt[driven[t]] = "paused"
                              THEN "interrupted" ELSE "completed")
    /\ SetStage(t, "done")
    /\ UNCHANGED <<ckpt, active_runs, graph_cache, builds, req, crashes,
                   orphans>>

\* get_state raises, or the final status write does.
SnapshotRaises(t) ==
    /\ stage[t] = "snapshot"
    /\ FailRun(t)
    /\ UNCHANGED ckpt

-----------------------------------------------------------------------------
TaskStep(t) ==
    \/ UpdateState(t) \/ UpdateStateRaises(t)
    \/ MarkRunning(t) \/ MarkRunningFails(t)
    \/ GraphStep(t) \/ InvokeReturns(t) \/ InvokeRaises(t)
    \/ SnapshotReturns(t) \/ SnapshotRaises(t)

RequestStep(c) ==
    \/ ReadRecord(c) \/ LookupGraph(c) \/ BuildGraph(c) \/ BuildGraphFails(c)
    \/ StoreGraph(c) \/ ReadValues(c) \/ ChatReread(c) \/ ChatFrame(c)
    \/ ResumeRefused(c) \/ \E t \in Tasks : ResumeAccepted(c, t)

RequestCall(c) ==
    \/ GetRun(c) \/ ListRuns(c)
    \/ \E op \in {"resume", "chat"} : ResumeCall(c, op)

Next ==
    \/ Crash
    \/ \E r \in Runs : CreateRunBuildFails(r) \/ \E t \in Tasks : CreateRun(r, t)
    \/ \E c \in Conns : RequestCall(c) \/ RequestStep(c)
    \/ \E t \in Tasks : TaskStep(t)

Spec == Init /\ [][Next]_vars

\* The event loop and the worker threads keep running what is ready, and
\* graph.invoke returns or raises: design.md sets no deadline for a run, so
\* that it ends at all is an assumption.
FairSpec ==
    /\ Spec
    /\ \A t \in Tasks : WF_vars(TaskStep(t))
    /\ \A c \in Conns : WF_vars(RequestStep(c))

-----------------------------------------------------------------------------
(* Properties                                                              *)

SingleDriver ==
    \A t, u \in Tasks : Live(t) /\ Live(u) => t = u

LiveTaskRegistered ==
    \A t \in Tasks :
        Live(t) => driven[t] \in Runs /\ active_runs[driven[t]] = t

\* Two live background tasks never exist at once, whatever create_run and
\* do_resume calls overlap (design.md: "single active run at a time"), and a
\* live task is the one active_runs holds for its run, so _has_active_run
\* cannot miss it.
OneRegisteredDriver == SingleDriver /\ LiveTaskRegistered

\* From the "running" write to the final write no one else touches the
\* record of the run that is being executed.
ExecutingIsRunning ==
    \A t \in Tasks :
        stage[t] \in {"invoking", "snapshot"}
            => record[driven[t]] = "running"

\* A record that says "pending" or "running" has a task behind it that will
\* replace the status, unless the process died, the graph could not be built
\* or the status write itself was lost.
StatusHasDriver ==
    \A r \in Runs \ orphans :
        record[r] \in {"pending", "running"}
            => \E t \in Tasks : Live(t) /\ driven[t] = r

\* The registry never contradicts the checkpoint: "interrupted" means that
\* the graph has a next node to run, "completed" that it has none.
RegistryAgreesWithCheckpoint ==
    \A r \in Runs :
        /\ record[r] = "interrupted" => ckpt[r] = "paused"
        /\ record[r] = "completed" => ckpt[r] = "end"

\* A request past its first step knows its run, and past "reading" the run
\* has a record.
ValidRequest(q) ==
    /\ q.pc # "idle" => q.run \in Runs
    /\ q.pc \notin {"idle", "reading"} => record[q.run] # "none"
    /\ \A r \in q.todo : record[r] # "none"

RequestHasRun == \A c \in Conns : ValidRequest(req[c])

\* A task that has not yet written "running" resumes a settled run.
ResumingIsSettled ==
    \A t \in Tasks :
        stage[t] = "resuming" /\ driven[t] \notin orphans
            => record[driven[t]] \notin {"pending", "running"}

\* A task that awaits the snapshot has a checkpoint to read.
SnapshotHasCheckpoint ==
    \A t \in Tasks :
        stage[t] = "snapshot" => ckpt[driven[t]] # "empty"

\* The inductive invariant of the lifecycle.
IInv ==
    /\ TypeOK
    /\ SingleDriver
    /\ LiveTaskRegistered
    /\ ExecutingIsRunning
    /\ StatusHasDriver
    /\ RegistryAgreesWithCheckpoint
    /\ ResumingIsSettled
    /\ RequestHasRun
    /\ SnapshotHasCheckpoint

\* Racing cache misses open at most one graph (one sqlite connection) per
\* concurrent request for a run, never one per request.
GraphBuildsBounded ==
    \A r \in Runs : builds[r] <= Cardinality(Conns)

\* Why: until the first graph is cached, every builder is still about to store;
\* from then on no lookup misses, and only those that missed earlier build.
Handlers(r, pc) == {c \in Conns : req[c].run = r /\ req[c].pc = pc}

BuildsAccounted ==
    \A r \in Runs :
        /\ graph_cache[r] <= builds[r]
        /\ graph_cache[r] = 0 => builds[r] = Cardinality(Handlers(r, "storing"))
        /\ graph_cache[r] # 0 =>
             builds[r] + Cardinality(Handlers(r, "building")) <= Cardinality(Conns)

\* A record is written only while its own run is being driven, and a settled
\* status is reached only from "running" (the abstract lifecycle).
Driver ==
    IF \E t \in Tasks : Live(t)
    THEN driven[CHOOSE t \in Tasks : Live(t)]
    ELSE NoRun

Lifecycle == INSTANCE RunStatus WITH driver <- Driver

ImplementsRunStatus == Lifecycle!Spec

Settles(r) ==
    record[r] \in {"pending", "running"}
        ~> (record[r] \in {"interrupted", "completed", "failed"} \/ r \in orphans)

\* Nothing hangs: every execution ends and leaves the server free for another
\* run, a run that is pending or running settles unless its driver was lost,
\* and every request is answered, no handler waiting on another one.
EverythingSettles ==
    /\ []<>(~HasActiveRun)
    /\ \A r \in Runs : Settles(r)
    /\ \A c \in Conns : []<>(req[c].pc = "idle")

\* docs/api.md:34-35: a resume of a run that is not currently interrupted is
\* answered 409, so an accepted resume finds the record "interrupted".
ResumeOnlyWhenInterrupted ==
    [][\A c \in Conns, t \in Tasks :
          ResumeAccepted(c, t) => record[req[c].run] = "interrupted"]_vars
=============================================================================
