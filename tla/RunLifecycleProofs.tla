------------------------- MODULE RunLifecycleProofs -------------------------
(***************************************************************************)
(* Proofs about RunLifecycle for any number of runs, tasks, connections    *)
(* and restarts.                                                           *)
(***************************************************************************)
EXTENDS RunLifecycle, FiniteSetTheorems, TLAPS

\* A request step that only moves its own handler: everything else stays.
RequestOnly(c) ==
    /\ \E q \in Requests : req' = [req EXCEPT ![c] = q] /\ ValidRequest(q)
    /\ UNCHANGED <<record, ckpt, active_runs, driven, stage, crashes, orphans>>
    /\ graph_cache' \in [Runs -> Nat]
    /\ builds' \in [Runs -> Nat]

LEMMA IdleType == Idle \in Requests
  BY DEF Idle, Request, Requests, Ops, Pcs

\* How a request step is recognised as one.
LEMMA RequestOnlyIntro ==
  ASSUME TypeOK, NEW c \in Conns, NEW q \in Requests, ValidRequest(q),
         req' = [req EXCEPT ![c] = q],
         UNCHANGED <<record, ckpt, active_runs, driven, stage, crashes, orphans>>,
         graph_cache' \in [Runs -> Nat], builds' \in [Runs -> Nat]
  PROVE  RequestOnly(c)
  BY Zenon DEF RequestOnly

LEMMA IdleIsValid == ValidRequest(Idle)
  BY DEF ValidRequest, Idle, Request

LEMMA CallSteps ==
  ASSUME TypeOK, NEW c \in Conns, RequestCall(c)
  PROVE  RequestOnly(c)
<1>1. ASSUME NEW S \in SUBSET Runs, \A r \in S : record[r] # "none", ReadCall(c, S)
      PROVE  RequestOnly(c)
  <2>1. PICK r \in S :
          req' = [req EXCEPT ![c] = Request("read", "lookup", r, "none", S \ {r})]
    BY <1>1 DEF ReadCall
  <2> DEFINE q == Request("read", "lookup", r, "none", S \ {r})
  <2>2. q \in Requests
    BY DEF Request, Requests, Ops, Pcs
  <2>3. ValidRequest(q)
    BY <1>1 DEF ValidRequest, Request
  <2>. QED
    BY <1>1, <2>1, <2>2, <2>3, RequestOnlyIntro DEF ReadCall, TypeOK
<1>2. CASE GetRun(c)
  BY <1>1, <1>2 DEF GetRun
<1>3. CASE ListRuns(c)
  BY <1>1, <1>3 DEF ListRuns
<1>4. ASSUME NEW op \in {"resume", "chat"}, ResumeCall(c, op)
      PROVE  RequestOnly(c)
  <2>1. PICK r \in Runs :
          req' = [req EXCEPT ![c] = Request(op, "reading", r, "none", {})]
    BY <1>4 DEF ResumeCall
  <2> DEFINE q == Request(op, "reading", r, "none", {})
  <2>2. q \in Requests /\ ValidRequest(q)
    BY DEF Request, Requests, Ops, Pcs, ValidRequest
  <2>. QED
    BY <1>4, <2>1, <2>2, RequestOnlyIntro DEF ResumeCall, TypeOK
<1>. QED
  BY <1>2, <1>3, <1>4 DEF RequestCall

\* Going to another pc keeps the other fields of a request that has a record.
LEMMA GotoIsValid ==
  ASSUME TypeOK, RequestHasRun, NEW c \in Conns, NEW pc \in Pcs,
         req[c].pc \notin {"idle", "reading"}
  PROVE  LET q == Request(req[c].op, pc, req[c].run, req[c].seen, req[c].todo)
         IN  q \in Requests /\ ValidRequest(q)
<1>1. req[c] \in Requests /\ ValidRequest(req[c])
  BY DEF TypeOK, RequestHasRun
<1>. QED
  BY <1>1 DEF ValidRequest, Request, Requests

LEMMA RequestSteps ==
  ASSUME TypeOK, RequestHasRun, NEW c \in Conns,
         \/ RequestCall(c) \/ ReadRecord(c) \/ LookupGraph(c)
         \/ BuildGraph(c) \/ BuildGraphFails(c) \/ StoreGraph(c)
         \/ ReadValues(c) \/ ChatReread(c) \/ ChatFrame(c) \/ ResumeRefused(c)
  PROVE  RequestOnly(c)
<1>0. req[c] \in Requests /\ ValidRequest(req[c])
  BY DEF TypeOK, RequestHasRun
<1>1. CASE Reply(c) /\ UNCHANGED <<record, ckpt, active_runs, driven, stage,
                                   graph_cache, builds, crashes, orphans>>
  BY <1>1, IdleType, IdleIsValid, RequestOnlyIntro DEF Reply, TypeOK
<1>2. ASSUME NEW pc \in Pcs, req[c].pc \notin {"idle", "reading"}, Goto(c, pc),
             UNCHANGED <<record, ckpt, active_runs, driven, stage, crashes, orphans>>,
             graph_cache' \in [Runs -> Nat], builds' \in [Runs -> Nat]
      PROVE  RequestOnly(c)
  <2> DEFINE q == Request(req[c].op, pc, req[c].run, req[c].seen, req[c].todo)
  <2>1. q \in Requests /\ ValidRequest(q)
    BY <1>2, GotoIsValid
  <2>2. req' = [req EXCEPT ![c] = q]
    BY <1>2 DEF Goto, TypeOK
  <2>. QED
    BY <1>2, <2>1, <2>2, RequestOnlyIntro
<1>3. CASE ReadRecord(c)
  <2>1. CASE record[req[c].run] = "none"
    BY <1>1, <1>3, <2>1 DEF ReadRecord
  <2>2. CASE record[req[c].run] # "none"
    <3> DEFINE seen == IF req[c].op = "resume" THEN record[req[c].run] ELSE "none"
               q == Request(req[c].op, "lookup", req[c].run, seen, {})
    <3>1. req[c].run \in Runs
      BY <1>0, <1>3 DEF ReadRecord, ValidRequest
    <3>2. q \in Requests
      BY <1>0, <3>1 DEF Request, Requests, Pcs, TypeOK
    <3>3. ValidRequest(q)
      BY <2>2, <3>1 DEF ValidRequest, Request
    <3>4. req' = [req EXCEPT ![c] = q]
      BY <1>3, <2>2 DEF ReadRecord, TypeOK
    <3>. QED
      BY <1>3, <3>2, <3>3, <3>4, RequestOnlyIntro DEF ReadRecord, TypeOK
  <2>. QED
    BY <2>1, <2>2
<1>4. CASE LookupGraph(c)
  BY <1>2, <1>4 DEF LookupGraph, AfterLookup, Pcs, TypeOK
<1>5. CASE BuildGraph(c)
  <2>1. req[c].run \in Runs /\ builds[req[c].run] \in Nat
    BY <1>0, <1>5 DEF BuildGraph, ValidRequest, TypeOK
  <2>. QED
    BY <1>2, <1>5, <2>1 DEF BuildGraph, Pcs, TypeOK
<1>6. CASE StoreGraph(c)
  <2>1. req[c].run \in Runs /\ builds[req[c].run] \in Nat
    BY <1>0, <1>6 DEF StoreGraph, ValidRequest, TypeOK
  <2>. QED
    BY <1>2, <1>6, <2>1 DEF StoreGraph, AfterLookup, Pcs, TypeOK
<1>7. ASSUME ReadValues(c), NEW r \in req[c].todo,
             req' = [req EXCEPT ![c] = Request(@.op, "lookup", r, @.seen, @.todo \ {r})]
      PROVE  RequestOnly(c)
  <2> DEFINE q == Request(req[c].op, "lookup", r, req[c].seen, req[c].todo \ {r})
  <2>1. q \in Requests /\ ValidRequest(q)
    BY <1>0, <1>7 DEF Request, Requests, ValidRequest, Pcs
  <2>2. req' = [req EXCEPT ![c] = q]
    BY <1>7 DEF TypeOK
  <2>. QED
    BY <1>7, <2>1, <2>2, RequestOnlyIntro DEF ReadValues, TypeOK
<1>8. CASE ReadValues(c)
  BY <1>1, <1>7, <1>8 DEF ReadValues
<1>9. CASE ChatReread(c)
  BY <1>1, <1>2, <1>9 DEF ChatReread, Pcs, TypeOK
<1>10. CASE BuildGraphFails(c) \/ ChatFrame(c) \/ ResumeRefused(c)
  BY <1>1, <1>10 DEF BuildGraphFails, ChatFrame, ResumeRefused
<1>. QED
  BY <1>3, <1>4, <1>5, <1>6, <1>8, <1>9, <1>10, CallSteps

-----------------------------------------------------------------------------
(* The invariant is inductive: one lemma per group of actions.             *)

LEMMA InitIInv == Init => IInv
  BY RunsAssumption, BoundsAssumption, IdleType
     DEF Init, IInv, TypeOK, SingleDriver, LiveTaskRegistered,
         ExecutingIsRunning, StatusHasDriver, RegistryAgreesWithCheckpoint,
         RequestHasRun, ValidRequest, ResumingIsSettled,
         SnapshotHasCheckpoint, Live, LiveStages, Stages,
         Statuses, Checkpoints, Idle, Request

\* With no live task registered there is no live task at all.
LEMMA NoDriver ==
  ASSUME LiveTaskRegistered, ~HasActiveRun
  PROVE  \A t \in Tasks : ~Live(t)
  BY TasksAssumption DEF LiveTaskRegistered, HasActiveRun

LEMMA RequestStepIInv ==
  ASSUME IInv, NEW c \in Conns, RequestOnly(c)
  PROVE  IInv'
<1> USE DEF IInv, RequestOnly
<1>1. TypeOK' /\ RequestHasRun'
  <2>1. PICK q \in Requests : req' = [req EXCEPT ![c] = q] /\ ValidRequest(q)
    BY Zenon DEF RequestOnly
  <2>2. req' \in [Conns -> Requests]
    BY <2>1 DEF TypeOK
  <2>3. TypeOK'
    BY <2>2 DEF TypeOK
  <2>4. RequestHasRun'
    BY <2>1 DEF TypeOK, RequestHasRun, ValidRequest
  <2>. QED
    BY <2>3, <2>4
<1>2. SingleDriver' /\ LiveTaskRegistered' /\ ExecutingIsRunning'
  BY DEF SingleDriver, LiveTaskRegistered, ExecutingIsRunning, Live
<1>3. StatusHasDriver' /\ RegistryAgreesWithCheckpoint' /\ SnapshotHasCheckpoint'
      /\ ResumingIsSettled'
  BY DEF StatusHasDriver, RegistryAgreesWithCheckpoint, SnapshotHasCheckpoint,
         ResumingIsSettled, Live
<1>. QED
  BY <1>1, <1>2, <1>3

LEMMA CrashIInv ==
  ASSUME IInv, Crash
  PROVE  IInv'
<1> USE DEF IInv, Crash
<1>1. TypeOK'
  BY IdleType, BoundsAssumption
     DEF TypeOK, LiveTaskRegistered, Live, LiveStages, Stages
<1>2. \A t \in Tasks : ~Live(t)'
  BY DEF Live, LiveStages
<1>3. SingleDriver' /\ LiveTaskRegistered' /\ ExecutingIsRunning'
      /\ SnapshotHasCheckpoint' /\ ResumingIsSettled'
  BY <1>2 DEF SingleDriver, LiveTaskRegistered, ExecutingIsRunning,
              SnapshotHasCheckpoint, ResumingIsSettled, Live, LiveStages
<1>4. StatusHasDriver'
  BY <1>2 DEF StatusHasDriver
<1>5. RegistryAgreesWithCheckpoint' /\ RequestHasRun'
  BY DEF RegistryAgreesWithCheckpoint, RequestHasRun, ValidRequest, Idle, Request
<1>. QED
  BY <1>1, <1>3, <1>4, <1>5

\* Records are never removed, so the requests in flight stay valid.
LEMMA KeepRequests ==
  ASSUME IInv, UNCHANGED req,
         \A r \in Runs : record'[r] = "none" => record[r] = "none"
  PROVE  RequestHasRun'
<1>. SUFFICES ASSUME NEW c \in Conns
              PROVE  ValidRequest(req[c])'
  BY DEF RequestHasRun
<1>1. ValidRequest(req[c]) /\ req[c] \in Requests
  BY DEF IInv, RequestHasRun, TypeOK
<1>. QED
  BY <1>1 DEF ValidRequest, Requests

\* create_run and do_resume: a task is spawned where there was none.
LEMMA SpawnIInv ==
  ASSUME IInv, NEW r \in Runs, NEW t \in Tasks, NEW s \in {"starting", "resuming"},
         ~HasActiveRun, Spawn(t, r, s)
  PROVE  /\ active_runs' \in [Runs -> Tasks \cup {NoTask}]
         /\ driven' \in [Tasks -> Runs \cup {NoRun}]
         /\ stage' \in [Tasks -> Stages]
         /\ SingleDriver' /\ LiveTaskRegistered'
         /\ Live(t)' /\ driven'[t] = r
         /\ \A u \in Tasks : stage'[u] \notin {"invoking", "snapshot"}
<1>1. \A u \in Tasks : ~Live(u)
  BY NoDriver, TasksAssumption DEF IInv
<1>2. \A u \in Tasks : Live(u)' => u = t
  BY <1>1 DEF Spawn, Live, LiveStages, IInv, TypeOK
<1>3. /\ active_runs' \in [Runs -> Tasks \cup {NoTask}]
      /\ driven' \in [Tasks -> Runs \cup {NoRun}]
      /\ stage' \in [Tasks -> Stages]
  BY DEF Spawn, IInv, TypeOK, Stages, LiveStages
<1>4. stage'[t] = s /\ driven'[t] = r /\ active_runs'[r] = t
  BY DEF Spawn, IInv, TypeOK
<1>5. Live(t)'
  BY <1>4 DEF Live, LiveStages
<1>6. SingleDriver' /\ LiveTaskRegistered'
  BY <1>2, <1>4 DEF SingleDriver, LiveTaskRegistered
<1>7. \A u \in Tasks : stage'[u] \notin {"invoking", "snapshot"}
  BY <1>2, <1>4 DEF Live, LiveStages
<1>. QED
  BY <1>3, <1>4, <1>5, <1>6, <1>7

LEMMA CreateRunIInv ==
  ASSUME IInv, NEW r \in Runs, NEW t \in Tasks, CreateRun(r, t)
  PROVE  IInv'
<1>1. /\ active_runs' \in [Runs -> Tasks \cup {NoTask}]
      /\ driven' \in [Tasks -> Runs \cup {NoRun}]
      /\ stage' \in [Tasks -> Stages]
      /\ SingleDriver' /\ LiveTaskRegistered'
      /\ Live(t)' /\ driven'[t] = r
      /\ \A u \in Tasks : stage'[u] \notin {"invoking", "snapshot"}
  BY SpawnIInv DEF CreateRun
<1>2. \A u \in Tasks : ~Live(u)
  BY NoDriver, TasksAssumption DEF IInv, CreateRun
<1>3. TypeOK'
  BY <1>1 DEF CreateRun, SetStatus, IInv, TypeOK, Statuses
<1>4. ExecutingIsRunning' /\ SnapshotHasCheckpoint' /\ ResumingIsSettled'
  BY <1>1, <1>2 DEF ExecutingIsRunning, SnapshotHasCheckpoint, ResumingIsSettled,
                    CreateRun, Spawn, Live, LiveStages, IInv, TypeOK
<1>5. StatusHasDriver'
  BY <1>1, <1>2 DEF StatusHasDriver, CreateRun, SetStatus, IInv, TypeOK
<1>6. RegistryAgreesWithCheckpoint'
  BY DEF RegistryAgreesWithCheckpoint, CreateRun, SetStatus, IInv, TypeOK
<1>7. RequestHasRun'
  BY KeepRequests DEF CreateRun, SetStatus, IInv, TypeOK, Statuses
<1>. QED
  BY <1>1, <1>3, <1>4, <1>5, <1>6, <1>7 DEF IInv

LEMMA CreateRunBuildFailsIInv ==
  ASSUME IInv, NEW r \in Runs, CreateRunBuildFails(r)
  PROVE  IInv'
<1> USE DEF IInv, CreateRunBuildFails, SetStatus
<1>1. TypeOK'
  BY DEF TypeOK, Statuses
<1>2. \A u \in Tasks : ~Live(u)
  BY NoDriver, TasksAssumption
<1>3. SingleDriver' /\ LiveTaskRegistered'
  BY DEF SingleDriver, LiveTaskRegistered, Live
<1>4. ExecutingIsRunning' /\ SnapshotHasCheckpoint' /\ ResumingIsSettled'
  BY <1>2 DEF ExecutingIsRunning, SnapshotHasCheckpoint, ResumingIsSettled,
              Live, LiveStages
<1>5. StatusHasDriver'
  BY <1>2 DEF StatusHasDriver, TypeOK
<1>6. RegistryAgreesWithCheckpoint'
  BY DEF RegistryAgreesWithCheckpoint, TypeOK
<1>7. RequestHasRun'
  BY KeepRequests DEF TypeOK, Statuses
<1>. QED
  BY <1>1, <1>3, <1>4, <1>5, <1>6, <1>7

LEMMA ResumeAcceptedIInv ==
  ASSUME IInv, NEW c \in Conns, NEW t \in Tasks, ResumeAccepted(c, t)
  PROVE  IInv'
<1>0. req[c].run \in Runs
  BY DEF ResumeAccepted, IInv, RequestHasRun, ValidRequest
<1>1. /\ active_runs' \in [Runs -> Tasks \cup {NoTask}]
      /\ driven' \in [Tasks -> Runs \cup {NoRun}]
      /\ stage' \in [Tasks -> Stages]
      /\ SingleDriver' /\ LiveTaskRegistered'
      /\ Live(t)' /\ driven'[t] = req[c].run
      /\ \A u \in Tasks : stage'[u] \notin {"invoking", "snapshot"}
  BY <1>0, SpawnIInv DEF ResumeAccepted
<1>2. \A u \in Tasks : ~Live(u)
  BY NoDriver, TasksAssumption DEF IInv, ResumeAccepted
<1>3. TypeOK' /\ RequestHasRun'
  BY <1>1, IdleType DEF ResumeAccepted, Reply, IInv, TypeOK, RequestHasRun,
                        ValidRequest, Idle, Request
<1>4. ExecutingIsRunning' /\ SnapshotHasCheckpoint' /\ ResumingIsSettled'
  BY <1>0, <1>1, <1>2 DEF ExecutingIsRunning, SnapshotHasCheckpoint,
     ResumingIsSettled, StatusHasDriver, ResumeAccepted, Spawn, Live,
     LiveStages, IInv, TypeOK
<1>5. StatusHasDriver'
  BY <1>2 DEF StatusHasDriver, ResumeAccepted, IInv
<1>6. RegistryAgreesWithCheckpoint'
  BY DEF RegistryAgreesWithCheckpoint, ResumeAccepted, IInv
<1>. QED
  BY <1>1, <1>3, <1>4, <1>5, <1>6 DEF IInv

-----------------------------------------------------------------------------
(* The steps of the background task: t is the only live task.              *)

\* What every step of a live task may assume about the other tasks.
LEMMA OnlyDriver ==
  ASSUME IInv, NEW t \in Tasks, Live(t)
  PROVE  /\ driven[t] \in Runs
         /\ active_runs[driven[t]] = t
         /\ \A u \in Tasks : u # t => ~Live(u)
  BY DEF IInv, SingleDriver, LiveTaskRegistered

\* Moving one task between live stages, or ending it, keeps the parts of the
\* invariant that are about tasks only.
LEMMA SetStageIInv ==
  ASSUME IInv, NEW t \in Tasks, Live(t), NEW s \in Stages, SetStage(t, s),
         UNCHANGED active_runs
  PROVE  /\ stage' \in [Tasks -> Stages]
         /\ stage'[t] = s
         /\ \A u \in Tasks : u # t => stage'[u] = "done"
         /\ SingleDriver' /\ LiveTaskRegistered'
<1>1. stage' \in [Tasks -> Stages] /\ stage'[t] = s
  BY DEF SetStage, IInv, TypeOK
<1>2. \A u \in Tasks : u # t => stage'[u] = "done"
  BY OnlyDriver DEF SetStage, IInv, TypeOK, Live, Stages
<1>3. \A u \in Tasks : Live(u)' => u = t
  BY <1>2 DEF Live, LiveStages
<1>4. SingleDriver' /\ LiveTaskRegistered'
  BY <1>3, OnlyDriver DEF SingleDriver, LiveTaskRegistered, SetStage
<1>. QED
  BY <1>1, <1>2, <1>4

LEMMA ResumingIInv ==
  ASSUME IInv, NEW t \in Tasks, UpdateState(t) \/ UpdateStateRaises(t)
  PROVE  IInv'
<1>1. stage[t] = "resuming" /\ Live(t)
  BY DEF UpdateState, UpdateStateRaises, Live, LiveStages
<1>2. PICK s \in {"starting", "done"} : SetStage(t, s)
  BY DEF UpdateState, UpdateStateRaises
<1>3. UNCHANGED <<record, ckpt, active_runs, graph_cache, builds, req, crashes,
                  orphans>>
  BY DEF UpdateState, UpdateStateRaises
<1>4. UNCHANGED driven
  BY <1>2 DEF SetStage
<1>5. /\ stage' \in [Tasks -> Stages]
      /\ stage'[t] = s
      /\ \A u \in Tasks : u # t => stage'[u] = "done"
      /\ SingleDriver' /\ LiveTaskRegistered'
  BY <1>1, <1>2, <1>3, SetStageIInv DEF Stages, LiveStages
<1>6. TypeOK'
  BY <1>3, <1>4, <1>5 DEF IInv, TypeOK
<1>7. RequestHasRun' /\ RegistryAgreesWithCheckpoint'
  BY <1>3, KeepRequests DEF IInv, RegistryAgreesWithCheckpoint
<1>8. ExecutingIsRunning' /\ SnapshotHasCheckpoint' /\ ResumingIsSettled'
  BY <1>5 DEF ExecutingIsRunning, SnapshotHasCheckpoint, ResumingIsSettled
<1>9. StatusHasDriver'
  <2>1. record[driven[t]] \notin {"pending", "running"} \/ driven[t] \in orphans
    BY <1>1 DEF IInv, ResumingIsSettled
  <2>2. \A u \in Tasks : Live(u) => u = t
    BY <1>1, OnlyDriver
  <2>. QED
    BY <1>3, <1>4, <2>1, <2>2 DEF IInv, StatusHasDriver
<1>. QED
  BY <1>5, <1>6, <1>7, <1>8, <1>9 DEF IInv

\* The run a live task drives is not the one another record speaks of: only
\* its own status is at stake when it writes.
LEMMA OtherStatuses ==
  ASSUME IInv, NEW t \in Tasks, Live(t), NEW r \in Runs \ orphans, r # driven[t]
  PROVE  record[r] \notin {"pending", "running"}
  BY OnlyDriver DEF IInv, StatusHasDriver

LEMMA MarkRunningIInv ==
  ASSUME IInv, NEW t \in Tasks, MarkRunning(t)
  PROVE  IInv'
<1> USE DEF MarkRunning, SetStatus
<1>1. Live(t)
  BY DEF Live, LiveStages
<1>2. /\ stage' \in [Tasks -> Stages]
      /\ stage'[t] = "invoking"
      /\ \A u \in Tasks : u # t => stage'[u] = "done"
      /\ SingleDriver' /\ LiveTaskRegistered'
  BY <1>1, SetStageIInv DEF Stages, LiveStages
<1>3. driven[t] \in Runs /\ UNCHANGED driven
  BY <1>1, OnlyDriver DEF SetStage
<1>4. TypeOK'
  BY <1>2, <1>3 DEF IInv, TypeOK, Statuses
<1>5. ExecutingIsRunning' /\ SnapshotHasCheckpoint' /\ ResumingIsSettled'
  BY <1>2, <1>3 DEF IInv, TypeOK, ExecutingIsRunning, SnapshotHasCheckpoint,
                    ResumingIsSettled
<1>6. StatusHasDriver'
  BY <1>1, <1>2, <1>3, OtherStatuses
     DEF IInv, TypeOK, StatusHasDriver, Live, LiveStages
<1>7. RegistryAgreesWithCheckpoint'
  BY <1>3 DEF IInv, TypeOK, RegistryAgreesWithCheckpoint
<1>8. RequestHasRun'
  BY <1>3, KeepRequests DEF IInv, TypeOK
<1>. QED
  BY <1>2, <1>4, <1>5, <1>6, <1>7, <1>8 DEF IInv

\* The exception path: the task ends, its record says "failed" or, if that
\* write was lost too, the run becomes an orphan.
LEMMA FailRunIInv ==
  ASSUME IInv, NEW t \in Tasks, Live(t), FailRun(t), UNCHANGED ckpt
  PROVE  IInv'
<1> USE DEF FailRun, SetStatus
<1>1. /\ stage' \in [Tasks -> Stages]
      /\ \A u \in Tasks : stage'[u] = "done"
      /\ SingleDriver' /\ LiveTaskRegistered'
  BY SetStageIInv DEF Stages
<1>2. driven[t] \in Runs /\ UNCHANGED driven
  BY OnlyDriver DEF SetStage
<1>3. TypeOK'
  BY <1>1, <1>2 DEF IInv, TypeOK, Statuses
<1>4. ExecutingIsRunning' /\ SnapshotHasCheckpoint' /\ ResumingIsSettled'
  BY <1>1 DEF ExecutingIsRunning, SnapshotHasCheckpoint, ResumingIsSettled
<1>5. StatusHasDriver'
  BY <1>2, OtherStatuses DEF IInv, TypeOK, StatusHasDriver
<1>6. RegistryAgreesWithCheckpoint'
  BY <1>2 DEF IInv, TypeOK, RegistryAgreesWithCheckpoint
<1>7. RequestHasRun'
  BY <1>2, KeepRequests DEF IInv, TypeOK
<1>. QED
  BY <1>1, <1>3, <1>4, <1>5, <1>6, <1>7 DEF IInv

LEMMA InvokingIInv ==
  ASSUME IInv, NEW t \in Tasks, GraphStep(t) \/ InvokeReturns(t)
  PROVE  IInv'
<1>1. stage[t] = "invoking" /\ Live(t)
  BY DEF GraphStep, InvokeReturns, Live, LiveStages
<1>2. PICK s \in {"invoking", "snapshot"}, k \in {"paused", "end"} :
        SetStage(t, s) /\ ckpt' = [ckpt EXCEPT ![driven[t]] = k]
  BY <1>1 DEF GraphStep, InvokeReturns, SetStage, IInv, TypeOK
<1>3. UNCHANGED <<record, active_runs, graph_cache, builds, req, crashes, orphans>>
  BY DEF GraphStep, InvokeReturns
<1>4. /\ stage' \in [Tasks -> Stages]
      /\ stage'[t] = s
      /\ \A u \in Tasks : u # t => stage'[u] = "done"
      /\ SingleDriver' /\ LiveTaskRegistered'
  BY <1>1, <1>2, <1>3, SetStageIInv DEF Stages, LiveStages
<1>5. driven[t] \in Runs /\ UNCHANGED driven
  BY <1>1, <1>2, OnlyDriver DEF SetStage
<1>6. record[driven[t]] = "running"
  BY <1>1 DEF IInv, ExecutingIsRunning
<1>7. TypeOK'
  BY <1>2, <1>3, <1>4, <1>5 DEF IInv, TypeOK, Checkpoints
<1>8. ExecutingIsRunning' /\ SnapshotHasCheckpoint' /\ ResumingIsSettled'
  BY <1>2, <1>3, <1>4, <1>5, <1>6
     DEF IInv, TypeOK, ExecutingIsRunning, SnapshotHasCheckpoint, ResumingIsSettled
<1>9. StatusHasDriver'
  BY <1>1, <1>3, <1>4, <1>5, OtherStatuses
     DEF IInv, StatusHasDriver, Live, LiveStages
<1>10. RegistryAgreesWithCheckpoint'
  BY <1>2, <1>3, <1>5, <1>6 DEF IInv, TypeOK, RegistryAgreesWithCheckpoint
<1>11. RequestHasRun'
  BY <1>3, KeepRequests
<1>. QED
  BY <1>4, <1>7, <1>8, <1>9, <1>10, <1>11 DEF IInv

LEMMA SnapshotReturnsIInv ==
  ASSUME IInv, NEW t \in Tasks, SnapshotReturns(t)
  PROVE  IInv'
<1> USE DEF SnapshotReturns, SetStatus
<1>1. Live(t)
  BY DEF Live, LiveStages
<1>2. /\ stage' \in [Tasks -> Stages]
      /\ \A u \in Tasks : stage'[u] = "done"
      /\ SingleDriver' /\ LiveTaskRegistered'
  BY <1>1, SetStageIInv DEF Stages
<1>3. driven[t] \in Runs /\ UNCHANGED driven
  BY <1>1, OnlyDriver DEF SetStage
<1>4. ckpt[driven[t]] \in {"paused", "end"}
  BY <1>3 DEF IInv, TypeOK, SnapshotHasCheckpoint, Checkpoints
<1>5. TypeOK'
  BY <1>2, <1>3 DEF IInv, TypeOK, Statuses
<1>6. ExecutingIsRunning' /\ SnapshotHasCheckpoint' /\ ResumingIsSettled'
  BY <1>2 DEF ExecutingIsRunning, SnapshotHasCheckpoint, ResumingIsSettled
<1>7. StatusHasDriver'
  BY <1>1, <1>3, OtherStatuses DEF IInv, TypeOK, StatusHasDriver
<1>8. RegistryAgreesWithCheckpoint'
  BY <1>3, <1>4 DEF IInv, TypeOK, RegistryAgreesWithCheckpoint
<1>9. RequestHasRun'
  BY <1>3, KeepRequests DEF IInv, TypeOK
<1>. QED
  BY <1>2, <1>5, <1>6, <1>7, <1>8, <1>9 DEF IInv

LEMMA StutterIInv ==
  ASSUME IInv, UNCHANGED vars
  PROVE  IInv'
  BY DEF vars, IInv, TypeOK, SingleDriver, LiveTaskRegistered, ExecutingIsRunning,
         StatusHasDriver, RegistryAgreesWithCheckpoint, RequestHasRun,
         ValidRequest, ResumingIsSettled, SnapshotHasCheckpoint, Live

\* IInv is preserved by every step.
THEOREM Inductive == IInv /\ [Next]_vars => IInv'
<1>. SUFFICES ASSUME IInv, [Next]_vars
              PROVE  IInv'
  OBVIOUS
<1>1. CASE Crash
  BY <1>1, CrashIInv
<1>2. ASSUME NEW r \in Runs, CreateRunBuildFails(r)
      PROVE  IInv'
  BY <1>2, CreateRunBuildFailsIInv
<1>3. ASSUME NEW r \in Runs, NEW t \in Tasks, CreateRun(r, t)
      PROVE  IInv'
  BY <1>3, CreateRunIInv
<1>4. ASSUME NEW c \in Conns, RequestCall(c) \/ RequestStep(c)
      PROVE  IInv'
  <2>1. CASE \E t \in Tasks : ResumeAccepted(c, t)
    BY <2>1, ResumeAcceptedIInv
  <2>2. CASE RequestCall(c) \/ (RequestStep(c) /\ ~\E t \in Tasks : ResumeAccepted(c, t))
    <3>1. RequestOnly(c)
      BY <2>2, RequestSteps DEF RequestStep, IInv
    <3>. QED
      BY <3>1, RequestStepIInv
  <2>. QED
    BY <1>4, <2>1, <2>2
<1>5. ASSUME NEW t \in Tasks, TaskStep(t)
      PROVE  IInv'
  <2>1. CASE UpdateState(t) \/ UpdateStateRaises(t)
    BY <2>1, ResumingIInv
  <2>2. CASE MarkRunning(t)
    BY <2>2, MarkRunningIInv
  <2>3. CASE MarkRunningFails(t) \/ InvokeRaises(t) \/ SnapshotRaises(t)
    BY <2>3, FailRunIInv DEF MarkRunningFails, InvokeRaises, SnapshotRaises, Live,
                             LiveStages
  <2>4. CASE GraphStep(t) \/ InvokeReturns(t)
    BY <2>4, InvokingIInv
  <2>5. CASE SnapshotReturns(t)
    BY <2>5, SnapshotReturnsIInv
  <2>. QED
    BY <1>5, <2>1, <2>2, <2>3, <2>4, <2>5 DEF TaskStep
<1>6. CASE UNCHANGED vars
  BY <1>6, StutterIInv
<1>. QED
  BY <1>1, <1>2, <1>3, <1>4, <1>5, <1>6 DEF Next

-----------------------------------------------------------------------------
(* The theorems a reader should know of.                                   *)

\* The types hold, whatever the requests, failures and restarts.
THEOREM TypeCorrect == Spec => []TypeOK
<1>1. Init => IInv
  BY InitIInv
<1>2. IInv /\ [Next]_vars => IInv'
  BY Inductive
<1>3. IInv => TypeOK
  BY DEF IInv
<1>. QED
  BY <1>1, <1>2, <1>3, PTL DEF Spec

\* At most one background task drives a graph at any time, and it is the one
\* _has_active_run finds: the check in create_run and do_resume cannot be raced.
THEOREM MutualExclusion == Spec => []OneRegisteredDriver
<1>1. Init => IInv
  BY InitIInv
<1>2. IInv /\ [Next]_vars => IInv'
  BY Inductive
<1>3. IInv => OneRegisteredDriver
  BY DEF IInv, OneRegisteredDriver
<1>. QED
  BY <1>1, <1>2, <1>3, PTL DEF Spec

\* While a graph executes, the record of its run says "running".
THEOREM ExecutingRunIsRunning == Spec => []ExecutingIsRunning
<1>1. Init => IInv
  BY InitIInv
<1>2. IInv /\ [Next]_vars => IInv'
  BY Inductive
<1>3. IInv => ExecutingIsRunning
  BY DEF IInv
<1>. QED
  BY <1>1, <1>2, <1>3, PTL DEF Spec

\* A "pending" or "running" record is never left without a driver, except by
\* a process death, a failed set-up or a lost write.
THEOREM NoSilentStall == Spec => []StatusHasDriver
<1>1. Init => IInv
  BY InitIInv
<1>2. IInv /\ [Next]_vars => IInv'
  BY Inductive
<1>3. IInv => StatusHasDriver
  BY DEF IInv
<1>. QED
  BY <1>1, <1>2, <1>3, PTL DEF Spec

\* "interrupted" and "completed" in the registry are true of the checkpoint.
THEOREM RegistryIsTruthful == Spec => []RegistryAgreesWithCheckpoint
<1>1. Init => IInv
  BY InitIInv
<1>2. IInv /\ [Next]_vars => IInv'
  BY Inductive
<1>3. IInv => RegistryAgreesWithCheckpoint
  BY DEF IInv
<1>. QED
  BY <1>1, <1>2, <1>3, PTL DEF Spec

-----------------------------------------------------------------------------
(* The graph cache: why racing misses stay bounded.                        *)

LEMMA HandlersAreFinite ==
  ASSUME NEW r, NEW pc
  PROVE  /\ IsFiniteSet(Handlers(r, pc))
         /\ Cardinality(Handlers(r, pc)) \in Nat
<1>1. Handlers(r, pc) \in SUBSET Conns
  BY DEF Handlers
<1>2. IsFiniteSet(Handlers(r, pc))
  BY <1>1, ConnsAssumption, FS_Subset
<1>. QED
  BY <1>2, FS_CardinalityType

\* A handler cannot store and build at once.
LEMMA StoringAndBuilding ==
  ASSUME NEW r
  PROVE  Cardinality(Handlers(r, "storing")) + Cardinality(Handlers(r, "building"))
           <= Cardinality(Conns)
<1> DEFINE S == Handlers(r, "storing")
           B == Handlers(r, "building")
<1>1. /\ IsFiniteSet(S) /\ IsFiniteSet(B) /\ IsFiniteSet(Conns)
      /\ S \cap B = {} /\ S \cup B \in SUBSET Conns
  <2>1. S \cap B = {} /\ S \cup B \in SUBSET Conns
    BY DEF Handlers
  <2>. QED
    BY <2>1, HandlersAreFinite, ConnsAssumption
<1>2. Cardinality(S) \in Nat /\ Cardinality(B) \in Nat /\ Cardinality(Conns) \in Nat
  BY HandlersAreFinite, ConnsAssumption, FS_CardinalityType
<1> HIDE DEF S, B
<1>3. Cardinality(S \cup B) = Cardinality(S) + Cardinality(B)
  <2>1. Cardinality(S \cup B) = Cardinality(S) + Cardinality(B) - Cardinality(S \cap B)
    BY <1>1, FS_Union, Zenon
  <2>2. Cardinality(S \cap B) = 0
    BY <1>1, FS_EmptySet, Zenon
  <2>. QED
    BY <1>2, <2>1, <2>2
<1>4. Cardinality(S \cup B) <= Cardinality(Conns)
  BY <1>1, FS_Subset, Zenon
<1>. QED
  BY <1>3, <1>4 DEF S, B

\* One handler moves, the others stay where they are.
LEMMA HandlerMoves ==
  ASSUME IInv, NEW c \in Conns, NEW q \in Requests, req' = [req EXCEPT ![c] = q]
  PROVE  \A d \in Conns : req'[d] = IF d = c THEN q ELSE req[d]
  BY DEF IInv, TypeOK

\* A handler that neither comes to nor leaves "storing", nor comes to
\* "building" after the first graph was cached, leaves the account as it is.
LEMMA HandlerElsewhere ==
  ASSUME IInv, BuildsAccounted, NEW c \in Conns, NEW q \in Requests,
         req' = [req EXCEPT ![c] = q], UNCHANGED <<graph_cache, builds>>,
         req[c].pc # "storing", q.pc # "storing",
         q.pc = "building" => q.run \in Runs /\ graph_cache[q.run] = 0
  PROVE  BuildsAccounted'
<1> SUFFICES ASSUME NEW r \in Runs
             PROVE  /\ graph_cache[r] = 0 => builds[r] = Cardinality(Handlers(r, "storing")')
                    /\ graph_cache[r] # 0 =>
                         builds[r] + Cardinality(Handlers(r, "building")') <= Cardinality(Conns)
  BY DEF BuildsAccounted
<1>1. Handlers(r, "storing")' = Handlers(r, "storing")
  BY HandlerMoves DEF Handlers
<1>2. graph_cache[r] # 0 => Handlers(r, "building")' = Handlers(r, "building") \ {c}
  <2>. SUFFICES ASSUME graph_cache[r] # 0
                PROVE  \A d \in Conns :
                         (req'[d].run = r /\ req'[d].pc = "building") <=>
                           (req[d].run = r /\ req[d].pc = "building" /\ d # c)
    BY DEF Handlers
  <2>1. \A d \in Conns : req'[d] = IF d = c THEN q ELSE req[d]
    BY HandlerMoves
  <2>2. ~(q.run = r /\ q.pc = "building")
    OBVIOUS
  <2>. QED
    BY <2>1, <2>2
<1>3. /\ Cardinality(Handlers(r, "building") \ {c}) <= Cardinality(Handlers(r, "building"))
      /\ Cardinality(Handlers(r, "building") \ {c}) \in Nat
      /\ Cardinality(Handlers(r, "building")) \in Nat
  <2>1. Handlers(r, "building") \ {c} \in SUBSET Handlers(r, "building")
    OBVIOUS
  <2>2. IsFiniteSet(Handlers(r, "building")) /\ IsFiniteSet(Handlers(r, "building") \ {c})
    BY <2>1, HandlersAreFinite, FS_Subset
  <2>. QED
    BY <2>1, <2>2, FS_Subset, FS_CardinalityType
<1>4. builds[r] \in Nat /\ Cardinality(Conns) \in Nat
  BY ConnsAssumption, FS_CardinalityType DEF IInv, TypeOK
<1>5. /\ graph_cache[r] = 0 => builds[r] = Cardinality(Handlers(r, "storing"))
      /\ graph_cache[r] # 0 =>
           builds[r] + Cardinality(Handlers(r, "building")) <= Cardinality(Conns)
  BY DEF BuildsAccounted
<1>. QED
  BY <1>1, <1>2, <1>3, <1>4, <1>5

LEMMA BuildAccounted ==
  ASSUME IInv, BuildsAccounted, NEW c \in Conns, BuildGraph(c)
  PROVE  BuildsAccounted'
<1> DEFINE m == req[c].run
<1>1. req[c] \in Requests /\ m \in Runs /\ req[c].pc = "building"
  BY DEF BuildGraph, IInv, TypeOK, RequestHasRun, ValidRequest
<1>2. PICK q \in Requests : q.run = m /\ q.pc = "storing" /\ req' = [req EXCEPT ![c] = q]
  <2> DEFINE q == Request(req[c].op, "storing", req[c].run, req[c].seen, req[c].todo)
  <2>1. q \in Requests /\ q.run = m /\ q.pc = "storing"
    BY <1>1 DEF Request, Requests, Pcs
  <2>2. req' = [req EXCEPT ![c] = q]
    BY DEF BuildGraph, Goto, IInv, TypeOK
  <2>. QED
    BY <2>1, <2>2
<1>3. graph_cache' = graph_cache /\ builds' = [builds EXCEPT ![m] = @ + 1]
  BY DEF BuildGraph
<1> SUFFICES ASSUME NEW r \in Runs
             PROVE  /\ graph_cache[r] <= builds'[r]
                    /\ graph_cache[r] = 0 => builds'[r] = Cardinality(Handlers(r, "storing")')
                    /\ graph_cache[r] # 0 =>
                         builds'[r] + Cardinality(Handlers(r, "building")') <= Cardinality(Conns)
  BY <1>3 DEF BuildsAccounted
<1>4. /\ builds[r] \in Nat /\ graph_cache[r] \in Nat /\ Cardinality(Conns) \in Nat
      /\ IsFiniteSet(Handlers(r, "storing")) /\ Cardinality(Handlers(r, "storing")) \in Nat
      /\ IsFiniteSet(Handlers(r, "building")) /\ Cardinality(Handlers(r, "building")) \in Nat
  BY ConnsAssumption, FS_CardinalityType, HandlersAreFinite DEF IInv, TypeOK
<1>5. CASE r = m
  <2>1. builds'[r] = builds[r] + 1
    BY <1>3, <1>5 DEF IInv, TypeOK
  <2>0. \A d \in Conns :
          /\ (req'[d].run = r /\ req'[d].pc = "storing") <=>
               ((req[d].run = r /\ req[d].pc = "storing") \/ d = c)
          /\ (req'[d].run = r /\ req'[d].pc = "building") <=>
               (req[d].run = r /\ req[d].pc = "building" /\ d # c)
    <3>1. \A d \in Conns : req'[d] = IF d = c THEN q ELSE req[d]
      BY <1>2, HandlerMoves
    <3>2. /\ q.run = r /\ q.pc = "storing"
          /\ req[c].run = r /\ req[c].pc = "building"
      BY <1>1, <1>2, <1>5
    <3>. QED
      BY <3>1, <3>2
  <2>2. Handlers(r, "storing")' = Handlers(r, "storing") \cup {c}
        /\ c \notin Handlers(r, "storing")
    <3>1. c \notin Handlers(r, "storing")
      BY <1>1 DEF Handlers
    <3>. QED
      BY <2>0, <3>1 DEF Handlers
  <2>3. Handlers(r, "building")' = Handlers(r, "building") \ {c}
        /\ c \in Handlers(r, "building")
    BY <1>1, <1>5, <2>0 DEF Handlers
  <2>4. Cardinality(Handlers(r, "storing")') = Cardinality(Handlers(r, "storing")) + 1
    BY <1>4, <2>2, FS_AddElement
  <2>5. Cardinality(Handlers(r, "building")') = Cardinality(Handlers(r, "building")) - 1
    BY <1>4, <2>3, FS_RemoveElement
  <2>. QED
    BY <1>4, <2>1, <2>4, <2>5 DEF BuildsAccounted
<1>6. CASE r # m
  <2>1. builds'[r] = builds[r]
    BY <1>3, <1>6 DEF IInv, TypeOK
  <2>2. Handlers(r, "storing")' = Handlers(r, "storing")
        /\ Handlers(r, "building")' = Handlers(r, "building")
    BY <1>1, <1>2, <1>6, HandlerMoves DEF Handlers
  <2>. QED
    BY <2>1, <2>2 DEF BuildsAccounted
<1>. QED
  BY <1>5, <1>6

LEMMA StoreAccounted ==
  ASSUME IInv, BuildsAccounted, NEW c \in Conns, StoreGraph(c)
  PROVE  BuildsAccounted'
<1> DEFINE m == req[c].run
<1>1. req[c] \in Requests /\ m \in Runs /\ req[c].pc = "storing"
  BY DEF StoreGraph, IInv, TypeOK, RequestHasRun, ValidRequest
<1>2. PICK q \in Requests : /\ q.run = m /\ q.pc \notin {"storing", "building"}
                            /\ req' = [req EXCEPT ![c] = q]
  <2> DEFINE q == Request(req[c].op, AfterLookup(c), req[c].run, req[c].seen, req[c].todo)
  <2>1. q \in Requests /\ q.run = m /\ q.pc \notin {"storing", "building"}
    BY <1>1 DEF Request, Requests, Pcs, AfterLookup
  <2>2. req' = [req EXCEPT ![c] = q]
    BY DEF StoreGraph, Goto, IInv, TypeOK
  <2>. QED
    BY <2>1, <2>2
<1>3. builds' = builds /\ graph_cache' = [graph_cache EXCEPT ![m] = builds[m]]
  BY DEF StoreGraph
<1> SUFFICES ASSUME NEW r \in Runs
             PROVE  /\ graph_cache'[r] <= builds[r]
                    /\ graph_cache'[r] = 0 => builds[r] = Cardinality(Handlers(r, "storing")')
                    /\ graph_cache'[r] # 0 =>
                         builds[r] + Cardinality(Handlers(r, "building")') <= Cardinality(Conns)
  BY <1>3 DEF BuildsAccounted
<1>4. /\ builds[r] \in Nat /\ graph_cache[r] \in Nat /\ Cardinality(Conns) \in Nat
      /\ IsFiniteSet(Handlers(r, "storing")) /\ Cardinality(Handlers(r, "storing")) \in Nat
      /\ Cardinality(Handlers(r, "building")) \in Nat
  BY ConnsAssumption, FS_CardinalityType, HandlersAreFinite DEF IInv, TypeOK
<1>5. CASE r = m
  <2>1. graph_cache'[r] = builds[r]
    BY <1>3, <1>5 DEF IInv, TypeOK
  <2>2. Handlers(r, "building")' = Handlers(r, "building")
    BY <1>1, <1>2, <1>5, HandlerMoves DEF Handlers
  <2>3. c \in Handlers(r, "storing")
    BY <1>1, <1>5 DEF Handlers
  <2>4. Cardinality(Handlers(r, "storing")) # 0
    BY <1>4, <2>3, FS_EmptySet
  <2>5. builds[r] # 0
    BY <1>4, <2>4 DEF BuildsAccounted
  <2>6. builds[r] + Cardinality(Handlers(r, "building")) <= Cardinality(Conns)
    BY <1>4, StoringAndBuilding DEF BuildsAccounted
  <2>. QED
    BY <1>4, <2>1, <2>2, <2>5, <2>6
<1>6. CASE r # m
  <2>1. graph_cache'[r] = graph_cache[r]
    BY <1>3, <1>6 DEF IInv, TypeOK
  <2>2. Handlers(r, "storing")' = Handlers(r, "storing")
        /\ Handlers(r, "building")' = Handlers(r, "building")
    BY <1>1, <1>2, <1>6, HandlerMoves DEF Handlers
  <2>. QED
    BY <2>1, <2>2 DEF BuildsAccounted
<1>. QED
  BY <1>5, <1>6

\* A new run has no request in flight, whatever its id.
LEMMA CreateAccounted ==
  ASSUME IInv, BuildsAccounted, NEW r \in Runs, NEW t \in Tasks, CreateRun(r, t)
  PROVE  BuildsAccounted'
<1>1. Handlers(r, "building") = {}
  BY DEF CreateRun, IInv, RequestHasRun, ValidRequest, Handlers
<1>2. \A q, pc : Handlers(q, pc)' = Handlers(q, pc)
  BY DEF CreateRun, Handlers
<1>3. Cardinality(Handlers(r, "building")) = 0
  BY <1>1, FS_EmptySet
<1>4. Cardinality(Conns) \in Nat /\ Cardinality(Conns) # 0
  BY ConnsAssumption, FS_CardinalityType, FS_EmptySet
<1>5. /\ graph_cache' = [graph_cache EXCEPT ![r] = 1]
      /\ builds' = [builds EXCEPT ![r] = 1]
  BY DEF CreateRun
<1>. QED
  BY <1>2, <1>3, <1>4, <1>5 DEF BuildsAccounted, IInv, TypeOK

\* Init and Crash: nothing is built and nothing is in flight.
LEMMA EmptyAccount ==
  ASSUME \A r \in Runs : graph_cache[r] = 0 /\ builds[r] = 0,
         \A c \in Conns : req[c] = Idle
  PROVE  BuildsAccounted
<1>1. ASSUME NEW r \in Runs PROVE Cardinality(Handlers(r, "storing")) = 0
  <2>1. Handlers(r, "storing") = {}
    BY DEF Handlers, Idle, Request
  <2>. QED
    BY <2>1, FS_EmptySet
<1>. QED
  BY <1>1 DEF BuildsAccounted

LEMMA RequestAccounted ==
  ASSUME IInv, BuildsAccounted, NEW c \in Conns, RequestCall(c) \/ RequestStep(c)
  PROVE  BuildsAccounted'
<1>1. req[c] \in Requests /\ ValidRequest(req[c])
  BY DEF IInv, TypeOK, RequestHasRun
<1>2. CASE BuildGraph(c) \/ StoreGraph(c)
  BY <1>2, BuildAccounted, StoreAccounted
<1>3. ASSUME NEW q \in Requests, q.pc \notin {"storing", "building"},
             req[c].pc # "storing", req' = [req EXCEPT ![c] = q],
             UNCHANGED <<graph_cache, builds>>
      PROVE  BuildsAccounted'
  BY <1>3, HandlerElsewhere
<1>4. ASSUME Reply(c), req[c].pc # "storing", UNCHANGED <<graph_cache, builds>>
      PROVE  BuildsAccounted'
  BY <1>3, <1>4, IdleType DEF Reply, Idle, Request
<1>5. CASE RequestCall(c)
  <2>1. CASE \E S \in SUBSET Runs : ReadCall(c, S)
    <3>1. PICK S \in SUBSET Runs : ReadCall(c, S)
      BY <2>1
    <3>2. PICK r \in S :
            req' = [req EXCEPT ![c] = Request("read", "lookup", r, "none", S \ {r})]
      BY <3>1 DEF ReadCall
    <3> DEFINE q == Request("read", "lookup", r, "none", S \ {r})
    <3>3. q \in Requests /\ q.pc = "lookup"
      BY DEF Request, Requests, Ops, Pcs
    <3>. QED
      BY <1>3, <3>1, <3>2, <3>3 DEF ReadCall
  <2>2. CASE \E op \in {"resume", "chat"} : ResumeCall(c, op)
    <3>1. PICK op \in {"resume", "chat"} : ResumeCall(c, op)
      BY <2>2
    <3>2. PICK r \in Runs :
            req' = [req EXCEPT ![c] = Request(op, "reading", r, "none", {})]
      BY <3>1 DEF ResumeCall
    <3> DEFINE q == Request(op, "reading", r, "none", {})
    <3>3. q \in Requests /\ q.pc = "reading"
      BY DEF Request, Requests, Ops, Pcs
    <3>. QED
      BY <1>3, <3>1, <3>2, <3>3 DEF ResumeCall
  <2>. QED
    BY <1>5, <2>1, <2>2 DEF RequestCall, GetRun, ListRuns
<1>6. CASE ReadRecord(c)
  <2>1. CASE record[req[c].run] = "none"
    BY <1>4, <1>6, <2>1 DEF ReadRecord
  <2>2. CASE record[req[c].run] # "none"
    <3> DEFINE seen == IF req[c].op = "resume" THEN record[req[c].run] ELSE "none"
               q == Request(req[c].op, "lookup", req[c].run, seen, {})
    <3>1. q \in Requests /\ q.pc = "lookup"
      BY <1>1, <1>6 DEF Request, Requests, Pcs, ReadRecord, ValidRequest, IInv, TypeOK
    <3>2. req' = [req EXCEPT ![c] = q]
      BY <1>6, <2>2 DEF ReadRecord, IInv, TypeOK
    <3>. QED
      BY <1>3, <1>6, <3>1, <3>2 DEF ReadRecord
  <2>. QED
    BY <2>1, <2>2
<1>7. ASSUME NEW pc \in Pcs, Goto(c, pc), req[c].pc # "storing", pc # "storing",
             pc = "building" => req[c].run \in Runs /\ graph_cache[req[c].run] = 0,
             UNCHANGED <<graph_cache, builds>>
      PROVE  BuildsAccounted'
  <2> DEFINE q == Request(req[c].op, pc, req[c].run, req[c].seen, req[c].todo)
  <2>1. q \in Requests /\ q.pc = pc /\ q.run = req[c].run
    BY <1>1 DEF Request, Requests
  <2>2. req' = [req EXCEPT ![c] = q]
    BY <1>7 DEF Goto, IInv, TypeOK
  <2>. QED
    BY <1>7, <2>1, <2>2, HandlerElsewhere
<1>8. CASE LookupGraph(c)
  BY <1>1, <1>7, <1>8 DEF LookupGraph, AfterLookup, Pcs, ValidRequest
<1>9. CASE ReadValues(c)
  <2>1. ASSUME NEW r \in req[c].todo,
               req' = [req EXCEPT ![c] = Request(@.op, "lookup", r, @.seen, @.todo \ {r})]
        PROVE  BuildsAccounted'
    <3> DEFINE q == Request(req[c].op, "lookup", r, req[c].seen, req[c].todo \ {r})
    <3>1. q \in Requests /\ q.pc = "lookup"
      BY <1>1 DEF Request, Requests, Pcs
    <3>2. req' = [req EXCEPT ![c] = q]
      BY <2>1 DEF IInv, TypeOK
    <3>. QED
      BY <1>3, <1>9, <3>1, <3>2 DEF ReadValues
  <2>. QED
    BY <1>4, <1>9, <2>1 DEF ReadValues
<1>10. CASE ChatReread(c)
  BY <1>4, <1>7, <1>10 DEF ChatReread, Pcs
<1>11. CASE BuildGraphFails(c) \/ ChatFrame(c) \/ ResumeRefused(c)
  BY <1>4, <1>11 DEF BuildGraphFails, ChatFrame, ResumeRefused
<1>12. CASE \E t \in Tasks : ResumeAccepted(c, t)
  BY <1>4, <1>12 DEF ResumeAccepted
<1>. QED
  BY <1>2, <1>5, <1>6, <1>8, <1>9, <1>10, <1>11, <1>12 DEF RequestStep

LEMMA AccountStep == IInv /\ BuildsAccounted /\ [Next]_vars => BuildsAccounted'
<1>. SUFFICES ASSUME IInv, BuildsAccounted, [Next]_vars
              PROVE  BuildsAccounted'
  OBVIOUS
<1>1. CASE UNCHANGED <<graph_cache, builds, req>>
  BY <1>1 DEF BuildsAccounted, Handlers
<1>2. CASE Crash
  <2>1. /\ \A r \in Runs : graph_cache'[r] = 0 /\ builds'[r] = 0
        /\ \A c \in Conns : req'[c] = Idle
    BY <1>2 DEF Crash
  <2>2. (/\ \A r \in Runs : graph_cache[r] = 0 /\ builds[r] = 0
         /\ \A c \in Conns : req[c] = Idle)' => BuildsAccounted'
    BY EmptyAccount, PTL
  <2>. QED
    BY <2>1, <2>2
<1>3. ASSUME NEW c \in Conns, RequestCall(c) \/ RequestStep(c)
      PROVE  BuildsAccounted'
  BY <1>3, RequestAccounted
<1>4. ASSUME NEW r \in Runs, NEW t \in Tasks, CreateRun(r, t)
      PROVE  BuildsAccounted'
  BY <1>4, CreateAccounted
<1>5. ASSUME NEW r \in Runs, CreateRunBuildFails(r)
      PROVE  BuildsAccounted'
  BY <1>1, <1>5 DEF CreateRunBuildFails
<1>6. ASSUME NEW t \in Tasks, TaskStep(t)
      PROVE  BuildsAccounted'
  BY <1>1, <1>6 DEF TaskStep, UpdateState, UpdateStateRaises, MarkRunning,
     MarkRunningFails, FailRun, GraphStep, InvokeReturns, InvokeRaises,
     SnapshotReturns, SnapshotRaises
<1>. QED
  BY <1>1, <1>2, <1>3, <1>4, <1>5, <1>6 DEF Next, vars

\* However many requests miss the cache of a run at once, no more graphs of it
\* are opened in the life of the process than there are handlers.
THEOREM BuildsAreBounded == Spec => []GraphBuildsBounded
<1>1. Init => IInv /\ BuildsAccounted
  BY InitIInv, EmptyAccount DEF Init
<1>2. IInv /\ BuildsAccounted /\ [Next]_vars => IInv' /\ BuildsAccounted'
  BY Inductive, AccountStep
<1>3. IInv /\ BuildsAccounted => GraphBuildsBounded
  <2>. SUFFICES ASSUME IInv, BuildsAccounted, NEW r \in Runs
                PROVE  builds[r] <= Cardinality(Conns)
    BY DEF GraphBuildsBounded
  <2>1. /\ builds[r] \in Nat /\ Cardinality(Conns) \in Nat
        /\ Cardinality(Handlers(r, "storing")) \in Nat
        /\ Cardinality(Handlers(r, "building")) \in Nat
    BY ConnsAssumption, FS_CardinalityType, HandlersAreFinite DEF IInv, TypeOK
  <2>. QED
    BY <2>1, StoringAndBuilding DEF BuildsAccounted
<1>. QED
  BY <1>1, <1>2, <1>3, PTL DEF Spec

-----------------------------------------------------------------------------
(* Refinement of the abstract lifecycle of RunStatus.                      *)

\* The abstract driver is the run of the live task, when there is one.
LEMMA DriverIs ==
  ASSUME IInv
  PROVE  /\ \A t \in Tasks : Live(t) => Driver = driven[t]
         /\ (\A t \in Tasks : ~Live(t)) => Driver = NoRun
<1>1. ASSUME NEW t \in Tasks, Live(t)
      PROVE  Driver = driven[t]
  <2>1. (CHOOSE u \in Tasks : Live(u)) = t
    BY <1>1 DEF IInv, SingleDriver
  <2>. QED
    BY <1>1, <2>1 DEF Driver
<1>. QED
  BY <1>1 DEF Driver

\* Every step of the server is a step of RunStatus or leaves it unchanged.
LEMMA StepRefines ==
  ASSUME IInv, IInv', [Next]_vars
  PROVE  [Lifecycle!Next]_(Lifecycle!vars)
<1> USE DEF Lifecycle!Next, Lifecycle!vars
<1>1. /\ \A t \in Tasks : Live(t) => Driver = driven[t]
      /\ (\A t \in Tasks : ~Live(t)) => Driver = NoRun
  BY DriverIs
<1>2. /\ \A t \in Tasks : Live(t)' => Driver' = driven'[t]
      /\ (\A t \in Tasks : ~Live(t)') => Driver' = NoRun
  <2>1. IInv' => (/\ \A t \in Tasks : Live(t) => Driver = driven[t]
                  /\ (\A t \in Tasks : ~Live(t)) => Driver = NoRun)'
    BY DriverIs, PTL
  <2>. QED
    BY <2>1
<1>3. CASE UNCHANGED <<record, driven, stage>>
  <2>1. UNCHANGED Driver
    BY <1>3 DEF Driver, Live
  <2>. QED
    BY <1>3, <2>1
\* The driver goes away without a write.
<1>4. ASSUME NEW t \in Tasks, Live(t), \A u \in Tasks : ~Live(u)', UNCHANGED record
      PROVE  Lifecycle!Lose
  BY <1>1, <1>2, <1>4, OnlyDriver, RunsAssumption DEF Lifecycle!Lose
<1>5. CASE Crash
  <2>1. \A u \in Tasks : ~Live(u)'
    BY <1>5 DEF Crash, Live, LiveStages
  <2>2. CASE \E t \in Tasks : Live(t)
    BY <1>4, <1>5, <2>1, <2>2 DEF Crash
  <2>3. CASE \A t \in Tasks : ~Live(t)
    BY <1>1, <1>2, <1>5, <2>1, <2>3 DEF Crash
  <2>. QED
    BY <2>2, <2>3
<1>6. ASSUME NEW r \in Runs, CreateRunBuildFails(r)
      PROVE  Lifecycle!Create(r)
  <2>1. \A u \in Tasks : ~Live(u) /\ ~Live(u)'
    BY <1>6, NoDriver DEF CreateRunBuildFails, IInv, Live
  <2>. QED
    BY <1>1, <1>2, <1>6, <2>1 DEF CreateRunBuildFails, SetStatus, Lifecycle!Create
<1>7. ASSUME NEW r \in Runs, NEW t \in Tasks, CreateRun(r, t)
      PROVE  Lifecycle!Create(r)
  <2>1. \A u \in Tasks : ~Live(u)
    BY <1>7, NoDriver DEF CreateRun, IInv
  <2>2. Live(t)' /\ driven'[t] = r
    BY <1>7, SpawnIInv DEF CreateRun
  <2>. QED
    BY <1>1, <1>2, <1>7, <2>1, <2>2 DEF CreateRun, SetStatus, Lifecycle!Create
<1>8. ASSUME NEW c \in Conns, NEW t \in Tasks, ResumeAccepted(c, t)
      PROVE  \E r \in Runs : Lifecycle!Resume(r)
  <2>1. req[c].run \in Runs /\ record[req[c].run] # "none"
    BY <1>8 DEF ResumeAccepted, IInv, RequestHasRun, ValidRequest
  <2>2. \A u \in Tasks : ~Live(u)
    BY <1>8, NoDriver DEF ResumeAccepted, IInv
  <2>3. Live(t)' /\ driven'[t] = req[c].run
    BY <1>8, <2>1, SpawnIInv DEF ResumeAccepted
  <2>. QED
    BY <1>1, <1>2, <1>8, <2>1, <2>2, <2>3 DEF ResumeAccepted, Lifecycle!Resume
<1>9. ASSUME NEW c \in Conns,
             RequestCall(c) \/ (RequestStep(c) /\ ~\E t \in Tasks : ResumeAccepted(c, t))
      PROVE  [Lifecycle!Next]_(Lifecycle!vars)
  <2>1. RequestOnly(c)
    BY <1>9, RequestSteps DEF RequestStep, IInv
  <2>. QED
    BY <1>3, <2>1 DEF RequestOnly
\* The live task moves on, or ends.
<1>10. ASSUME NEW t \in Tasks, Live(t), NEW s \in Stages, SetStage(t, s),
              UNCHANGED active_runs
       PROVE  /\ driven[t] \in Runs /\ Driver = driven[t]
              /\ s \in LiveStages => Driver' = driven[t]
              /\ s = "done" => (Driver' = NoRun /\ \A u \in Tasks : ~Live(u)')
  <2>1. driven[t] \in Runs /\ Driver = driven[t]
    BY <1>1, <1>10, OnlyDriver
  <2>2. /\ stage'[t] = s /\ driven'[t] = driven[t]
        /\ \A u \in Tasks : u # t => stage'[u] = "done"
    BY <1>10, SetStageIInv DEF SetStage
  <2>. QED
    BY <1>2, <2>1, <2>2 DEF Live, LiveStages
<1>11. ASSUME NEW t \in Tasks, FailRun(t), Live(t)
       PROVE  [Lifecycle!Next]_(Lifecycle!vars)
  <2>1. /\ driven[t] \in Runs /\ Driver = driven[t] /\ Driver' = NoRun
        /\ \A u \in Tasks : ~Live(u)'
    BY <1>10, <1>11 DEF FailRun, Stages
  <2>2. CASE SetStatus(driven[t], "failed")
    BY <2>1, <2>2 DEF SetStatus, Lifecycle!Fail
  <2>3. CASE UNCHANGED record
    BY <1>4, <1>11, <2>1, <2>3
  <2>. QED
    BY <1>11, <2>2, <2>3 DEF FailRun
<1>12. ASSUME NEW t \in Tasks, TaskStep(t)
       PROVE  [Lifecycle!Next]_(Lifecycle!vars)
  <2>1. CASE UpdateState(t)
    <3>1. Driver' = Driver
      BY <2>1, <1>10 DEF UpdateState, Stages, Live, LiveStages
    <3>. QED
      BY <2>1, <3>1 DEF UpdateState
  <2>2. CASE UpdateStateRaises(t)
    <3>1. Live(t) /\ \A u \in Tasks : ~Live(u)'
      BY <2>2, <1>10 DEF UpdateStateRaises, Stages, Live, LiveStages
    <3>. QED
      BY <2>2, <3>1, <1>4 DEF UpdateStateRaises
  <2>3. CASE MarkRunning(t)
    <3>1. driven[t] \in Runs /\ Driver = driven[t] /\ Driver' = Driver
      BY <2>3, <1>10 DEF MarkRunning, Stages, Live, LiveStages
    <3>. QED
      BY <2>3, <3>1 DEF MarkRunning, SetStatus, Lifecycle!Start
  <2>4. CASE MarkRunningFails(t) \/ InvokeRaises(t) \/ SnapshotRaises(t)
    BY <2>4, <1>11 DEF MarkRunningFails, InvokeRaises, SnapshotRaises, Live,
                       LiveStages
  <2>5. CASE GraphStep(t)
    BY <2>5, <1>3 DEF GraphStep
  <2>6. CASE InvokeReturns(t)
    <3>1. Driver' = Driver
      BY <2>6, <1>10 DEF InvokeReturns, Stages, Live, LiveStages
    <3>. QED
      BY <2>6, <3>1 DEF InvokeReturns
  <2>7. CASE SnapshotReturns(t)
    <3>1. driven[t] \in Runs /\ Driver = driven[t] /\ Driver' = NoRun
      BY <2>7, <1>10 DEF SnapshotReturns, Stages, Live, LiveStages
    <3>2. record[driven[t]] = "running"
      BY <2>7 DEF SnapshotReturns, IInv, ExecutingIsRunning
    <3>. QED
      BY <2>7, <3>1, <3>2 DEF SnapshotReturns, SetStatus, Lifecycle!Settle
  <2>. QED
    BY <1>12, <2>1, <2>2, <2>3, <2>4, <2>5, <2>6, <2>7 DEF TaskStep
<1>13. CASE UNCHANGED vars
  BY <1>3, <1>13 DEF vars
<1>14. ASSUME NEW c \in Conns, RequestStep(c)
       PROVE  [Lifecycle!Next]_(Lifecycle!vars)
  BY <1>8, <1>9, <1>14
<1>. QED
  BY <1>5, <1>6, <1>7, <1>9, <1>12, <1>13, <1>14 DEF Next

\* The server implements the abstract lifecycle: only the driven run's status
\* moves, and it settles only from "running".
THEOREM LifecycleRefinement == Spec => ImplementsRunStatus
<1>1. Init => IInv
  BY InitIInv
<1>2. IInv /\ [Next]_vars => IInv'
  BY Inductive
<1>3. Init => Lifecycle!Init
  BY InitIInv, DriverIs DEF Init, Lifecycle!Init, Live, LiveStages
<1>4. IInv /\ IInv' /\ [Next]_vars => [Lifecycle!Next]_(Lifecycle!vars)
  BY StepRefines
<1>. QED
  BY <1>1, <1>2, <1>3, <1>4, PTL DEF Spec, ImplementsRunStatus, Lifecycle!Spec
=============================================================================
