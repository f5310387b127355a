---------------------------- MODULE KaggleSubmit ----------------------------
(***************************************************************************)
(* Submissions to Kaggle: POST /api/runs/{id}/submit                       *)
(* (src/api/routers/kaggle.py), guarded by active_submissions, and         *)
(* KaggleClientNode, the last node of phase 7, which knows no guard.  Both *)
(* upload the submission.csv of an experiment directory and then read "the *)
(* latest" score (src/tools/kaggle_client.py, get_score) of a competition  *)
(* all modelled runs share; runs of other competitions do not meet.        *)
(*                                                                         *)
(* One action per stretch of a handler between two awaits, and per call of *)
(* the node that leaves the process.                                       *)
(***************************************************************************)
EXTENDS Integers, Sequences, FiniteSets

CONSTANTS
    Runs,
    Conns,          \* HTTP connections
    NoRun,
    MaxIterations,  \* bound: experiment directories per run
    MaxSubmissions, \* bound: submissions Kaggle accepts
    MaxLosses       \* bound: submission files that disappear

ASSUME RunsAssumption == NoRun \notin Runs
ASSUME BoundsAssumption ==
    MaxIterations \in Nat /\ MaxSubmissions \in Nat /\ MaxLosses \in Nat

VARIABLES
    current_iteration,    \* of each run; directories 0 .. it - 1 exist
    best_experiment_path, \* in the live checkpoint of each run
    bests,                \* history: every value it has had
    csv,                  \* the directories that hold a submission.csv
    losses,
    delivery,             \* what kaggle_client of each run is doing
    active_submissions,
    req,                  \* the request on each connection, or its last answer
    submissions,          \* on Kaggle, by date
    scored                \* the submissions Kaggle has scored

work == <<current_iteration, best_experiment_path, bests, csv, losses>>
vars == <<work, delivery, active_submissions, req, submissions, scored>>

Dirs == 0..(MaxIterations - 1)
NoDir == -1                 \* best_experiment_path = "", or nothing resolved
None == 0                   \* no submission made, or no score read
Indices == 1..MaxSubmissions

\* own is the submission this actor made, read the one whose score it reports.
Requests ==
    [pc : {"idle", "values", "resolving", "submitting", "scoring"},
     run : Runs \cup {NoRun}, dir : Dirs \cup {NoDir},
     own : Indices \cup {None}, read : Indices \cup {None}]

Deliveries ==
    [pc : {"design", "resolving", "submitting", "scoring", "done"},
     dir : Dirs \cup {NoDir},
     own : Indices \cup {None}, read : Indices \cup {None},
     submitted : BOOLEAN]

Request(pc, r, d, own, read) ==
    [pc |-> pc, run |-> r, dir |-> d, own |-> own, read |-> read]

Artifact(pc, d, own, read, submitted) ==
    [pc |-> pc, dir |-> d, own |-> own, read |-> read, submitted |-> submitted]

Submission == [by : {"api", "node"}, run : Runs, dir : Dirs]

TypeOK ==
    /\ current_iteration \in [Runs -> 0..MaxIterations]
    /\ best_experiment_path \in [Runs -> Dirs \cup {NoDir}]
    /\ bests \in [Runs -> SUBSET Dirs]
    /\ csv \in [Runs -> SUBSET Dirs]
    /\ losses \in 0..MaxLosses
    /\ delivery \in [Runs -> Deliveries]
    /\ active_submissions \in SUBSET Runs
    /\ req \in [Conns -> Requests]
    /\ submissions \in Seq(Submission)
    /\ Len(submissions) <= MaxSubmissions
    /\ scored \subseteq DOMAIN submissions

Init ==
    /\ current_iteration = [r \in Runs |-> 0]
    /\ best_experiment_path = [r \in Runs |-> NoDir]
    /\ bests = [r \in Runs |-> {}]
    /\ csv = [r \in Runs |-> {}]
    /\ losses = 0
    /\ delivery = [r \in Runs |-> Artifact("design", NoDir, None, None, FALSE)]
    /\ active_submissions = {}
    /\ req = [c \in Conns |-> Request("idle", NoRun, NoDir, None, None)]
    /\ submissions = <<>>
    /\ scored = {}

SetRequest(c, q) == req' = [req EXCEPT ![c] = q]

SetArtifact(r, a) == delivery' = [delivery EXCEPT ![r] = a]

-----------------------------------------------------------------------------
(* The pipeline and Kaggle, as far as the submitters see them              *)

\* Mutant: the directory is named after the next iteration.
IterateAhead(r) ==
    LET d == current_iteration[r] + 1
    IN  /\ delivery[r].pc = "design"
        /\ d <= MaxIterations
        /\ current_iteration' = [current_iteration EXCEPT ![r] = d]
        /\ csv' = [csv EXCEPT ![r] = @ \cup {d}]
        /\ UNCHANGED <<best_experiment_path, bests>>
    /\ UNCHANGED <<losses, delivery, active_submissions, req, submissions, scored>>

\* One loop of phases 4 to 6: coder's contract leaves a submission.csv, and
\* score_evaluator may find that the directory is the new best.
Iterate(r) ==
    LET d == current_iteration[r]
    IN  /\ delivery[r].pc = "design"
        /\ d < MaxIterations
        /\ current_iteration' = [current_iteration EXCEPT ![r] = d + 1]
        /\ csv' = [csv EXCEPT ![r] = @ \cup {d}]
        /\ \/ /\ best_experiment_path' = [best_experiment_path EXCEPT ![r] = d]
              /\ bests' = [bests EXCEPT ![r] = @ \cup {d}]
           \/ UNCHANGED <<best_experiment_path, bests>>
    /\ UNCHANGED <<losses, delivery, active_submissions, req, submissions, scored>>

\* The supervisor is out of patience, after at least one evaluation.
Deliver(r) ==
    /\ delivery[r].pc = "design"
    /\ current_iteration[r] > 0
    /\ SetArtifact(r, Artifact("resolving", NoDir, None, None, FALSE))
    /\ UNCHANGED <<work, active_submissions, req, submissions, scored>>

\* A submission file disappears from the workspace.
LoseFile(r, d) ==
    /\ losses < MaxLosses
    /\ d \in csv[r]
    /\ losses' = losses + 1
    /\ csv' = [csv EXCEPT ![r] = @ \ {d}]
    /\ UNCHANGED <<current_iteration, best_experiment_path, bests, delivery,
                   active_submissions, req, submissions, scored>>

\* Kaggle scores a submission minutes after it accepted it.
Score(i) ==
    /\ i \in DOMAIN submissions \ scored
    /\ scored' = scored \cup {i}
    /\ UNCHANGED <<work, delivery, active_submissions, req, submissions>>

\* competition_submit reads the file and Kaggle accepts it.
Accept(by, r, d) ==
    /\ d \in csv[r]
    /\ Len(submissions) < MaxSubmissions
    /\ submissions' = Append(submissions, [by |-> by, run |-> r, dir |-> d])
    /\ UNCHANGED scored

\* Mutant: get_score takes the newest submission that has a score.
NewestScored ==
    IF scored = {} THEN None
    ELSE CHOOSE i \in scored : \A j \in scored : j <= i

\* get_score: the score of the submission with the greatest date; float(None)
\* of one that has no score yet is the TypeError both callers answer with null.
LatestScore ==
    IF Len(submissions) \in scored THEN Len(submissions) ELSE None

-----------------------------------------------------------------------------
(* POST /api/runs/{id}/submit                                              *)

Goto(c, pc, d) == SetRequest(c, Request(pc, req[c].run, d, None, None))

\* Mutant: the refusal runs into the "finally" of the accepted request.
SubmitRefusedReleases(c, r) ==
    /\ req[c].pc = "idle"
    /\ r \in active_submissions
    /\ active_submissions' = active_submissions \ {r}
    /\ UNCHANGED <<work, delivery, req, submissions, scored>>

\* 409: a submission for this run is already in progress.
SubmitRefused(c, r) ==
    /\ req[c].pc = "idle"
    /\ r \in active_submissions
    /\ UNCHANGED vars

\* submit_run up to its first await: the check and the registration.  A run
\* without a record is answered 404 in the same stretch, which changes nothing.
SubmitCall(c, r) ==
    /\ req[c].pc = "idle"
    /\ r \notin active_submissions
    /\ active_submissions' = active_submissions \cup {r}
    /\ SetRequest(c, Request("values", r, NoDir, None, None))
    /\ UNCHANGED <<work, delivery, submissions, scored>>

\* Mutant: only a request that was answered with a score lets go.
FinishScored(c, own, read) ==
    /\ SetRequest(c, Request("idle", req[c].run, req[c].dir, own, read))
    /\ active_submissions' =
         IF read = None THEN active_submissions
         ELSE active_submissions \ {req[c].run}

\* The finally of submit_run, whatever the answer.
Finish(c, own, read) ==
    /\ SetRequest(c, Request("idle", req[c].run, req[c].dir, own, read))
    /\ active_submissions' = active_submissions \ {req[c].run}

\* Mutant: a run without a best experiment submits its last directory.
ReadValuesOrGuess(c) ==
    LET r == req[c].run
        last == current_iteration[r] - 1
        best == IF best_experiment_path[r] = NoDir THEN last
                ELSE best_experiment_path[r]
    IN  /\ req[c].pc = "values"
        /\ best # NoDir
        /\ Goto(c, "resolving", best)
        /\ UNCHANGED <<work, delivery, active_submissions, submissions, scored>>

\* best_experiment_path of the live checkpoint.
ReadValues(c) ==
    LET best == best_experiment_path[req[c].run]
    IN  /\ req[c].pc = "values"
        /\ best # NoDir
        /\ Goto(c, "resolving", best)
        /\ UNCHANGED <<work, delivery, active_submissions, submissions, scored>>

\* _resolve_submission_path finds the file.
Resolve(c) ==
    /\ req[c].pc = "resolving"
    /\ req[c].dir \in csv[req[c].run]
    /\ Goto(c, "submitting", req[c].dir)
    /\ UNCHANGED <<work, delivery, active_submissions, submissions, scored>>

\* 409 or 500: no best experiment, no file, or a read that raises.
SubmitFailsEarly(c) ==
    /\ req[c].pc \in {"values", "resolving"}
    /\ Finish(c, None, None)
    /\ UNCHANGED <<work, delivery, submissions, scored>>

Submit(c) ==
    /\ req[c].pc = "submitting"
    /\ Accept("api", req[c].run, req[c].dir)
    /\ SetRequest(c, Request("scoring", req[c].run, req[c].dir, Len(submissions'), None))
    /\ UNCHANGED <<work, delivery, active_submissions>>

\* 409, 502 or 503: the upload failed, or it went through and the answer was
\* lost; the client is not told which.
SubmitRaises(c) ==
    /\ req[c].pc = "submitting"
    /\ \/ Accept("api", req[c].run, req[c].dir)
       \/ UNCHANGED <<submissions, scored>>
    /\ Finish(c, None, None)
    /\ UNCHANGED <<work, delivery>>

\* 200, with null while the latest submission has no score; or 502.
ReadScore(c) ==
    /\ req[c].pc = "scoring"
    /\ \E read \in {LatestScore, None} : Finish(c, req[c].own, read)
    /\ UNCHANGED <<work, delivery, submissions, scored>>

-----------------------------------------------------------------------------
(* KaggleClientNode.run                                                    *)

\* _resolve_submission: the best directory, else that of the last iteration.
Candidates(r) == {best_experiment_path[r], current_iteration[r] - 1} \cap csv[r]

\* No workspace, no competition name or no file: the API is not touched.
NodeFindsNothing(r) ==
    /\ delivery[r].pc = "resolving"
    /\ SetArtifact(r, Artifact("done", delivery[r].dir, None, None, FALSE))
    /\ UNCHANGED <<work, active_submissions, req, submissions, scored>>

NodeResolves(r) ==
    /\ delivery[r].pc = "resolving"
    /\ \E d \in Candidates(r) :
         /\ best_experiment_path[r] \in Candidates(r) => d = best_experiment_path[r]
         /\ SetArtifact(r, Artifact("submitting", d, None, None, FALSE))
    /\ UNCHANGED <<work, active_submissions, req, submissions, scored>>

NodeSubmits(r) ==
    /\ delivery[r].pc = "submitting"
    /\ Accept("node", r, delivery[r].dir)
    /\ SetArtifact(r, Artifact("scoring", delivery[r].dir, Len(submissions'), None, FALSE))
    /\ UNCHANGED <<work, active_submissions, req>>

\* Any exception of submit: the artifact says "not submitted".
NodeSubmitRaises(r) ==
    /\ delivery[r].pc = "submitting"
    /\ \/ Accept("node", r, delivery[r].dir)
       \/ UNCHANGED <<submissions, scored>>
    /\ SetArtifact(r, Artifact("done", delivery[r].dir, None, None, FALSE))
    /\ UNCHANGED <<work, active_submissions, req>>

\* _read_leaderboard_score and the artifact.
NodeReadsScore(r) ==
    /\ delivery[r].pc = "scoring"
    /\ \E read \in {LatestScore, None} :
         SetArtifact(r, Artifact("done", delivery[r].dir, delivery[r].own, read, TRUE))
    /\ UNCHANGED <<work, active_submissions, req, submissions, scored>>

-----------------------------------------------------------------------------

RequestStep(c) ==
    \/ ReadValues(c) \/ Resolve(c) \/ SubmitFailsEarly(c)
    \/ Submit(c) \/ SubmitRaises(c) \/ ReadScore(c)

NodeStep(r) ==
    \/ NodeFindsNothing(r) \/ NodeResolves(r)
    \/ NodeSubmits(r) \/ NodeSubmitRaises(r) \/ NodeReadsScore(r)

Next ==
    \/ \E c \in Conns, r \in Runs : SubmitCall(c, r) \/ SubmitRefused(c, r)
    \/ \E c \in Conns : RequestStep(c)
    \/ \E r \in Runs : Iterate(r) \/ Deliver(r) \/ NodeStep(r)
    \/ \E r \in Runs, d \in Dirs : LoseFile(r, d)
    \/ \E i \in Indices : Score(i)

Spec == Init /\ [][Next]_vars

\* Handlers and nodes are scheduled and every call of the API returns or
\* raises.  No client has to submit and Kaggle may never score.
FairSpec ==
    /\ Spec
    /\ \A c \in Conns : WF_vars(RequestStep(c))
    /\ \A r \in Runs : WF_vars(NodeStep(r))

-----------------------------------------------------------------------------
(* Properties                                                              *)

InFlight(c, r) == req[c].pc # "idle" /\ req[c].run = r

\* The guard holds exactly the runs that a request is submitting, and of each
\* there is one: a double click can neither submit twice nor, by its refusal,
\* release the run; and no failure leaves a run that can never be submitted.
GuardMatchesRequests ==
    /\ active_submissions = {r \in Runs : \E c \in Conns : InFlight(c, r)}
    /\ \A r \in Runs, c, d \in Conns : InFlight(c, r) /\ InFlight(d, r) => c = d

\* The button submits a directory that has been the best of its run, never a
\* guessed one (docs/api.md:57-58), however the run moves on meanwhile.
NeverGuessed ==
    \A i \in DOMAIN submissions :
        submissions[i].by = "api" => submissions[i].dir \in bests[submissions[i].run]

\* Who says that it submitted did, and a score it reports is not older than
\* its own submission: it is its own, or that of someone who came after it.
ReportsAreTrue ==
    /\ \A c \in Conns :
         req[c].read # None => req[c].own # None /\ req[c].read >= req[c].own
    /\ \A c \in Conns :
         req[c].own # None => /\ submissions[req[c].own].by = "api"
                              /\ submissions[req[c].own].run = req[c].run
                              /\ submissions[req[c].own].dir = req[c].dir
    /\ \A r \in Runs :
         LET artifact == delivery[r]
         IN  /\ artifact.read # None => artifact.read >= artifact.own
             /\ artifact.submitted =>
                  /\ artifact.own # None
                  /\ submissions[artifact.own] =
                       [by |-> "node", run |-> r, dir |-> artifact.dir]

\* A request uploads what has been the best of its run, and reports the score
\* of its own upload or of a later one.
GoodRequest(q, known, made) ==
    /\ q.pc # "idle" => q.run \in Runs
    /\ q.pc \in {"resolving", "submitting"} => q.dir \in known[q.run]
    /\ q.pc = "scoring" => q.own # None
    /\ q.own \in DOMAIN made \cup {None}
    /\ q.own # None => /\ q.run \in Runs
                       /\ made[q.own] = [by |-> "api", run |-> q.run, dir |-> q.dir]
    /\ q.read # None => q.own # None /\ q.read >= q.own

\* So does the node, and what it writes down happened.
GoodArtifact(r, a, made) ==
    /\ a.pc = "scoring" => a.own # None
    /\ a.submitted => a.own # None
    /\ a.own \in DOMAIN made \cup {None}
    /\ a.own # None => made[a.own] = [by |-> "node", run |-> r, dir |-> a.dir]
    /\ a.read # None => a.read >= a.own
    /\ a.pc = "submitting" => a.dir \in Dirs

\* The inductive invariant of the submissions.
IInv ==
    /\ TypeOK
    /\ GuardMatchesRequests
    /\ \A r \in Runs : best_experiment_path[r] # NoDir => best_experiment_path[r] \in bests[r]
    /\ NeverGuessed
    /\ \A c \in Conns : GoodRequest(req[c], bests, submissions)
    /\ \A r \in Runs : GoodArtifact(r, delivery[r], submissions)

\* Every request is answered and phase 7 always ends, whatever Kaggle does.
SubmissionsEnd ==
    /\ \A r \in Runs : []<>(r \notin active_submissions)
    /\ \A r \in Runs : delivery[r].pc # "design" ~> delivery[r].pc = "done"
=============================================================================
