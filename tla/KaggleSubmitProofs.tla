------------------------- MODULE KaggleSubmitProofs -------------------------
(* Theorems about KaggleSubmit, for any runs, connections and bounds.      *)
EXTENDS KaggleSubmit, TLAPS

LEMMA ConstantTypes ==
    /\ Dirs \in SUBSET Int
    /\ Indices \in SUBSET Nat
    /\ None \notin Indices
    /\ NoDir \notin Dirs
  BY BoundsAssumption DEF Dirs, Indices, None, NoDir

\* The shape of one request and of one node.
LEMMA Fields ==
    ASSUME TypeOK
    PROVE  /\ \A c \in Conns :
                /\ req[c] \in Requests
                /\ req[c].run \in Runs \cup {NoRun}
                /\ req[c].dir \in Dirs \cup {NoDir}
                /\ req[c].own \in Indices \cup {None}
                /\ req[c].read \in Indices \cup {None}
           /\ \A r \in Runs :
                /\ delivery[r] \in Deliveries
                /\ delivery[r].dir \in Dirs \cup {NoDir}
                /\ delivery[r].own \in Indices \cup {None}
                /\ delivery[r].read \in Indices \cup {None}
  BY DEF TypeOK, Requests, Deliveries

\* A constructor builds a member of its set and gives each field its argument.
LEMMA RequestMade ==
    ASSUME NEW pc \in {"idle", "values", "resolving", "submitting", "scoring"},
           NEW r \in Runs \cup {NoRun}, NEW d \in Dirs \cup {NoDir},
           NEW own \in Indices \cup {None}, NEW read \in Indices \cup {None}
    PROVE  /\ Request(pc, r, d, own, read) \in Requests
           /\ Request(pc, r, d, own, read).pc = pc
           /\ Request(pc, r, d, own, read).run = r
           /\ Request(pc, r, d, own, read).dir = d
           /\ Request(pc, r, d, own, read).own = own
           /\ Request(pc, r, d, own, read).read = read
  BY DEF Request, Requests

LEMMA ArtifactMade ==
    ASSUME NEW pc \in {"design", "resolving", "submitting", "scoring", "done"},
           NEW d \in Dirs \cup {NoDir}, NEW own \in Indices \cup {None},
           NEW read \in Indices \cup {None}, NEW submitted \in BOOLEAN
    PROVE  /\ Artifact(pc, d, own, read, submitted) \in Deliveries
           /\ Artifact(pc, d, own, read, submitted).pc = pc
           /\ Artifact(pc, d, own, read, submitted).dir = d
           /\ Artifact(pc, d, own, read, submitted).own = own
           /\ Artifact(pc, d, own, read, submitted).read = read
           /\ Artifact(pc, d, own, read, submitted).submitted = submitted
  BY DEF Artifact, Deliveries

LEMMA RequestSet ==
    ASSUME TypeOK, NEW c \in Conns, NEW q \in Requests, SetRequest(c, q)
    PROVE  /\ req' \in [Conns -> Requests]
           /\ req'[c] = q
           /\ \A d \in Conns \ {c} : req'[d] = req[d]
  BY DEF TypeOK, SetRequest

LEMMA ArtifactSet ==
    ASSUME TypeOK, NEW r \in Runs, NEW a \in Deliveries, SetArtifact(r, a)
    PROVE  /\ delivery' \in [Runs -> Deliveries]
           /\ delivery'[r] = a
           /\ \A s \in Runs \ {r} : delivery'[s] = delivery[s]
  BY DEF TypeOK, SetArtifact

\* An upload is added to the submissions, which stay what they were.
LEMMA Accepted ==
    ASSUME TypeOK, NEW by \in {"api", "node"}, NEW r \in Runs, NEW d, Accept(by, r, d)
    PROVE  /\ d \in Dirs
           /\ submissions' \in Seq(Submission)
           /\ Len(submissions') \in Indices
           /\ DOMAIN submissions' = DOMAIN submissions \cup {Len(submissions')}
           /\ Len(submissions') \notin DOMAIN submissions
           /\ Len(submissions') <= MaxSubmissions
           /\ scored' \subseteq DOMAIN submissions'
           /\ submissions'[Len(submissions')] = [by |-> by, run |-> r, dir |-> d]
           /\ \A i \in DOMAIN submissions : submissions'[i] = submissions[i]
<1>1. d \in Dirs
  BY DEF TypeOK, Accept
<1> DEFINE s == [by |-> by, run |-> r, dir |-> d]
<1>2. s \in Submission
  BY <1>1 DEF Submission
<1>3. submissions \in Seq(Submission) /\ Len(submissions) \in Nat
  BY DEF TypeOK
<1>4. submissions' = Append(submissions, s)
  BY DEF Accept
<1> HIDE DEF s
<1>5. /\ submissions' \in Seq(Submission)
      /\ Len(submissions') = Len(submissions) + 1
      /\ DOMAIN submissions' = 1..(Len(submissions) + 1)
      /\ DOMAIN submissions = 1..Len(submissions)
      /\ submissions'[Len(submissions) + 1] = s
      /\ \A i \in 1..Len(submissions) : submissions'[i] = submissions[i]
  BY <1>2, <1>3, <1>4
<1>6. Len(submissions) < MaxSubmissions /\ scored' = scored
  BY DEF Accept
<1>7. scored \subseteq DOMAIN submissions
  BY DEF TypeOK
<1>8. Len(submissions') \in Indices /\ Len(submissions') <= MaxSubmissions
  BY <1>3, <1>5, <1>6, BoundsAssumption DEF Indices
<1>9. /\ DOMAIN submissions' = DOMAIN submissions \cup {Len(submissions')}
      /\ Len(submissions') \notin DOMAIN submissions
  BY <1>3, <1>5
<1>10. scored' \subseteq DOMAIN submissions'
  BY <1>6, <1>7, <1>9
<1>11. submissions'[Len(submissions')] = [by |-> by, run |-> r, dir |-> d]
  BY <1>5 DEF s
<1>12. \A i \in DOMAIN submissions : submissions'[i] = submissions[i]
  BY <1>5
<1>13. QED BY <1>1, <1>5, <1>8, <1>9, <1>10, <1>11, <1>12

\* The score read is that of the newest submission, so of no older one.
LEMMA ScoreIsNewest ==
    ASSUME TypeOK
    PROVE  /\ LatestScore \in Indices \cup {None}
           /\ LatestScore # None => \A i \in DOMAIN submissions : LatestScore >= i
<1>1. submissions \in Seq(Submission) /\ Len(submissions) <= MaxSubmissions
      /\ scored \subseteq DOMAIN submissions
  BY DEF TypeOK
<1>2. Len(submissions) \in Nat /\ DOMAIN submissions = 1..Len(submissions)
  BY <1>1
<1>3. CASE Len(submissions) \in scored
  BY <1>1, <1>2, <1>3, BoundsAssumption DEF LatestScore, Indices
<1>4. CASE Len(submissions) \notin scored
  BY <1>4 DEF LatestScore
<1>5. QED BY <1>3, <1>4

-----------------------------------------------------------------------------

\* The submissions after a step: none is lost or changed.
Grown ==
    /\ submissions' \in Seq(Submission)
    /\ Len(submissions') <= MaxSubmissions
    /\ scored' \subseteq DOMAIN submissions'
    /\ DOMAIN submissions \subseteq DOMAIN submissions'
    /\ \A i \in DOMAIN submissions : submissions'[i] = submissions[i]

LEMMA GrownByNothing ==
    ASSUME TypeOK, UNCHANGED <<submissions, scored>>
    PROVE  Grown
  BY DEF TypeOK, Grown

LEMMA GrownByUpload ==
    ASSUME TypeOK, NEW by \in {"api", "node"}, NEW r \in Runs, NEW d, Accept(by, r, d)
    PROVE  Grown
  BY Accepted DEF Grown

\* What was said of a request or of a node is true after more uploads, and
\* after the run has had more best directories.
LEMMA SubmissionsGrow ==
    ASSUME IInv, Grown, \A r \in Runs : bests[r] \subseteq bests'[r]
    PROVE  /\ \A q \in Requests : 
                GoodRequest(q, bests, submissions) => GoodRequest(q, bests', submissions')
           /\ \A r \in Runs, a \in Deliveries : 
                GoodArtifact(r, a, submissions) => GoodArtifact(r, a, submissions')
<1>1. ASSUME NEW q \in Requests, GoodRequest(q, bests, submissions)
      PROVE  GoodRequest(q, bests', submissions')
  <2>1. q.own # None => submissions'[q.own] = submissions[q.own]
    BY <1>1 DEF GoodRequest, Grown
  <2>2. q.pc \in {"resolving", "submitting"} => q.dir \in bests'[q.run]
    BY <1>1 DEF GoodRequest
  <2>3. QED BY <1>1, <2>1, <2>2 DEF GoodRequest, Grown
<1>2. ASSUME NEW r \in Runs, NEW a \in Deliveries, GoodArtifact(r, a, submissions)
      PROVE  GoodArtifact(r, a, submissions')
  <2>1. a.own # None => submissions'[a.own] = submissions[a.own]
    BY <1>2 DEF GoodArtifact, Grown
  <2>2. QED BY <1>2, <2>1 DEF GoodArtifact, Grown
<1>3. QED BY <1>1, <1>2

\* A request that goes on keeps its run to itself.
LEMMA GoesOn ==
    ASSUME TypeOK, GuardMatchesRequests, NEW c \in Conns, NEW q \in Requests,
           SetRequest(c, q), req[c].pc # "idle", q.pc # "idle", q.run = req[c].run,
           UNCHANGED active_submissions
    PROVE  GuardMatchesRequests'
<1>1. req'[c] = q /\ \A d \in Conns \ {c} : req'[d] = req[d]
  BY RequestSet
<1>2. \A d \in Conns, r \in Runs : InFlight(d, r)' <=> InFlight(d, r)
  BY <1>1 DEF InFlight
<1>3. QED BY <1>2 DEF GuardMatchesRequests

\* A request that ends lets its run go; nobody else was submitting it.
LEMMA LetsGo ==
    ASSUME TypeOK, GuardMatchesRequests, NEW c \in Conns, NEW q \in Requests,
           SetRequest(c, q), req[c].pc # "idle", req[c].run \in Runs, q.pc = "idle",
           active_submissions' = active_submissions \ {req[c].run}
    PROVE  GuardMatchesRequests'
<1>1. req'[c] = q /\ \A d \in Conns \ {c} : req'[d] = req[d]
  BY RequestSet
<1>2. \A d \in Conns, r \in Runs : InFlight(d, r)' <=> d # c /\ InFlight(d, r)
  BY <1>1 DEF InFlight
<1>3. InFlight(c, req[c].run)
  BY DEF InFlight
<1>4. \A d \in Conns : InFlight(d, req[c].run) => d = c
  BY <1>3 DEF GuardMatchesRequests
<1>5. \A r \in Runs : InFlight(c, r) => r = req[c].run
  BY DEF InFlight
<1>6. \A r \in Runs :
        r \in active_submissions' <=> \E d \in Conns : InFlight(d, r)'
  BY <1>2, <1>4, <1>5 DEF GuardMatchesRequests
<1>7. active_submissions' \subseteq Runs
  BY DEF GuardMatchesRequests
<1>8. active_submissions' = {r \in Runs : \E d \in Conns : InFlight(d, r)'}
  BY <1>6, <1>7
<1>9. QED BY <1>2, <1>8 DEF GuardMatchesRequests

\* An upload of the node, or of a directory that has been the best, guesses
\* nothing; neither does a step without an upload.
LEMMA UploadsKnown ==
    ASSUME TypeOK, NeverGuessed, NEW by \in {"api", "node"}, NEW r \in Runs, NEW d,
           Accept(by, r, d), by = "api" => d \in bests[r], UNCHANGED bests
    PROVE  NeverGuessed'
<1>1. /\ DOMAIN submissions' = DOMAIN submissions \cup {Len(submissions')}
      /\ submissions'[Len(submissions')] = [by |-> by, run |-> r, dir |-> d]
      /\ \A i \in DOMAIN submissions : submissions'[i] = submissions[i]
  BY Accepted
<1>2. SUFFICES ASSUME NEW i \in DOMAIN submissions', submissions'[i].by = "api"
               PROVE  submissions'[i].dir \in bests[submissions'[i].run]
  BY DEF NeverGuessed
<1>3. CASE i \in DOMAIN submissions
  BY <1>1, <1>2, <1>3 DEF NeverGuessed
<1>4. CASE i = Len(submissions')
  BY <1>1, <1>2, <1>4
<1>5. QED BY <1>1, <1>3, <1>4

\* A step of a request.
LEMMA RequestMoves ==
    ASSUME IInv, NEW c \in Conns, NEW q \in Requests, SetRequest(c, q),
           UNCHANGED <<work, delivery>>, Grown,
           GoodRequest(q, bests', submissions'), NeverGuessed', GuardMatchesRequests'
    PROVE  IInv'
<1>1. TypeOK /\ \A r \in Runs : bests[r] \subseteq bests'[r]
  BY DEF IInv, work
<1>2. /\ req' \in [Conns -> Requests]
      /\ req'[c] = q
      /\ \A d \in Conns \ {c} : req'[d] = req[d]
  BY <1>1, RequestSet
<1>3. TypeOK'
  BY <1>1, <1>2 DEF TypeOK, work, GuardMatchesRequests, Grown
<1>4. \A d \in Conns : GoodRequest(req'[d], bests', submissions')
  <2>1. SUFFICES ASSUME NEW d \in Conns, d # c
                 PROVE  GoodRequest(req'[d], bests', submissions')
    BY <1>2
  <2>2. req[d] \in Requests /\ GoodRequest(req[d], bests, submissions)
    BY <1>1, Fields DEF IInv
  <2>3. req'[d] = req[d]
    BY <1>2, <2>1
  <2>4. QED BY <1>1, <2>2, <2>3, SubmissionsGrow
<1>5. \A r \in Runs : GoodArtifact(r, delivery'[r], submissions')
  <2>1. SUFFICES ASSUME NEW r \in Runs
                 PROVE  GoodArtifact(r, delivery'[r], submissions')
    OBVIOUS
  <2>2. delivery[r] \in Deliveries /\ GoodArtifact(r, delivery[r], submissions)
    BY <1>1, Fields DEF IInv
  <2>3. delivery'[r] = delivery[r]
    OBVIOUS
  <2>4. QED BY <1>1, <2>2, <2>3, SubmissionsGrow
<1>6. \A r \in Runs :
        best_experiment_path'[r] # NoDir => best_experiment_path'[r] \in bests'[r]
  BY DEF IInv, work
<1>7. QED BY <1>3, <1>4, <1>5, <1>6 DEF IInv
\* A step of the node of r.
LEMMA NodeMoves ==
    ASSUME IInv, NEW r \in Runs, NEW a \in Deliveries, SetArtifact(r, a),
           UNCHANGED <<work, active_submissions, req>>, Grown,
           GoodArtifact(r, a, submissions'), NeverGuessed'
    PROVE  IInv'
<1>1. TypeOK /\ \A s \in Runs : bests[s] \subseteq bests'[s]
  BY DEF IInv, work
<1>2. /\ delivery' \in [Runs -> Deliveries]
      /\ delivery'[r] = a
      /\ \A s \in Runs \ {r} : delivery'[s] = delivery[s]
  BY <1>1, ArtifactSet
<1>3. TypeOK'
  BY <1>1, <1>2 DEF TypeOK, work, Grown
<1>4. \A s \in Runs : GoodArtifact(s, delivery'[s], submissions')
  <2>1. SUFFICES ASSUME NEW s \in Runs, s # r
                 PROVE  GoodArtifact(s, delivery'[s], submissions')
    BY <1>2
  <2>2. delivery[s] \in Deliveries /\ GoodArtifact(s, delivery[s], submissions)
    BY <1>1, Fields DEF IInv
  <2>3. delivery'[s] = delivery[s]
    BY <1>2, <2>1
  <2>4. QED BY <1>1, <2>2, <2>3, SubmissionsGrow
<1>5. \A c \in Conns : GoodRequest(req'[c], bests', submissions')
  <2>1. SUFFICES ASSUME NEW c \in Conns
                 PROVE  GoodRequest(req[c], bests', submissions')
    OBVIOUS
  <2>2. req[c] \in Requests /\ GoodRequest(req[c], bests, submissions)
    BY <1>1, Fields DEF IInv
  <2>3. QED BY <1>1, <2>2, SubmissionsGrow
<1>6. GuardMatchesRequests'
  BY DEF IInv, GuardMatchesRequests, InFlight
<1>7. \A s \in Runs :
        best_experiment_path'[s] # NoDir => best_experiment_path'[s] \in bests'[s]
  BY DEF IInv, work
<1>8. QED BY <1>3, <1>4, <1>5, <1>6, <1>7 DEF IInv

-----------------------------------------------------------------------------

LEMMA InitInv == Init => IInv
<1> SUFFICES ASSUME Init PROVE IInv
  OBVIOUS
<1>1. req \in [Conns -> Requests] /\ delivery \in [Runs -> Deliveries]
  BY RequestMade, ArtifactMade, ZenonT(40) DEF Init
<1>2. submissions \in Seq(Submission) /\ Len(submissions) = 0 /\ DOMAIN submissions = {}
  BY DEF Init
<1>3. TypeOK
  <2>1. /\ current_iteration \in [Runs -> 0..MaxIterations]
        /\ best_experiment_path \in [Runs -> Dirs \cup {NoDir}]
        /\ bests \in [Runs -> SUBSET Dirs] /\ csv \in [Runs -> SUBSET Dirs]
        /\ losses \in 0..MaxLosses
    BY BoundsAssumption DEF Init
  <2>2. /\ active_submissions \in SUBSET Runs
        /\ Len(submissions) <= MaxSubmissions
        /\ scored \subseteq DOMAIN submissions
    BY <1>2, BoundsAssumption DEF Init
  <2>3. QED BY <1>1, <1>2, <2>1, <2>2 DEF TypeOK
<1>4. \A c \in Conns : GoodRequest(req[c], bests, submissions) /\ req[c].pc = "idle"
  BY DEF Init, GoodRequest, Request
<1>5. \A r \in Runs : GoodArtifact(r, delivery[r], submissions)
  BY DEF Init, GoodArtifact, Artifact
<1>6. GuardMatchesRequests
  BY <1>4 DEF Init, GuardMatchesRequests, InFlight
<1>7. NeverGuessed
  BY <1>2 DEF NeverGuessed
<1>8. QED BY <1>3, <1>4, <1>5, <1>6, <1>7 DEF Init, IInv

-----------------------------------------------------------------------------
(* One request                                                             *)

LEMMA SubmitCallInv ==
    ASSUME IInv, NEW c \in Conns, NEW r \in Runs, SubmitCall(c, r)
    PROVE  IInv'
<1> DEFINE q == Request("values", r, NoDir, None, None)
<1>1. TypeOK /\ GuardMatchesRequests /\ NeverGuessed
  BY DEF IInv
<1>2. /\ req[c].pc = "idle" /\ r \notin active_submissions
      /\ active_submissions' = active_submissions \cup {r}
      /\ SetRequest(c, q)
      /\ UNCHANGED <<work, delivery, submissions, scored>>
  BY DEF SubmitCall
<1>3. /\ q \in Requests /\ q.pc = "values" /\ q.run = r
      /\ q.own = None /\ q.read = None
  BY RequestMade
<1> HIDE DEF q
<1>4. /\ req'[c] = q
      /\ \A d \in Conns \ {c} : req'[d] = req[d]
  BY <1>1, <1>2, <1>3, RequestSet
<1>5. \A d \in Conns, s \in Runs :
        InFlight(d, s)' <=> InFlight(d, s) \/ (d = c /\ s = r)
  BY <1>2, <1>3, <1>4 DEF InFlight
<1>6. \A d \in Conns : ~InFlight(d, r)
  BY <1>1, <1>2 DEF GuardMatchesRequests
<1>7. active_submissions' = {s \in Runs : \E d \in Conns : InFlight(d, s)'}
  BY <1>1, <1>2, <1>5 DEF GuardMatchesRequests
<1>8. GuardMatchesRequests'
  BY <1>1, <1>5, <1>6, <1>7 DEF GuardMatchesRequests
<1>9. GoodRequest(q, bests', submissions')
  BY <1>3 DEF GoodRequest
<1>10. Grown /\ NeverGuessed'
  BY <1>1, <1>2, GrownByNothing DEF NeverGuessed, work
<1>11. QED BY <1>2, <1>3, <1>8, <1>9, <1>10, RequestMoves

\* The run and the directory of a request in flight.
LEMMA InFlightRun ==
    ASSUME IInv, NEW c \in Conns, req[c].pc # "idle"
    PROVE  req[c].run \in Runs
  BY DEF IInv, GoodRequest

\* ReadValues and Resolve.
LEMMA GotoInv ==
    ASSUME IInv, NEW c \in Conns, ReadValues(c) \/ Resolve(c)
    PROVE  IInv'
<1>1. TypeOK /\ GuardMatchesRequests /\ NeverGuessed
  BY DEF IInv
<1>2. PICK pc \in {"resolving", "submitting"}, d \in bests[req[c].run] :
        /\ req[c].pc # "idle"
        /\ SetRequest(c, Request(pc, req[c].run, d, None, None))
        /\ UNCHANGED <<work, delivery, active_submissions, submissions, scored>>
  <2>1. CASE ReadValues(c)
    <3>1. best_experiment_path[req[c].run] \in bests[req[c].run]
      BY <2>1, InFlightRun DEF ReadValues, IInv
    <3>2. QED BY <2>1, <3>1 DEF ReadValues, Goto
  <2>2. CASE Resolve(c)
    <3>1. req[c].dir \in bests[req[c].run]
      BY <2>2 DEF Resolve, IInv, GoodRequest
    <3>2. QED BY <2>2, <3>1 DEF Resolve, Goto
  <2>3. QED BY <2>1, <2>2
<1> DEFINE q == Request(pc, req[c].run, d, None, None)
<1>3. req[c].run \in Runs
  BY <1>2, InFlightRun
<1>4. /\ pc \in {"idle", "values", "resolving", "submitting", "scoring"}
      /\ req[c].run \in Runs \cup {NoRun}
      /\ d \in Dirs \cup {NoDir}
      /\ None \in Indices \cup {None}
  BY <1>1, <1>3 DEF TypeOK
<1>5. /\ q \in Requests /\ q.pc = pc /\ q.run = req[c].run /\ q.dir = d
      /\ q.own = None /\ q.read = None
  BY <1>3, <1>4, RequestMade
<1>6. SetRequest(c, q)
  BY <1>2
<1> HIDE DEF q
<1>7. GuardMatchesRequests'
  BY <1>1, <1>2, <1>5, <1>6, GoesOn
<1>8. GoodRequest(q, bests', submissions')
  BY <1>2, <1>3, <1>5 DEF GoodRequest, work
<1>9. Grown /\ NeverGuessed'
  BY <1>1, <1>2, GrownByNothing DEF NeverGuessed, work
<1>10. QED BY <1>2, <1>5, <1>6, <1>7, <1>8, <1>9, RequestMoves

\* Every way a request is answered, whatever it has uploaded.
LEMMA FinishInv ==
    ASSUME IInv, NEW c \in Conns, req[c].pc # "idle",
           NEW own \in Indices \cup {None}, NEW read \in Indices \cup {None},
           Finish(c, own, read), UNCHANGED <<work, delivery>>, Grown, NeverGuessed',
           own \in DOMAIN submissions' \cup {None},
           own # None => submissions'[own] =
                           [by |-> "api", run |-> req[c].run, dir |-> req[c].dir],
           read # None => own # None /\ read >= own
    PROVE  IInv'
<1> DEFINE q == Request("idle", req[c].run, req[c].dir, own, read)
<1>1. TypeOK /\ GuardMatchesRequests
  BY DEF IInv
<1>2. /\ "idle" \in {"idle", "values", "resolving", "submitting", "scoring"}
      /\ req[c].run \in Runs
      /\ req[c].run \in Runs \cup {NoRun}
      /\ req[c].dir \in Dirs \cup {NoDir}
  BY <1>1, InFlightRun, Fields
<1>3. /\ q \in Requests /\ q.pc = "idle" /\ q.run = req[c].run /\ q.dir = req[c].dir
      /\ q.own = own /\ q.read = read
  BY <1>2, RequestMade
<1>4. SetRequest(c, q) /\ active_submissions' = active_submissions \ {req[c].run}
  BY DEF Finish
<1> HIDE DEF q
<1>5. GuardMatchesRequests'
  BY <1>1, <1>2, <1>3, <1>4, LetsGo
<1>6. GoodRequest(q, bests', submissions')
  BY <1>2, <1>3 DEF GoodRequest
<1>7. QED BY <1>3, <1>4, <1>5, <1>6, RequestMoves

LEMMA SubmitInv ==
    ASSUME IInv, NEW c \in Conns, Submit(c)
    PROVE  IInv'
<1> DEFINE own == Len(submissions')
           q == Request("scoring", req[c].run, req[c].dir, own, None)
<1>1. TypeOK /\ GuardMatchesRequests /\ NeverGuessed
  BY DEF IInv
<1>2. /\ req[c].pc = "submitting"
      /\ Accept("api", req[c].run, req[c].dir)
      /\ SetRequest(c, q)
      /\ UNCHANGED <<work, delivery, active_submissions>>
  BY DEF Submit
<1>3. req[c].run \in Runs /\ req[c].dir \in bests[req[c].run]
  BY <1>2 DEF IInv, GoodRequest
<1>4. /\ req[c].dir \in Dirs /\ own \in Indices /\ own \in DOMAIN submissions'
      /\ submissions'[own] = [by |-> "api", run |-> req[c].run, dir |-> req[c].dir]
  BY <1>1, <1>2, <1>3, Accepted
<1>5. Grown
  BY <1>1, <1>2, <1>3, GrownByUpload
<1>6. NeverGuessed'
  BY <1>1, <1>2, <1>3, UploadsKnown DEF work
<1> HIDE DEF own
<1>7. /\ q \in Requests /\ q.pc = "scoring" /\ q.run = req[c].run /\ q.dir = req[c].dir
      /\ q.own = own /\ q.read = None
  BY <1>3, <1>4, RequestMade
<1> HIDE DEF q
<1>8. GuardMatchesRequests'
  BY <1>1, <1>2, <1>7, GoesOn
<1>9. GoodRequest(q, bests', submissions')
  BY <1>3, <1>4, <1>7, ConstantTypes DEF GoodRequest
<1>10. QED BY <1>2, <1>5, <1>6, <1>7, <1>8, <1>9, RequestMoves

\* A request that fails, with or without an upload nobody knows of, or that
\* reads a score, is answered truthfully.
LEMMA AnswerInv ==
    ASSUME IInv, NEW c \in Conns, SubmitFailsEarly(c) \/ SubmitRaises(c) \/ ReadScore(c)
    PROVE  IInv'
<1>1. TypeOK /\ NeverGuessed /\ None \in Indices \cup {None}
  BY DEF IInv
<1>2. CASE SubmitFailsEarly(c)
  <2>1. Grown /\ NeverGuessed'
    BY <1>1, <1>2, GrownByNothing DEF SubmitFailsEarly, NeverGuessed, work
  <2>2. req[c].pc # "idle" /\ Finish(c, None, None) /\ UNCHANGED <<work, delivery>>
    BY <1>2 DEF SubmitFailsEarly
  <2>3. QED BY <1>1, <2>1, <2>2, FinishInv
<1>3. CASE SubmitRaises(c)
  <2>1. req[c].pc = "submitting" /\ Finish(c, None, None) /\ UNCHANGED <<work, delivery>>
    BY <1>3 DEF SubmitRaises
  <2>2. req[c].run \in Runs /\ req[c].dir \in bests[req[c].run]
    BY <2>1 DEF IInv, GoodRequest
  <2>3. CASE Accept("api", req[c].run, req[c].dir)
    <3>1. Grown
      BY <1>1, <2>2, <2>3, GrownByUpload
    <3>2. NeverGuessed'
      BY <1>1, <2>1, <2>2, <2>3, UploadsKnown DEF work
    <3>3. QED BY <1>1, <2>1, <3>1, <3>2, FinishInv
  <2>4. CASE UNCHANGED <<submissions, scored>>
    <3>1. Grown /\ NeverGuessed'
      BY <1>1, <2>1, <2>4, GrownByNothing DEF NeverGuessed, work
    <3>2. QED BY <1>1, <2>1, <3>1, FinishInv
  <2>5. QED BY <1>3, <2>3, <2>4 DEF SubmitRaises
<1>4. CASE ReadScore(c)
  <2>1. /\ req[c].pc = "scoring"
        /\ UNCHANGED <<work, delivery, submissions, scored>>
    BY <1>4 DEF ReadScore
  <2>2. PICK read \in {LatestScore, None} : Finish(c, req[c].own, read)
    BY <1>4 DEF ReadScore
  <2>3. /\ req[c].own # None
        /\ req[c].own \in DOMAIN submissions
        /\ submissions[req[c].own] =
             [by |-> "api", run |-> req[c].run, dir |-> req[c].dir]
    BY <2>1 DEF IInv, GoodRequest
  <2>4. req[c].own \in Indices \cup {None} /\ read \in Indices \cup {None}
    BY <1>1, Fields, ScoreIsNewest
  <2>5. read # None => read >= req[c].own
    BY <1>1, <2>3, ScoreIsNewest
  <2>6. Grown /\ NeverGuessed'
    BY <1>1, <2>1, GrownByNothing DEF NeverGuessed, work
  <2>7. req[c].pc # "idle"
    BY <2>1
  <2>8. QED BY <2>1, <2>2, <2>3, <2>4, <2>5, <2>6, <2>7, FinishInv
<1>5. QED BY <1>2, <1>3, <1>4

-----------------------------------------------------------------------------
(* The node of one run                                                     *)

LEMMA NodeStepInv ==
    ASSUME IInv, NEW r \in Runs, NodeStep(r)
    PROVE  IInv'
<1>1. /\ TypeOK /\ NeverGuessed /\ GoodArtifact(r, delivery[r], submissions)
      /\ None \in Indices \cup {None}
      /\ delivery[r].dir \in Dirs \cup {NoDir}
      /\ delivery[r].own \in Indices \cup {None}
  BY Fields DEF IInv
<1>2. CASE NodeFindsNothing(r)
  <2> DEFINE a == Artifact("done", delivery[r].dir, None, None, FALSE)
  <2>1. /\ a \in Deliveries /\ a.pc = "done" /\ a.own = None
        /\ a.read = None /\ a.submitted = FALSE
    BY <1>1 DEF Artifact, Deliveries
  <2>2. SetArtifact(r, a) /\ UNCHANGED <<work, active_submissions, req, submissions, scored>>
    BY <1>2 DEF NodeFindsNothing
  <2> HIDE DEF a
  <2>3. GoodArtifact(r, a, submissions')
    BY <2>1 DEF GoodArtifact
  <2>4. Grown /\ NeverGuessed'
    BY <1>1, <2>2, GrownByNothing DEF NeverGuessed, work
  <2>5. QED BY <2>1, <2>2, <2>3, <2>4, NodeMoves
<1>3. CASE NodeResolves(r)
  <2>1. PICK d \in Candidates(r) :
          SetArtifact(r, Artifact("submitting", d, None, None, FALSE))
    BY <1>3 DEF NodeResolves
  <2>2. d \in Dirs
    BY <1>1 DEF Candidates, TypeOK
  <2> DEFINE a == Artifact("submitting", d, None, None, FALSE)
  <2>3. d \in Dirs \cup {NoDir} /\ FALSE \in BOOLEAN
    BY <2>2
  <2>4. /\ a \in Deliveries /\ a.pc = "submitting" /\ a.own = None /\ a.dir = d
        /\ a.read = None /\ a.submitted = FALSE
    BY <1>1, <2>3 DEF Artifact, Deliveries
  <2>5. SetArtifact(r, a) /\ UNCHANGED <<work, active_submissions, req, submissions, scored>>
    BY <1>3, <2>1 DEF NodeResolves
  <2> HIDE DEF a
  <2>6. GoodArtifact(r, a, submissions')
    BY <2>2, <2>4 DEF GoodArtifact
  <2>7. Grown /\ NeverGuessed'
    BY <1>1, <2>5, GrownByNothing DEF NeverGuessed, work
  <2>8. QED BY <2>4, <2>5, <2>6, <2>7, NodeMoves
<1>4. CASE NodeSubmits(r)
  <2> DEFINE own == Len(submissions')
             a == Artifact("scoring", delivery[r].dir, own, None, FALSE)
  <2>1. /\ Accept("node", r, delivery[r].dir) /\ SetArtifact(r, a)
        /\ UNCHANGED <<work, active_submissions, req>>
    BY <1>4 DEF NodeSubmits
  <2>2. /\ own \in Indices /\ own \in DOMAIN submissions'
        /\ submissions'[own] = [by |-> "node", run |-> r, dir |-> delivery[r].dir]
    BY <1>1, <2>1, Accepted
  <2>3. Grown
    BY <1>1, <2>1, GrownByUpload
  <2>4. NeverGuessed'
    BY <1>1, <2>1, UploadsKnown DEF work
  <2> HIDE DEF own
  <2>5. /\ a \in Deliveries /\ a.pc = "scoring" /\ a.own = own
        /\ a.dir = delivery[r].dir /\ a.read = None /\ a.submitted = FALSE
    BY <1>1, <2>2 DEF Artifact, Deliveries
  <2> HIDE DEF a
  <2>6. GoodArtifact(r, a, submissions')
    BY <2>2, <2>5, ConstantTypes DEF GoodArtifact
  <2>7. QED BY <2>1, <2>3, <2>4, <2>5, <2>6, NodeMoves
<1>5. CASE NodeSubmitRaises(r)
  <2> DEFINE a == Artifact("done", delivery[r].dir, None, None, FALSE)
  <2>1. /\ a \in Deliveries /\ a.pc = "done" /\ a.own = None
        /\ a.read = None /\ a.submitted = FALSE
    BY <1>1 DEF Artifact, Deliveries
  <2>2. SetArtifact(r, a) /\ UNCHANGED <<work, active_submissions, req>>
    BY <1>5 DEF NodeSubmitRaises
  <2> HIDE DEF a
  <2>3. GoodArtifact(r, a, submissions')
    BY <2>1 DEF GoodArtifact
  <2>4. CASE Accept("node", r, delivery[r].dir)
    <3>1. Grown
      BY <1>1, <2>4, GrownByUpload
    <3>2. NeverGuessed'
      BY <1>1, <2>2, <2>4, UploadsKnown DEF work
    <3>3. QED BY <2>1, <2>2, <2>3, <3>1, <3>2, NodeMoves
  <2>5. CASE UNCHANGED <<submissions, scored>>
    <3>1. Grown /\ NeverGuessed'
      BY <1>1, <2>2, <2>5, GrownByNothing DEF NeverGuessed, work
    <3>2. QED BY <2>1, <2>2, <2>3, <3>1, NodeMoves
  <2>6. QED BY <1>5, <2>4, <2>5 DEF NodeSubmitRaises
<1>6. CASE NodeReadsScore(r)
  <2>1. /\ delivery[r].pc = "scoring"
        /\ UNCHANGED <<work, active_submissions, req, submissions, scored>>
    BY <1>6 DEF NodeReadsScore
  <2>2. PICK read \in {LatestScore, None} :
          SetArtifact(r, Artifact("done", delivery[r].dir, delivery[r].own, read, TRUE))
    BY <1>6 DEF NodeReadsScore
  <2> DEFINE a == Artifact("done", delivery[r].dir, delivery[r].own, read, TRUE)
  <2>3. /\ delivery[r].own # None
        /\ delivery[r].own \in DOMAIN submissions
        /\ submissions[delivery[r].own] = [by |-> "node", run |-> r, dir |-> delivery[r].dir]
    BY <1>1, <2>1 DEF GoodArtifact
  <2>4. read \in Indices \cup {None} /\ (read # None => read >= delivery[r].own)
    BY <1>1, <2>3, ScoreIsNewest
  <2>5. /\ a \in Deliveries /\ a.pc = "done" /\ a.own = delivery[r].own
        /\ a.dir = delivery[r].dir /\ a.read = read
    BY <1>1, <2>4 DEF Artifact, Deliveries
  <2>6. SetArtifact(r, a)
    BY <2>2
  <2> HIDE DEF a
  <2>7. GoodArtifact(r, a, submissions')
    BY <2>1, <2>3, <2>4, <2>5 DEF GoodArtifact
  <2>8. Grown /\ NeverGuessed'
    BY <1>1, <2>1, GrownByNothing DEF NeverGuessed, work
  <2>9. QED BY <2>1, <2>5, <2>6, <2>7, <2>8, NodeMoves
<1>7. QED BY <1>2, <1>3, <1>4, <1>5, <1>6 DEF NodeStep

-----------------------------------------------------------------------------
(* The pipeline, the disk and Kaggle                                       *)

\* Nobody's claim depends on anything but what has been best and what was
\* uploaded.
LEMMA OthersMove ==
    ASSUME IInv, TypeOK', UNCHANGED <<active_submissions, req, delivery, submissions>>,
           \A r \in Runs : bests[r] \subseteq bests'[r],
           \A r \in Runs :
             best_experiment_path'[r] # NoDir => best_experiment_path'[r] \in bests'[r]
    PROVE  IInv'
<1>1. TypeOK /\ Grown
  BY DEF IInv, TypeOK, Grown
<1>2. \A c \in Conns : GoodRequest(req'[c], bests', submissions')
  <2>1. SUFFICES ASSUME NEW c \in Conns
                 PROVE  GoodRequest(req[c], bests', submissions')
    OBVIOUS
  <2>2. req[c] \in Requests /\ GoodRequest(req[c], bests, submissions)
    BY <1>1, Fields DEF IInv
  <2>3. QED BY <1>1, <2>2, SubmissionsGrow
<1>3. \A r \in Runs : GoodArtifact(r, delivery'[r], submissions')
  BY DEF IInv
<1>4. NeverGuessed'
  <2>1. \A i \in DOMAIN submissions : submissions[i] \in Submission
    BY <1>1 DEF TypeOK
  <2>2. \A i \in DOMAIN submissions : submissions[i].run \in Runs
    BY <2>1 DEF Submission
  <2>3. \A i \in DOMAIN submissions :
          submissions[i].by = "api" => submissions[i].dir \in bests[submissions[i].run]
    BY DEF IInv, NeverGuessed
  <2>4. \A i \in DOMAIN submissions :
          submissions[i].by = "api" => submissions[i].dir \in bests'[submissions[i].run]
    BY <2>2, <2>3
  <2>5. QED BY <2>4 DEF NeverGuessed
<1>5. GuardMatchesRequests'
  BY DEF IInv, GuardMatchesRequests, InFlight
<1>6. QED BY <1>2, <1>3, <1>4, <1>5 DEF IInv

LEMMA IterateInv ==
    ASSUME IInv, NEW r \in Runs, Iterate(r)
    PROVE  IInv'
<1> DEFINE d == current_iteration[r]
<1>1. TypeOK
  BY DEF IInv
<1>2. /\ d < MaxIterations
      /\ current_iteration' = [current_iteration EXCEPT ![r] = d + 1]
      /\ csv' = [csv EXCEPT ![r] = @ \cup {d}]
      /\ \/ /\ best_experiment_path' = [best_experiment_path EXCEPT ![r] = d]
            /\ bests' = [bests EXCEPT ![r] = @ \cup {d}]
         \/ UNCHANGED <<best_experiment_path, bests>>
      /\ UNCHANGED <<losses, delivery, active_submissions, req, submissions, scored>>
  BY DEF Iterate
<1>3. current_iteration[r] \in 0..MaxIterations
  BY <1>1 DEF TypeOK
<1>4. d \in Dirs /\ d + 1 \in 0..MaxIterations
  BY <1>2, <1>3, BoundsAssumption DEF Dirs
<1> HIDE DEF d
<1>5. /\ current_iteration' \in [Runs -> 0..MaxIterations]
      /\ csv' \in [Runs -> SUBSET Dirs]
  BY <1>1, <1>2, <1>4 DEF TypeOK
<1>6. /\ best_experiment_path' \in [Runs -> Dirs \cup {NoDir}]
      /\ bests' \in [Runs -> SUBSET Dirs]
      /\ \A s \in Runs : bests[s] \subseteq bests'[s]
  <2>1. CASE UNCHANGED <<best_experiment_path, bests>>
    BY <1>1, <2>1 DEF TypeOK
  <2>2. CASE /\ best_experiment_path' = [best_experiment_path EXCEPT ![r] = d]
             /\ bests' = [bests EXCEPT ![r] = @ \cup {d}]
    <3>1. best_experiment_path' \in [Runs -> Dirs \cup {NoDir}]
      BY <1>1, <1>4, <2>2 DEF TypeOK
    <3>2. \A s \in Runs : bests'[s] = IF s = r THEN bests[s] \cup {d} ELSE bests[s]
      BY <1>1, <2>2 DEF TypeOK
    <3>3. bests' \in [Runs -> SUBSET Dirs]
      BY <1>1, <1>4, <2>2 DEF TypeOK
    <3>4. QED BY <3>1, <3>2, <3>3
  <2>3. QED BY <1>2, <2>1, <2>2
<1>7. TypeOK'
  BY <1>1, <1>2, <1>5, <1>6 DEF TypeOK
<1>8. ASSUME NEW s \in Runs, best_experiment_path'[s] # NoDir
      PROVE  best_experiment_path'[s] \in bests'[s]
  <2>1. s = r \/ best_experiment_path'[s] = best_experiment_path[s]
    BY <1>1, <1>2 DEF TypeOK
  <2>2. best_experiment_path[s] # NoDir => best_experiment_path[s] \in bests'[s]
    BY <1>6 DEF IInv
  <2>3. CASE UNCHANGED <<best_experiment_path, bests>>
    BY <1>8, <2>2, <2>3
  <2>4. CASE /\ best_experiment_path' = [best_experiment_path EXCEPT ![r] = d]
             /\ bests' = [bests EXCEPT ![r] = @ \cup {d}]
    <3>1. best_experiment_path'[r] = d /\ d \in bests'[r]
      BY <1>1, <2>4 DEF TypeOK
    <3>2. QED BY <1>8, <2>1, <2>2, <3>1
  <2>5. QED BY <1>2, <2>3, <2>4
<1>9. QED BY <1>2, <1>6, <1>7, <1>8, OthersMove

LEMMA DeliverInv ==
    ASSUME IInv, NEW r \in Runs, Deliver(r)
    PROVE  IInv'
<1> DEFINE a == Artifact("resolving", NoDir, None, None, FALSE)
<1>1. TypeOK /\ NeverGuessed
  BY DEF IInv
<1>2. /\ a \in Deliveries /\ a.pc = "resolving" /\ a.own = None
      /\ a.read = None /\ a.submitted = FALSE
  BY DEF Artifact, Deliveries
<1>3. SetArtifact(r, a) /\ UNCHANGED <<work, active_submissions, req, submissions, scored>>
  BY DEF Deliver
<1> HIDE DEF a
<1>4. GoodArtifact(r, a, submissions')
  BY <1>2 DEF GoodArtifact
<1>5. Grown /\ NeverGuessed'
  BY <1>1, <1>3, GrownByNothing DEF NeverGuessed, work
<1>6. QED BY <1>2, <1>3, <1>4, <1>5, NodeMoves

LEMMA LoseFileInv ==
    ASSUME IInv, NEW r \in Runs, NEW d \in Dirs, LoseFile(r, d)
    PROVE  IInv'
<1>1. TypeOK
  BY DEF IInv
<1>2. losses' \in 0..MaxLosses
  BY <1>1, BoundsAssumption DEF TypeOK, LoseFile
<1>3. csv' \in [Runs -> SUBSET Dirs]
  BY <1>1 DEF TypeOK, LoseFile
<1>4. TypeOK'
  BY <1>1, <1>2, <1>3 DEF TypeOK, LoseFile
<1>5. QED BY <1>4, OthersMove DEF LoseFile, IInv

LEMMA ScoreInv ==
    ASSUME IInv, NEW i \in Indices, Score(i)
    PROVE  IInv'
<1>1. TypeOK'
  BY DEF IInv, TypeOK, Score, work
<1>2. QED BY <1>1, OthersMove DEF Score, IInv, work

LEMMA StutterInv == IInv /\ UNCHANGED vars => IInv'
<1> SUFFICES ASSUME IInv, UNCHANGED vars PROVE IInv'
  OBVIOUS
<1>1. TypeOK'
  BY DEF IInv, TypeOK, vars, work
<1>2. QED BY <1>1, OthersMove DEF IInv, vars, work

LEMMA NextInv == IInv /\ [Next]_vars => IInv'
<1> SUFFICES ASSUME IInv, [Next]_vars PROVE IInv'
  OBVIOUS
<1>1. ASSUME NEW c \in Conns, NEW r \in Runs, SubmitCall(c, r) \/ SubmitRefused(c, r)
      PROVE  IInv'
  BY <1>1, SubmitCallInv, StutterInv DEF SubmitRefused
<1>2. ASSUME NEW c \in Conns, RequestStep(c) PROVE IInv'
  BY <1>2, GotoInv, SubmitInv, AnswerInv DEF RequestStep
<1>3. ASSUME NEW r \in Runs, Iterate(r) \/ Deliver(r) \/ NodeStep(r) PROVE IInv'
  BY <1>3, IterateInv, DeliverInv, NodeStepInv
<1>4. ASSUME NEW r \in Runs, NEW d \in Dirs, LoseFile(r, d) PROVE IInv'
  BY <1>4, LoseFileInv
<1>5. ASSUME NEW i \in Indices, Score(i) PROVE IInv'
  BY <1>5, ScoreInv
<1>6. QED BY <1>1, <1>2, <1>3, <1>4, <1>5, StutterInv DEF Next

-----------------------------------------------------------------------------

\* The inductive invariant is one: it holds in every reachable state.
LEMMA InvariantHolds == Spec => []IInv
<1>1. QED BY InitInv, NextInv, PTL DEF Spec

\* Every variable of the submissions has its type, for any numbers of runs,
\* connections, experiments, uploads and lost files.
THEOREM TypeCorrect == Spec => []TypeOK
<1>1. IInv => TypeOK
  BY DEF IInv
<1>2. QED BY <1>1, InvariantHolds, PTL

\* active_submissions holds exactly the runs a request is submitting, one
\* request for each, in whatever order requests check, fail and return.
THEOREM OneRequestPerRun == Spec => []GuardMatchesRequests
<1>1. IInv => GuardMatchesRequests
  BY DEF IInv
<1>2. QED BY <1>1, InvariantHolds, PTL

\* The API never uploads a directory that has not been the run's best.
THEOREM NothingIsGuessed == Spec => []NeverGuessed
<1>1. IInv => NeverGuessed
  BY DEF IInv
<1>2. QED BY <1>1, InvariantHolds, PTL

\* A reported submission was made, and the score reported with it is its own
\* or that of a later one.
THEOREM AnswersAreTrue == Spec => []ReportsAreTrue
<1>1. ASSUME IInv, NEW c \in Conns
      PROVE  /\ req[c].read # None => req[c].own # None /\ req[c].read >= req[c].own
             /\ req[c].own # None => /\ submissions[req[c].own].by = "api"
                                    /\ submissions[req[c].own].run = req[c].run
                                    /\ submissions[req[c].own].dir = req[c].dir
  <2>1. GoodRequest(req[c], bests, submissions)
    BY <1>1 DEF IInv
  <2>2. req[c].read # None => req[c].own # None /\ req[c].read >= req[c].own
    BY <2>1 DEF GoodRequest
  <2>3. req[c].own # None =>
          submissions[req[c].own] =
            [by |-> "api", run |-> req[c].run, dir |-> req[c].dir]
    BY <2>1 DEF GoodRequest
  <2>4. QED BY <2>2, <2>3
<1>2. ASSUME IInv, NEW r \in Runs
      PROVE  /\ delivery[r].read # None => delivery[r].read >= delivery[r].own
             /\ delivery[r].submitted =>
                  /\ delivery[r].own # None
                  /\ submissions[delivery[r].own] =
                       [by |-> "node", run |-> r, dir |-> delivery[r].dir]
  BY <1>2 DEF IInv, GoodArtifact
<1>3. IInv => ReportsAreTrue
  BY <1>1, <1>2 DEF ReportsAreTrue
<1>4. QED BY <1>3, InvariantHolds, PTL
=============================================================================
