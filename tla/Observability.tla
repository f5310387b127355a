---------------------------- MODULE Observability ----------------------------
(***************************************************************************)
(* runs/{run_id}/execution.jsonl, written by JsonlCallbackHandler          *)
(* (src/observability/jsonl_callback.py) from LangChain's callbacks.       *)
(*                                                                         *)
(* LangGraph opens a chain run for the graph, for each phase node, for     *)
(* the subgraph inside it and for each node of the phase, on a thread per  *)
(* node of a superstep; LLM calls are runs below their node.  Each segment *)
(* of a run (create, and each resume) has a handler of its own and         *)
(* appends to the same log.                                                *)
(***************************************************************************)
EXTENDS PhaseGraph, FiniteSets, SequencesExt

CONSTANTS
    Plan,       \* the phases the run goes through, in every iteration
    Usages,     \* bound: token usages the LLM calls of each node may report
    MaxTurns,   \* bound: LLM calls of each critic and of the coder
    MaxLost,    \* bound: records whose write fails
    Losable     \* bound: the nodes and phases of which such a record may be

Unknown == -1

PlanNodes == UNION {{Sequence[ph][i] : i \in 1..Len(Sequence[ph])} : ph \in Range(Plan)}

\* current_iteration as Plan comes to its p-th phase: only phase 6 advances it.
IterationAt ==
    [p \in 1..(Len(Plan) + 1) |->
        Cardinality({q \in 1..(p - 1) : Plan[q] = "phase6_evaluation"})]

\* Retrying nodes call their model more than once.
Retrying == {"analysis_critic", "code_critic", "coder"}

\* Plan follows the edges of the pipeline graph, whatever supervisor finds:
\* behind phase 6 either the design comes again or the delivery.
ASSUME PlanAssumption ==
    /\ Plan \in Seq(Phases) /\ Len(Plan) > 0 /\ Plan[1] = "phase1_understanding"
    /\ \A p \in 1..(Len(Plan) - 1) :
          \E stale \in {0, 1} : Plan[p + 1] = Route(Plan[p], IterationAt[p], stale, 1)

ASSUME LogBoundsAssumption ==
    /\ \A n \in PlanNodes : Usages[n] \subseteq Nat \cup {Unknown}
    /\ \A n \in PlanNodes \cap Retrying : MaxTurns[n] \in Nat \ {0}
    /\ MaxLost \in Nat

VARIABLES
    pos,         \* the phase of Plan at work or next
    turn,        \* what LangGraph does next
    todo, ran,   \* nodes of the superstep
    failed,      \* a node has raised
    open,        \* chain runs in progress
    calling,     \* nodes inside llm.invoke
    current_iteration,   \* LabState.current_iteration
    starts, skipped, llm_parent, llm_usage,   \* the handler
    log,         \* execution.jsonl
    lost,        \* records whose write failed
    reported     \* history: the usages reported to each chain run

langgraph == <<pos, turn, todo, ran, failed, open, calling, current_iteration>>
handler == <<starts, skipped, llm_parent, llm_usage>>
log_vars == <<langgraph, handler, log, lost, reported>>

-----------------------------------------------------------------------------
(* Chain runs                                                              *)

\* A chain run: its position in Plan and what it is a run of.
RunOf(kind) == <<pos, kind>>

ChainRuns == (1..Len(Plan)) \X (PlanNodes \cup {"root", "phase", "sub"})

NameOf(c) ==
    CASE c[2] \in {"root", "sub"} -> "LangGraph"
      [] c[2] = "phase" -> Plan[c[1]]
      [] OTHER -> c[2]

\* metadata["langgraph_node"]
LangGraphNode(c) ==
    CASE c[2] = "root" -> "none"
      [] c[2] \in {"sub", "phase"} -> Plan[c[1]]
      [] OTHER -> c[2]

ComputeNodes == {"baseline_runner", "score_evaluator",
                 "feature_importance_extractor", "kaggle_client"}

\* LLMNode calls its model once, the coder and the critics as often as they
\* retry, the critics with the calls of the targets they run again.
Turns(n) ==
    IF n \in ComputeNodes THEN {0}
    ELSE IF n \in Retrying THEN 1..MaxTurns[n]
    ELSE {1}

-----------------------------------------------------------------------------
(* The handler's hooks                                                     *)

IsRealNodeEvent(c) == LangGraphNode(c) = NameOf(c)

\* What is kept of a start.  The phase is the first segment of the checkpoint
\* namespace, the iteration that of the state the run was given.
StartOf(c, iteration) ==
    [node |-> NameOf(c), phase |-> Plan[c[1]], iteration |-> iteration]

\* What an end without a start is written with.
Orphan == [node |-> "unknown", phase |-> "unknown", iteration |-> Unknown]

\* _build_record
Record(event, start, tokens) ==
    [event |-> event, node |-> start.node, phase |-> start.phase,
     iteration |-> start.iteration, tokens |-> tokens]
StartRecord(start) == Record("start", start, Unknown)
EndRecord(start, tokens) == Record("end", start, tokens)

\* _append_jsonl; a write that fails is reported on stderr and forgotten.
AppendJsonl(rec) ==
    \/ log' = Append(log, rec) /\ UNCHANGED lost
    \/ /\ Cardinality(lost) < MaxLost /\ rec.node \in Losable
       /\ lost' = lost \cup {rec}
       /\ UNCHANGED log

Without(f, x) == [y \in DOMAIN f \ {x} |-> f[y]]
With(f, x, v) == [y \in DOMAIN f \cup {x} |-> IF y = x THEN v ELSE f[y]]

\* Mutant: every chain run below a node is taken for a node's.
OnChainStartAll(c) ==
    /\ starts' = With(starts, c, StartOf(c, current_iteration))
    /\ AppendJsonl(StartRecord(StartOf(c, current_iteration)))
    /\ UNCHANGED <<skipped, llm_parent, llm_usage>>

OnChainStart(c) ==
    \/ /\ ~IsRealNodeEvent(c)
       /\ skipped' = skipped \cup {c}
       /\ UNCHANGED <<starts, llm_parent, llm_usage, log, lost>>
    \/ /\ IsRealNodeEvent(c)
       /\ starts' = With(starts, c, StartOf(c, current_iteration))
       /\ AppendJsonl(StartRecord(StartOf(c, current_iteration)))
       /\ UNCHANGED <<skipped, llm_parent, llm_usage>>

OnChainEnd(c) ==
    \/ /\ c \in skipped
       /\ skipped' = skipped \ {c}
       /\ UNCHANGED <<starts, llm_parent, llm_usage, log, lost>>
    \/ /\ c \notin skipped
       /\ starts' = Without(starts, c)
       /\ llm_usage' = Without(llm_usage, c)
       /\ AppendJsonl(EndRecord(IF c \in DOMAIN starts THEN starts[c] ELSE Orphan,
                                IF c \in DOMAIN llm_usage THEN llm_usage[c] ELSE Unknown))
       /\ UNCHANGED <<skipped, llm_parent>>

\* Mutant: the usage of the calls before the error stays.
OnChainErrorKeeps(c) ==
    /\ starts' = Without(starts, c)
    /\ skipped' = skipped \ {c}
    /\ UNCHANGED <<llm_usage, llm_parent, log, lost>>

OnChainError(c) ==
    /\ starts' = Without(starts, c)
    /\ llm_usage' = Without(llm_usage, c)
    /\ skipped' = skipped \ {c}
    /\ UNCHANGED <<llm_parent, log, lost>>

\* An LLM call is named after the chain run it is made in; a chain run makes
\* one at a time.
HandleLlmStart(c) ==
    /\ llm_parent' = With(llm_parent, <<c, "llm">>, c)
    /\ UNCHANGED <<starts, skipped, llm_usage, log, lost>>

\* Mutant: a bucket starts at zero.
SumFromZero(a, b) == (IF a = Unknown THEN 0 ELSE a) + (IF b = Unknown THEN 0 ELSE b)

SumOptional(a, b) ==
    IF a = Unknown /\ b = Unknown THEN Unknown
    ELSE (IF a = Unknown THEN 0 ELSE a) + (IF b = Unknown THEN 0 ELSE b)

OnLlmEnd(call, tokens) ==
    LET parent == llm_parent[call]
        bucket == IF parent \in DOMAIN llm_usage THEN llm_usage[parent] ELSE Unknown
    IN  /\ call \in DOMAIN llm_parent
        /\ llm_parent' = Without(llm_parent, call)
        /\ llm_usage' = With(llm_usage, parent, SumOptional(bucket, tokens))
        /\ UNCHANGED <<starts, skipped, log, lost>>

OnLlmError(call) ==
    /\ llm_parent' = Without(llm_parent, call)
    /\ UNCHANGED <<starts, skipped, llm_usage, log, lost>>

-----------------------------------------------------------------------------
(* LangGraph and the nodes                                                 *)

LogInit ==
    /\ pos = 1 /\ turn = "segment" /\ todo = {} /\ ran = {} /\ failed = FALSE
    /\ open = {} /\ calling = {} /\ current_iteration = 0
    /\ starts = <<>> /\ skipped = {} /\ llm_parent = <<>> /\ llm_usage = <<>>
    /\ log = <<>> /\ lost = {} /\ reported = <<>>

\* create_run or do_resume: a new handler, and graph.invoke.
BeginSegment ==
    /\ turn = "segment" /\ pos <= Len(Plan) /\ ~failed
    /\ starts' = <<>> /\ llm_parent' = <<>> /\ llm_usage' = <<>>
    /\ skipped' = {RunOf("root")}
    /\ ~IsRealNodeEvent(RunOf("root"))
    /\ open' = {RunOf("root")}
    /\ turn' = "phase"
    /\ UNCHANGED <<pos, todo, ran, failed, calling, current_iteration, log, lost, reported>>

EnterPhase ==
    /\ turn = "phase"
    /\ OnChainStart(RunOf("phase"))
    /\ open' = open \cup {RunOf("phase")}
    /\ turn' = "sub"
    /\ UNCHANGED <<pos, todo, ran, failed, calling, current_iteration, reported>>

\* compiled.invoke inside _wrap_phase
EnterSub ==
    /\ turn = "sub"
    /\ OnChainStart(RunOf("sub"))
    /\ open' = open \cup {RunOf("sub")}
    /\ turn' = "nodes"
    /\ todo' = Entry(Plan[pos])
    /\ UNCHANGED <<pos, ran, failed, calling, current_iteration, reported>>

StartNode(n) ==
    /\ turn = "nodes" /\ n \in todo /\ RunOf(n) \notin open
    /\ OnChainStart(RunOf(n))
    /\ open' = open \cup {RunOf(n)}
    /\ reported' = With(reported, RunOf(n), <<>>)
    /\ UNCHANGED <<pos, turn, todo, ran, failed, calling, current_iteration>>

InNode(n) == turn = "nodes" /\ RunOf(n) \in open /\ n \in todo

CallLlm(n) ==
    /\ InNode(n) /\ n \notin calling
    /\ Len(reported[RunOf(n)]) + 1 \in UNION {1..t : t \in Turns(n)}
    /\ HandleLlmStart(RunOf(n))
    /\ calling' = calling \cup {n}
    /\ UNCHANGED <<pos, turn, todo, ran, failed, open, current_iteration, reported>>

LlmAnswers(n, tokens) ==
    /\ InNode(n) /\ n \in calling
    /\ OnLlmEnd(<<RunOf(n), "llm">>, tokens)
    /\ calling' = calling \ {n}
    /\ reported' = [reported EXCEPT ![RunOf(n)] = Append(@, tokens)]
    /\ UNCHANGED <<pos, turn, todo, ran, failed, open, current_iteration>>

\* The error reaches the node.
LlmFails(n) ==
    /\ InNode(n) /\ n \in calling
    /\ OnLlmError(<<RunOf(n), "llm">>)
    /\ calling' = calling \ {n}
    /\ failed' = TRUE
    /\ UNCHANGED <<pos, turn, todo, ran, open, current_iteration, reported>>

\* The last node of a superstep starts the next one, unless a node failed.
\* experiment_designer's delta advances current_iteration.
NodeReturns(n) ==
    LET done == ran \cup {n}
    IN  /\ InNode(n) /\ n \notin calling /\ Len(reported[RunOf(n)]) \in Turns(n)
        /\ OnChainEnd(RunOf(n))
        /\ open' = open \ {RunOf(n)}
        /\ \/ todo # {n} /\ todo' = todo \ {n} /\ ran' = done
           \/ /\ todo = {n} /\ ran' = {}
              /\ todo' = IF failed THEN {} ELSE Successors(Plan[pos], done)
        /\ current_iteration' =
              current_iteration + IF n = "experiment_designer" THEN 1 ELSE 0
        /\ UNCHANGED <<pos, turn, failed, calling, reported>>

NodeRaises(n) ==
    /\ InNode(n) /\ n \notin calling
    /\ OnChainError(RunOf(n))
    /\ open' = open \ {RunOf(n)}
    /\ todo' = todo \ {n}
    /\ failed' = TRUE
    /\ UNCHANGED <<pos, turn, ran, calling, current_iteration, reported>>

\* Ends, with the error of a node if there is one: the threads of a superstep
\* are joined, one that has not begun need not begin.
Leave(kind) ==
    /\ open' = open \ {RunOf(kind)}
    /\ \/ ~failed /\ OnChainEnd(RunOf(kind))
       \/ failed /\ OnChainError(RunOf(kind))

LeaveSub ==
    /\ turn = "nodes"
    /\ \A n \in todo : RunOf(n) \notin open
    /\ todo = {} \/ failed
    /\ Leave("sub")
    /\ turn' = "phase_end"
    /\ todo' = {} /\ ran' = {}
    /\ UNCHANGED <<pos, failed, calling, current_iteration, reported>>

\* Behind a checkpoint or the last phase graph.invoke returns.
Segment == CHOOSE p \in 1..Len(Plan) : <<p, "root">> \in open

LeavePhase ==
    /\ turn = "phase_end"
    /\ Leave("phase")
    /\ \/ /\ failed \/ Plan[pos] \in InterruptAfter \/ pos = Len(Plan)
          /\ turn' = "root_end"
          /\ UNCHANGED pos
       \/ /\ ~failed /\ Plan[pos] \notin InterruptAfter /\ pos < Len(Plan)
          /\ turn' = "phase"
          /\ pos' = pos + 1
    /\ UNCHANGED <<todo, ran, failed, calling, current_iteration, reported>>

LeaveRoot ==
    /\ turn = "root_end"
    /\ open' = {}
    /\ \/ ~failed /\ OnChainEnd(<<Segment, "root">>)
       \/ failed /\ OnChainError(<<Segment, "root">>)
    /\ turn' = "segment"
    /\ pos' = pos + 1
    /\ UNCHANGED <<todo, ran, failed, calling, current_iteration, reported>>

LogNext ==
    \/ BeginSegment \/ EnterPhase \/ EnterSub \/ LeaveSub \/ LeavePhase \/ LeaveRoot
    \/ \E n \in todo : StartNode(n) \/ CallLlm(n) \/ LlmFails(n)
                          \/ NodeReturns(n) \/ NodeRaises(n)
    \/ \E n \in todo : \E tokens \in Usages[n] : LlmAnswers(n, tokens)

LogSpec == LogInit /\ [][LogNext]_log_vars

-----------------------------------------------------------------------------
(* Properties                                                              *)

\* What the handler remembers is exactly what is going on: a start for each
\* node and phase in progress, a parent for each LLM call, usage for nodes in
\* progress only.  So a handler whose segment is over remembers nothing,
\* however nodes and calls failed on whichever thread.
HandlerForgets ==
    /\ DOMAIN starts = {c \in open : IsRealNodeEvent(c)}
    /\ skipped = {c \in open : ~IsRealNodeEvent(c)}
    /\ DOMAIN llm_parent = {<<RunOf(n), "llm">> : n \in calling}
    /\ DOMAIN llm_usage \subseteq {c \in open : c \in DOMAIN reported}

SameSpan(r1, r2) ==
    r1.node = r2.node /\ r1.phase = r2.phase /\ r1.iteration = r2.iteration

\* The records before the i-th that are about the same run as it.
Earlier(i) == {j \in 1..(i - 1) : SameSpan(log[j], log[i])}

\* The record is of the run's p-th phase or of a node in it.
IsOf(rec, p) == rec.phase = Plan[p] /\ rec.iteration = IterationAt[p]

\* Reading the log alone: in each iteration a node or phase of the plan begins
\* at most once and ends at most once, after its beginning, unless that write
\* was lost; no other name is in it, and the iterations follow one another.
SpansPair ==
    \A i \in 1..Len(log) :
        LET rec == log[i]
            earlier == Earlier(i)
        IN  /\ \E p \in 1..Len(Plan) : IsOf(rec, p)
            /\ rec.node \in {rec.phase} \cup Range(Sequence[rec.phase])
            /\ i > 1 => log[i - 1].iteration <= rec.iteration
            /\ \A j \in earlier : log[j].event # rec.event
            /\ rec.event = "end" =>
                 \/ earlier # {}
                 \/ \E l \in lost : l.event = "start" /\ SameSpan(l, rec)

TokensTold(usages) == UNION {{i} \X (1..usages[i]) : i \in DOMAIN usages}

Total(usages) ==
    IF \A i \in DOMAIN usages : usages[i] = Unknown THEN Unknown
    ELSE Cardinality(TokensTold(usages))

ReportedTo(c) == IF c \in DOMAIN reported THEN reported[c] ELSE <<>>

\* The chain run a record is about, if it is of the p-th phase.
RunNamed(rec, p) == <<p, IF rec.node = rec.phase THEN "phase" ELSE rec.node>>

\* The tokens of a node's end record are those of its own calls in its own
\* iteration, whatever ran beside it or under the same name before: unknown if
\* none of them told, the number of all they told if one did.  A phase has no
\* calls of its own.
TokensAddUp ==
    \A i \in 1..Len(log), p \in 1..Len(Plan) :
        log[i].event = "end" /\ IsOf(log[i], p)
            => log[i].tokens = Total(ReportedTo(RunNamed(log[i], p)))

-----------------------------------------------------------------------------
(* Why they hold                                                           *)

\* The chain run a record is about.
IsAbout(rec, c) ==
    rec.node = NameOf(c) /\ rec.phase = Plan[c[1]] /\ rec.iteration = IterationAt[c[1]]

NodesOf(ph) == Range(Sequence[ph])

NodeRuns == {c \in (1..Len(Plan)) \X PlanNodes : c[2] \in NodesOf(Plan[c[1]])}

Working == {n \in todo : RunOf(n) \in DOMAIN reported}

\* The chain runs in progress are nested, in the segment that began at p.
OpenBelow(p) ==
    {<<p, "root">>} \cup {RunOf(n) : n \in Working}
      \cup (IF turn \in {"sub", "nodes", "phase_end"} THEN {RunOf("phase")} ELSE {})
      \cup (IF turn = "nodes" THEN {RunOf("sub")} ELSE {})

RunsNest ==
    IF turn = "segment" THEN open = {} ELSE \E p \in 1..pos : open = OpenBelow(p)

\* A phase goes forward: no node that is to run, or has run in this superstep,
\* lies before one that has begun, unless both are of the parallel block.
GoesForward(ph, superstep, begun) ==
    LET seq == Sequence[ph]
        par == ParallelNodes(ph)
    IN  /\ superstep \subseteq NodesOf(ph)
        /\ \A n, m \in superstep : n = m \/ {n, m} \subseteq par
        /\ \A i, j \in 1..Len(seq) :
             i < j /\ seq[i] \in superstep /\ seq[j] \in begun => {seq[i], seq[j]} \subseteq par

Forward ==
    turn = "nodes" =>
      GoesForward(Plan[pos], todo \cup ran,
                  {n \in NodesOf(Plan[pos]) : RunOf(n) \in DOMAIN reported})

GraphInv ==
    /\ pos \in 1..(Len(Plan) + 1)
    /\ turn \in {"segment", "phase", "sub", "nodes", "phase_end", "root_end"}
    /\ turn # "segment" => pos <= Len(Plan)
    /\ turn # "nodes" => todo = {} /\ ran = {}
    /\ calling \subseteq Working
    /\ \A c \in DOMAIN reported :
         /\ c \in NodeRuns /\ reported[c] \in Seq(Nat \cup {Unknown})
         /\ c[1] < pos \/ (c[1] = pos /\ turn \in {"nodes", "phase_end", "root_end"})
    /\ RunsNest /\ Forward

\* What the handler remembers is right.
Remembers ==
    /\ \A c \in DOMAIN starts : starts[c] = StartOf(c, IterationAt[c[1]])
    /\ \A call \in DOMAIN llm_parent : llm_parent[call] = call[1]
    /\ \A c \in DOMAIN llm_usage : llm_usage[c] = Total(reported[c])
    /\ \A n \in Working : RunOf(n) \notin DOMAIN llm_usage => reported[RunOf(n)] = <<>>

HandlerInv == HandlerForgets /\ Remembers

Begun ==
    DOMAIN reported \cup
    {<<p, "phase">> : p \in {q \in 1..Len(Plan) :
                               q < pos \/ (q = pos /\ turn \notin {"segment", "phase"})}}

Records == [event : {"start", "end"}, node : Phases \cup PlanNodes, phase : Phases,
            iteration : Nat, tokens : Nat \cup {Unknown}]

\* Every record is about a chain run that has begun, and an end about one that
\* is over; and every beginning was written, or lost.
Traced ==
    /\ log \in Seq(Records)
    /\ \A i \in 1..Len(log) : \E c \in Begun :
         /\ IsAbout(log[i], c)
         /\ log[i].event = "end" => c \notin open /\ log[i].tokens = Total(ReportedTo(c))
    /\ \A c \in Begun :
         LET begin == StartRecord(StartOf(c, IterationAt[c[1]]))
         IN  begin \in lost \/ \E j \in 1..Len(log) : log[j] = begin
    /\ \A i \in 1..Len(log) :
         log[i].event = "end" =>
           \/ \E j \in 1..(i - 1) : log[j].event = "start" /\ SameSpan(log[j], log[i])
           \/ \E l \in lost : l.event = "start" /\ SameSpan(l, log[i])
    /\ \A i \in 2..Len(log) : log[i - 1].iteration <= log[i].iteration

WrittenOnce ==
    \A i, j \in 1..Len(log) :
        log[i].event = log[j].event /\ SameSpan(log[i], log[j]) => i = j

\* current_iteration counts the completed phases 6: whatever begins is given
\* the iteration of its phase.
IterationIsCounted ==
    /\ turn \in {"phase", "sub"} => ~failed
    /\ turn \in {"segment", "phase", "sub"} => failed \/ current_iteration = IterationAt[pos]
    /\ turn = "nodes" /\ todo # {} => current_iteration = IterationAt[pos]
    /\ turn \in {"phase_end", "root_end"} \/ (turn = "nodes" /\ todo = {})
         => failed \/ current_iteration = IterationAt[pos + 1]

LogInv == GraphInv /\ HandlerInv /\ IterationIsCounted /\ Traced /\ WrittenOnce
=============================================================================
