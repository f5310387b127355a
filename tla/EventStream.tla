----------------------------- MODULE EventStream -----------------------------
(***************************************************************************)
(* The live event stream of one run: the per-segment asyncio.Queue that    *)
(* EventEmitter fills from the worker thread (src/api/event_emitter.py),   *)
(* the STREAM_END sentinel of _run_and_track (src/api/routers/runs.py),    *)
(* and the SSE generators that drain it (src/api/routers/events.py).       *)
(*                                                                         *)
(* A segment is one execution of the run: the one create_run starts or the *)
(* one a resume starts.  Events are numbered from 1 within their segment.  *)
(* The worker thread never touches the queue: it hands calls to the event  *)
(* loop with call_soon_threadsafe, and the loop runs them in FIFO order.   *)
(***************************************************************************)
EXTENDS Naturals, Sequences, SequencesExt

CONSTANTS
    Readers,     \* SSE connections
    Cap,         \* EVENT_QUEUE_MAXSIZE
    MaxEvents,   \* bound on the events of a segment
    MaxSegs,     \* bound on the segments of the run
    SetupFaults  \* TRUE: graph_factory or update_state may raise

ASSUME CapAssumption == Cap \in Nat \ {0}
ASSUME BoundsAssumption ==
    MaxEvents \in Nat /\ MaxSegs \in Nat \ {0} /\ SetupFaults \in BOOLEAN

VARIABLES
    run,         \* where the run is, see Stages
    seg,         \* its current segment; 0 before create_run
    registered,  \* app.state.event_queues[run_id]: a segment, or 0
    queues,      \* the queue object of each segment
    calls,       \* the loop's ready calls: events to put, and Done
    emitted,     \* events the hooks of each segment have handed over
    reader       \* the SSE generators

vars == <<run, seg, registered, queues, calls, emitted, reader>>

End == 0   \* STREAM_END in a queue
Done == 0  \* in calls: the future of graph.invoke resolves

\* "executing": in graph.invoke; "returned": the task is back on the loop
\* after graph.invoke returned or raised, its finally block still to come.
\* "stuck": create_run answered 500 after it had registered the queue;
\* "unended": the task of a resume died before _run_and_track's try.
Stages == {"none", "stuck", "updating", "executing", "returned", "settled",
           "unended"}

Segs == 1..MaxSegs
Events == 1..MaxEvents

\* `queue` is the object the generator holds; `last` the last event it sent.
Connections == [open : BOOLEAN, queue : 0..MaxSegs, last : 0..MaxEvents]

Connection(open, q, last) == [open |-> open, queue |-> q, last |-> last]

TypeOK ==
    /\ run \in Stages
    /\ seg \in 0..MaxSegs
    /\ registered \in 0..MaxSegs
    /\ queues \in [Segs -> Seq(Events \cup {End})]
    /\ calls \in Seq(Events \cup {Done})
    /\ emitted \in [Segs -> 0..MaxEvents]
    /\ reader \in [Readers -> Connections]
    /\ \A c \in Readers : reader[c].open => reader[c].queue \in Segs

Init ==
    /\ run = "none"
    /\ seg = 0
    /\ registered = 0
    /\ queues = [s \in Segs |-> <<>>]
    /\ calls = <<>>
    /\ emitted = [s \in Segs |-> 0]
    /\ reader = [c \in Readers |-> Connection(FALSE, 0, 0)]

-----------------------------------------------------------------------------
(* put_event_dropping_oldest                                               *)

\* Mutant: the last event queued makes room for the new one.
PutDroppingNewest(q, x) ==
    IF Len(q) < Cap THEN Append(q, x) ELSE Append(Front(q), x)

\* Mutant: QueueFull is swallowed and the new item is dropped.
PutOrDrop(q, x) == IF Len(q) < Cap THEN Append(q, x) ELSE q

PutDroppingOldest(q, x) ==
    IF Len(q) < Cap THEN Append(q, x) ELSE Append(Tail(q), x)

-----------------------------------------------------------------------------
(* Starting a segment (create_run, do_resume, _resume_and_track)           *)

\* A fresh queue replaces whatever event_queues holds for the run.
OpenQueue ==
    /\ seg' = seg + 1
    /\ registered' = seg + 1

CreateRun ==
    /\ run = "none"
    /\ OpenQueue
    /\ run' = "executing"
    /\ UNCHANGED <<queues, calls, emitted, reader>>

\* graph_factory raises after the queue was registered: there is no task.
CreateRunFails ==
    /\ SetupFaults
    /\ run = "none"
    /\ OpenQueue
    /\ run' = "stuck"
    /\ UNCHANGED <<queues, calls, emitted, reader>>

Resume ==
    /\ run \in {"settled", "unended"}
    /\ seg < MaxSegs
    /\ OpenQueue
    /\ run' = "updating"
    /\ UNCHANGED <<queues, calls, emitted, reader>>

UpdateState ==
    /\ run = "updating"
    /\ run' = "executing"
    /\ UNCHANGED <<seg, registered, queues, calls, emitted, reader>>

\* update_state is outside _run_and_track's try: no sentinel is put.
UpdateStateRaises ==
    /\ SetupFaults
    /\ run = "updating"
    /\ run' = "unended"
    /\ UNCHANGED <<seg, registered, queues, calls, emitted, reader>>

-----------------------------------------------------------------------------
(* The worker thread                                                       *)

\* Mutant: the event overtakes the calls the loop has not run yet.
EmitAhead ==
    /\ run = "executing"
    /\ Done \notin Range(calls)
    /\ emitted[seg] < MaxEvents
    /\ emitted' = [emitted EXCEPT ![seg] = @ + 1]
    /\ calls' = <<emitted[seg] + 1>> \o calls
    /\ UNCHANGED <<run, seg, registered, queues, reader>>

\* EventEmitter._emit: a hook hands one event to the loop.
Emit ==
    /\ run = "executing"
    /\ Done \notin Range(calls)
    /\ emitted[seg] < MaxEvents
    /\ emitted' = [emitted EXCEPT ![seg] = @ + 1]
    /\ calls' = Append(calls, emitted[seg] + 1)
    /\ UNCHANGED <<run, seg, registered, queues, reader>>

\* Mutant: the sentinel is due as soon as the worker is done, ahead of the
\* calls the loop has not run yet.
InvokeReturnsAtOnce ==
    /\ run = "executing"
    /\ Done \notin Range(calls)
    /\ run' = "returned"
    /\ UNCHANGED <<seg, registered, queues, calls, emitted, reader>>

\* graph.invoke returns or raises: the worker hands the result to the loop.
InvokeReturns ==
    /\ run = "executing"
    /\ Done \notin Range(calls)
    /\ calls' = Append(calls, Done)
    /\ UNCHANGED <<run, seg, registered, queues, emitted, reader>>

-----------------------------------------------------------------------------
(* The event loop                                                          *)

\* The loop runs the oldest ready call.
LoopStep ==
    /\ calls # <<>>
    /\ calls' = Tail(calls)
    /\ IF Head(calls) = Done
       THEN /\ run' = "returned"
            /\ UNCHANGED queues
       ELSE /\ queues' = [queues EXCEPT ![seg] = PutDroppingOldest(@, Head(calls))]
            /\ UNCHANGED run
    /\ UNCHANGED <<seg, registered, emitted, reader>>

\* The finally block of _run_and_track puts the sentinel itself.
EndSegment ==
    /\ run = "returned"
    /\ run' = "settled"
    /\ queues' = [queues EXCEPT ![seg] = PutDroppingOldest(@, End)]
    /\ UNCHANGED <<seg, registered, calls, emitted, reader>>

-----------------------------------------------------------------------------
(* The SSE generators                                                      *)

\* stream_events: the generator keeps the queue it found when it was made.
\* Without a queue it ends at once, which leaves no trace.
Connect(c) ==
    /\ ~reader[c].open
    /\ registered # 0
    /\ reader' = [reader EXCEPT ![c] = Connection(TRUE, registered, 0)]
    /\ UNCHANGED <<run, seg, registered, queues, calls, emitted>>

Pop(c) ==
    /\ queues[reader[c].queue] # <<>>
    /\ queues' = [queues EXCEPT ![reader[c].queue] = Tail(@)]

TakeEvent(c) ==
    /\ reader[c].open
    /\ Pop(c)
    /\ LET x == Head(queues[reader[c].queue])
       IN  /\ x # End
           /\ reader' = [reader EXCEPT ![c] = Connection(TRUE, @.queue, x)]
    /\ UNCHANGED <<run, seg, registered, calls, emitted>>

\* The sentinel ends the generator, which pops event_queues[run_id] whatever
\* queue it holds by then.
TakeEnd(c) ==
    /\ reader[c].open
    /\ Pop(c)
    /\ Head(queues[reader[c].queue]) = End
    /\ registered' = 0
    /\ reader' = [reader EXCEPT ![c] = Connection(FALSE, @.queue, @.last)]
    /\ UNCHANGED <<run, seg, calls, emitted>>

\* The client goes away; an event taken from the queue and not yet sent is
\* lost with the connection.
Disconnect(c) ==
    /\ reader[c].open
    /\ reader' = [reader EXCEPT ![c] = Connection(FALSE, @.queue, @.last)]
    /\ \/ UNCHANGED queues
       \/ Pop(c) /\ Head(queues[reader[c].queue]) # End
    /\ UNCHANGED <<run, seg, registered, calls, emitted>>

-----------------------------------------------------------------------------
RunStep ==
    UpdateState \/ UpdateStateRaises \/ InvokeReturns \/ LoopStep \/ EndSegment

ReaderStep(c) == TakeEvent(c) \/ TakeEnd(c)

Next ==
    \/ CreateRun \/ CreateRunFails \/ Resume
    \/ RunStep \/ Emit
    \/ \E c \in Readers : Connect(c) \/ ReaderStep(c) \/ Disconnect(c)

Spec == Init /\ [][Next]_vars

\* The loop runs what is ready, graph.invoke ends, and a connected generator
\* takes what its queue holds.  No client has to connect, to stay or to
\* resume, and no node has to emit.
FairSpec ==
    /\ Spec
    /\ WF_vars(RunStep)
    /\ \A c \in Readers : WF_vars(ReaderStep(c))

-----------------------------------------------------------------------------
(* Properties                                                              *)

\* Whether the sentinel is on the queue of s, and the events that are.
Ended(s) == queues[s] # <<>> /\ Last(queues[s]) = End
EventsIn(s) == IF Ended(s) THEN Len(queues[s]) - 1 ELSE Len(queues[s])

EndIsLast(s) ==
    \A i \in DOMAIN queues[s] :
        queues[s][i] = End
            => /\ i = Len(queues[s])
               /\ s = seg => run = "settled"

\* Events the loop has yet to put, and those put so far on the queue of s.
Underway == IF Done \in Range(calls) THEN Len(calls) - 1 ELSE Len(calls)
PutSoFar(s) == IF s = seg THEN emitted[s] - Underway ELSE emitted[s]

\* Overflow and readers only ever remove the oldest events: what a queue
\* holds is the newest events put on it, in emission order, without a gap,
\* and never more than its limit.  The sentinel is the last thing it ever
\* holds: no event that travels through the loop lands behind it.
QueueIsNewest ==
    \A s \in Segs :
        /\ \A i \in 1..EventsIn(s) : queues[s][i] = PutSoFar(s) - EventsIn(s) + i
        /\ Len(queues[s]) <= Cap
        /\ EndIsLast(s)

\* A connection sees the events of one segment, in emission order, whichever
\* other connections share its queue.
DeliveredInOrder ==
    [][\A c \in Readers :
          reader[c].open /\ reader'[c].open /\ reader'[c] # reader[c]
            => /\ reader'[c].queue = reader[c].queue
               /\ reader'[c].last > reader[c].last]_vars

\* No other connection drains the queue of c, and the task that is to put the
\* sentinel on it has not been lost before its try block.
Undisturbed(c) ==
    /\ \A d \in Readers \ {c} : reader[d].open => reader[d].queue # reader[c].queue
    /\ run \notin {"stuck", "unended"}

\* A client that never shares its queue sees its stream end, whatever events
\* were dropped, however often the run is resumed and others come and go.
UnsharedStreamCloses ==
    \A c \in Readers :
        [](reader[c].open => Undisturbed(c))
            => (reader[c].open ~> ~reader[c].open)

\* Why the first two hold.  The calls the loop has yet to run are the newest
\* events in emission order, the result of graph.invoke behind them, and only
\* an executing segment has any; and a connection has seen nothing that its
\* queue still holds.
CallsInOrder ==
    /\ calls # <<>> => run = "executing"
    /\ \A i \in DOMAIN calls :
         IF calls[i] = Done THEN i = Len(calls)
         ELSE calls[i] = emitted[seg] - Underway + i

Unopened(s) == queues[s] = <<>> /\ emitted[s] = 0

ReaderIsBehind(c) ==
    \A s \in Segs :
        reader[c].open /\ reader[c].queue = s =>
            s <= seg /\ reader[c].last <= PutSoFar(s) - EventsIn(s)

StreamInv ==
    /\ TypeOK
    /\ run = "none" <=> seg = 0
    /\ registered <= seg
    /\ CallsInOrder
    /\ \A s \in Segs : s > seg => Unopened(s)
    /\ \A s \in Segs : EventsIn(s) <= PutSoFar(s)
    /\ QueueIsNewest
    /\ \A c \in Readers : ReaderIsBehind(c)
=============================================================================
