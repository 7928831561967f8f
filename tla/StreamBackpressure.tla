------------------------- MODULE StreamBackpressure -------------------------
(***************************************************************************)
(* StreamService.handleDataStream: the rows of one query are read through  *)
(* a stream and handed to the async function handleData, one at a time:    *)
(* the stream is paused during each call.  The readable stream of Node.js  *)
(* and the cursor behind it (pg-query-stream) are external.                 *)
(*                                                                         *)
(* One step is one callback from the event loop with everything it calls.  *)
(***************************************************************************)
EXTENDS Integers, FiniteSets

CONSTANTS
    MaxRows,    \* bound: rows of the query's result
    BatchSize   \* rows the stream asks the cursor for at a time (highWaterMark)

ASSUME RowsAssumption  == MaxRows \in Nat
ASSUME BatchAssumption == BatchSize \in Nat \ {0}

VARIABLES
    total,     \* rows of this query's result
    fetched,   \* rows the cursor has pushed into the stream
    consumed,  \* rows the stream has emitted in data events
    ended,     \* the cursor has pushed its end of file
    flowing,   \* the stream is not paused
    stream,    \* "none", "open" or "destroyed"
    handling,  \* rows whose handleData is under way
    handled,   \* rows whose handleData resolved
    failed,    \* rows whose handleData rejected
    outcome,   \* how the call ends, settled once: "pending", "resolved" or "rejected"
    runner     \* the query runner: "idle", "held", "released", or "abandoned" with no connection

source == <<total, fetched, consumed, ended>>
work   == <<handling, handled, failed>>
vars   == <<source, flowing, stream, work, outcome, runner>>

Rows == 1..total

Init ==
    /\ total \in 0..MaxRows
    /\ fetched = 0 /\ consumed = 0 /\ ended = FALSE
    /\ flowing = FALSE /\ stream = "none"
    /\ handling = {} /\ handled = {} /\ failed = {}
    /\ outcome = "pending"
    /\ runner = "idle"

\* A promise is settled once.
SettlePromise(o) == outcome' = IF outcome = "pending" THEN o ELSE outcome

-----------------------------------------------------------------------------
\* queryRunner.stream resolves: the handlers are attached, which starts the flow.
Open ==
    /\ stream = "none" /\ runner = "idle"
    /\ stream' = "open" /\ flowing' = TRUE /\ runner' = "held"
    /\ UNCHANGED <<source, work, outcome>>

\* queryRunner.stream rejects before there is a connection: nothing is caught here.
OpenFails ==
    /\ stream = "none" /\ runner = "idle"
    /\ runner' = "abandoned"
    /\ SettlePromise("rejected")
    /\ UNCHANGED <<source, flowing, stream, work>>

\* Mutant: the stream is not paused while the row is handled.
DataEvent_NoPause(r) ==
    /\ consumed' = r
    /\ flowing' = TRUE
    /\ handling' = handling \cup {r}

\* The data handler: pause the stream, call handleData.
DataEvent(r) ==
    /\ consumed' = r
    /\ flowing' = FALSE
    /\ handling' = handling \cup {r}

\* The end handler resolves the inner promise.
EndEvent == SettlePromise("resolved")

\* What the cursor answers with: fewer rows than asked for are the last.
Batch == IF total - fetched < BatchSize THEN total - fetched ELSE BatchSize

\* A row or an end of file that finds the stream flowing and empty is emitted at once.
Starved == flowing /\ fetched = consumed

\* The cursor answers and its rows are pushed into the stream.
Fetch ==
    /\ stream = "open" /\ ~ended /\ fetched - consumed < BatchSize
    /\ fetched' = fetched + Batch
    /\ ended' = (Batch < BatchSize)
    /\ \/ Starved /\ Batch > 0 /\ DataEvent(consumed + 1) /\ UNCHANGED outcome
       \/ Starved /\ Batch = 0 /\ EndEvent /\ UNCHANGED <<consumed, flowing, handling>>
       \/ ~Starved /\ UNCHANGED <<consumed, flowing, handling, outcome>>
    /\ UNCHANGED <<total, stream, handled, failed, runner>>

\* A flowing stream emits its next row.  When it knows that this is the last one, the end
\* event follows in the next tick, before any promise of handleData gets its turn.
Flow ==
    /\ stream = "open" /\ flowing /\ consumed < fetched
    /\ DataEvent(consumed + 1)
    /\ IF ended /\ consumed + 1 = fetched THEN EndEvent ELSE UNCHANGED outcome
    /\ UNCHANGED <<total, fetched, ended, stream, handled, failed, runner>>

\* A flowing stream with nothing left emits its end.
FlowEnds ==
    /\ stream = "open" /\ flowing /\ consumed = fetched /\ ended
    /\ outcome = "pending"
    /\ EndEvent
    /\ UNCHANGED <<source, flowing, stream, work, runner>>

-----------------------------------------------------------------------------
\* Mutant: a failure is only logged and the stream goes on.
ErrorEvent_LoggedOnly ==
    /\ flowing' = TRUE
    /\ UNCHANGED <<stream, outcome>>

\* The error handler: destroy the stream, reject the inner promise.
ErrorEvent ==
    /\ stream' = "destroyed"
    /\ SettlePromise("rejected")
    /\ UNCHANGED flowing

\* Mutant: the stream is resumed only if more rows are there already.
HandleResolves_Stalls(r) ==
    /\ r \in handling
    /\ handling' = handling \ {r} /\ handled' = handled \cup {r}
    /\ flowing' = (consumed < fetched)
    /\ UNCHANGED <<source, stream, failed, outcome, runner>>

\* handleData resolves: resume, which does nothing to a destroyed stream.
HandleResolves(r) ==
    /\ r \in handling
    /\ handling' = handling \ {r} /\ handled' = handled \cup {r}
    /\ flowing' = (stream = "open" \/ flowing)
    /\ UNCHANGED <<source, stream, failed, outcome, runner>>

\* handleData rejects: the error is emitted on the stream.
HandleRejects(r) ==
    /\ r \in handling
    /\ handling' = handling \ {r} /\ failed' = failed \cup {r}
    /\ ErrorEvent
    /\ UNCHANGED <<source, handled, runner>>

\* The query fails under the stream.
QueryFails ==
    /\ stream = "open" /\ ~ended
    /\ ErrorEvent
    /\ UNCHANGED <<source, work, runner>>

\* The inner promise is settled: finally destroys the stream and releases the runner.
Finally ==
    /\ runner = "held" /\ outcome # "pending"
    /\ stream' = "destroyed"
    /\ runner' = "released"
    /\ UNCHANGED <<source, flowing, work, outcome>>

Handle(r) == HandleResolves(r) \/ HandleRejects(r)
Emit == Fetch \/ Flow \/ FlowEnds
Next ==
    \/ Open \/ OpenFails \/ Emit \/ QueryFails \/ Finally
    \/ \E r \in Rows : Handle(r)

Spec == Init /\ [][Next]_vars

\* The database answers, the stream goes on and handleData settles; nothing has to fail.
Fairness ==
    /\ WF_vars(Open \/ OpenFails) /\ WF_vars(Emit) /\ WF_vars(Finally)
    /\ \A r \in 1..MaxRows : WF_vars(r \in Rows /\ Handle(r))
FairSpec == Spec /\ Fairness

-----------------------------------------------------------------------------
\* The type invariant.
TypeOK ==
    /\ total \in 0..MaxRows /\ fetched \in 0..total /\ consumed \in 0..fetched
    /\ ended \in BOOLEAN /\ flowing \in BOOLEAN
    /\ stream \in {"none", "open", "destroyed"}
    /\ handling \subseteq Rows /\ handled \subseteq Rows /\ failed \subseteq Rows
    /\ outcome \in {"pending", "resolved", "rejected"}
    /\ runner \in {"idle", "held", "released", "abandoned"}

\* handleData is never called for a row before its call for the row before has settled,
\* although rows arrive in batches and the stream may end or fail at any time.
OneAtATime == Cardinality(handling) <= 1

\* A call that succeeds has passed on every row, and handleData has resolved for all but
\* the last one.  For the last one it may still run: the end event does not wait for it.
ResolvedAfterRows ==
    outcome = "resolved" => consumed = total /\ Rows \ handled \subseteq {total}

\* A row that could not be handled makes the call fail, the last row excepted: its
\* failure may come when the call has succeeded already.
FailureReported ==
    \A r \in failed : outcome = "rejected" \/ (outcome = "resolved" /\ r = total)

\* The outcome tells what became of the rows, as far as it can be told before the last one
\* is handled: success is no less than that all were passed on, no failure is swallowed.
OutcomeTrue == ResolvedAfterRows /\ FailureReported

\* Once the call has failed no further row is handed to handleData, buffered or not.
StopsAtFailure == [][outcome = "rejected" => consumed' = consumed]_vars

\* A call that got its connection gives it back in the end.
ReleasedInTheEnd == runner = "held" ~> runner = "released"
=============================================================================
