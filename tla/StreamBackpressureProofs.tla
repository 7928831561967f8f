---------------------- MODULE StreamBackpressureProofs ----------------------
(***************************************************************************)
(* Proofs about StreamBackpressure, for results and batches of any size.   *)
(***************************************************************************)
EXTENDS StreamBackpressure, FiniteSetTheorems, TLAPS

\* The row in handleData is the one emitted last, and keeps an open stream paused.
Paused ==
    /\ handling \subseteq {consumed}
    /\ stream = "open" /\ handling # {} => ~flowing

\* Every row emitted is in handleData, or it has been handled or has failed.
Accounted ==
    /\ 1..consumed \subseteq handling \cup handled \cup failed
    /\ ended => fetched = total

\* The stream is destroyed with the first failure.
Torn ==
    /\ stream = "open" => failed = {} /\ outcome # "rejected"
    /\ stream = "none" => runner \in {"idle", "abandoned"} /\ handling = {} /\ outcome # "resolved"
    /\ runner = "idle" => stream = "none" /\ outcome = "pending"
    /\ failed # {} => outcome # "pending"

IInv == TypeOK /\ Paused /\ Accounted /\ Torn /\ ResolvedAfterRows /\ FailureReported

\* A data event finds no row in handleData and leaves the invariant's parts true.
LEMMA DataEventStep ==
    ASSUME IInv, stream = "open", flowing, DataEvent(consumed + 1),
           consumed + 1 <= fetched', fetched' \in 0..total,
           UNCHANGED <<total, stream, handled, failed>>
    PROVE  /\ handling' = {consumed'} /\ consumed' = consumed + 1
           /\ consumed' \in 0..fetched' /\ ~flowing' /\ flowing' \in BOOLEAN
           /\ handling' \subseteq Rows
           /\ 1..consumed \subseteq handled
           /\ 1..consumed' \subseteq handling' \cup handled'
<1>1. /\ handling = {} /\ failed = {} /\ consumed \in Nat /\ total \in Nat
      /\ fetched' \in Nat /\ fetched' <= total
  BY RowsAssumption DEF IInv, Paused, Torn, TypeOK
<1>2. 1..consumed \subseteq handled
  BY <1>1 DEF IInv, Accounted
<1>3. handling' = {consumed'} /\ consumed' = consumed + 1 /\ ~flowing' /\ flowing' = FALSE
  BY <1>1 DEF DataEvent
<1>4. 1..consumed' \subseteq handling' \cup handled'
  BY <1>1, <1>2, <1>3
<1>5. consumed' \in 0..fetched' /\ handling' \subseteq Rows
  BY <1>1, <1>3 DEF Rows
<1>6. QED
  BY <1>2, <1>3, <1>4, <1>5

\* Nothing is read yet.
LEMMA InitInv == Init => IInv
<1> SUFFICES ASSUME Init PROVE IInv
  OBVIOUS
<1>1. TypeOK
  <2>1. total \in 0..MaxRows /\ total \in Nat
    BY RowsAssumption DEF Init
  <2>2. fetched \in 0..total /\ consumed \in 0..fetched
    BY <2>1 DEF Init
  <2>3. ended \in BOOLEAN /\ flowing \in BOOLEAN
    BY DEF Init
  <2>4. QED
    BY <2>1, <2>2, <2>3 DEF Init, TypeOK
<1>2. 1..consumed = {}
  BY DEF Init
<1>3. Paused /\ Accounted
  BY <1>2 DEF Init, Paused, Accounted
<1>4. Torn /\ ResolvedAfterRows /\ FailureReported
  BY DEF Init, Torn, ResolvedAfterRows, FailureReported
<1>5. QED
  BY <1>1, <1>3, <1>4 DEF IInv

\* The invariant is inductive: one step per action.
LEMMA NextInv == IInv /\ [Next]_vars => IInv'
<1> SUFFICES ASSUME IInv, [Next]_vars PROVE IInv'
  OBVIOUS
<1>t. TypeOK /\ Paused /\ Accounted /\ Torn /\ ResolvedAfterRows /\ FailureReported
  BY DEF IInv
<1> USE RowsAssumption, BatchAssumption DEF TypeOK, source, work, SettlePromise, Rows
<1>1. CASE Open
  BY <1>1, <1>t DEF Open, IInv, Paused, Accounted, Torn, ResolvedAfterRows, FailureReported
<1>2. CASE OpenFails
  BY <1>2, <1>t DEF OpenFails, IInv, Paused, Accounted, Torn, ResolvedAfterRows, FailureReported
<1>3. CASE Fetch
  <2>1. /\ stream = "open" /\ UNCHANGED <<total, stream, handled, failed, runner>>
        /\ fetched' = fetched + Batch /\ Batch \in Nat
        /\ fetched' \in 0..total /\ fetched \in 0..fetched'
        /\ ended' \in BOOLEAN /\ (ended' => fetched' = total)
    BY <1>3, <1>t DEF Fetch, Batch
  <2>2. CASE Starved /\ Batch > 0 /\ DataEvent(consumed + 1) /\ UNCHANGED outcome
    <3>1. flowing /\ fetched = consumed /\ consumed + 1 <= fetched'
      BY <1>t, <2>1, <2>2 DEF Starved
    <3>2. outcome = "pending"
      BY <1>t, <1>3, <2>1, <3>1 DEF Torn, ResolvedAfterRows, Fetch
    <3>3. QED
      BY <1>t, <2>1, <2>2, <3>1, <3>2, DataEventStep
         DEF IInv, Paused, Accounted, Torn, ResolvedAfterRows, FailureReported
  <2>3. CASE Starved /\ Batch = 0 /\ EndEvent /\ UNCHANGED <<consumed, flowing, handling>>
    <3>1. handling = {} /\ failed = {} /\ consumed = total
      BY <1>t, <1>3, <2>1, <2>3 DEF Paused, Torn, Starved, Batch
    <3>2. QED
      BY <1>t, <2>1, <2>3, <3>1
         DEF IInv, Paused, Accounted, Torn, ResolvedAfterRows, FailureReported, EndEvent
  <2>4. CASE UNCHANGED <<consumed, flowing, handling, outcome>>
    BY <1>t, <2>1, <2>4 DEF IInv, Paused, Accounted, Torn, ResolvedAfterRows, FailureReported
  <2>5. QED
    BY <1>3, <2>2, <2>3, <2>4 DEF Fetch
<1>4. CASE Flow
  <2>1. /\ DataEvent(consumed + 1) /\ stream = "open" /\ flowing /\ consumed < fetched
        /\ UNCHANGED <<total, fetched, ended, stream, handled, failed, runner>>
        /\ outcome' = outcome \/ (EndEvent /\ ended /\ consumed + 1 = fetched)
    BY <1>4 DEF Flow
  <2>2. outcome # "resolved" /\ failed = {}
    BY <1>t, <2>1 DEF ResolvedAfterRows, Torn
  <2>3. QED
    BY <1>t, <2>1, <2>2, DataEventStep
       DEF IInv, Paused, Accounted, Torn, ResolvedAfterRows, FailureReported, EndEvent
<1>5. CASE FlowEnds
  <2>1. handling = {} /\ failed = {} /\ consumed = total
    BY <1>5, <1>t DEF FlowEnds, Paused, Torn, Accounted
  <2>2. QED
    BY <1>5, <1>t, <2>1
       DEF FlowEnds, IInv, Paused, Accounted, Torn, ResolvedAfterRows, FailureReported, EndEvent
<1>6. CASE QueryFails
  BY <1>6, <1>t
     DEF QueryFails, ErrorEvent, IInv, Paused, Accounted, Torn, ResolvedAfterRows, FailureReported
<1>7. CASE Finally
  BY <1>7, <1>t
     DEF Finally, IInv, Paused, Accounted, Torn, ResolvedAfterRows, FailureReported
<1>8. ASSUME NEW r \in Rows, HandleResolves(r) PROVE IInv'
  <2>1. r = consumed /\ handling' = {} /\ handled' = handled \cup {r}
    BY <1>8, <1>t DEF HandleResolves, Paused
  <2>2. QED
    BY <1>8, <1>t, <2>1
       DEF HandleResolves, IInv, Paused, Accounted, Torn, ResolvedAfterRows, FailureReported
<1>9. ASSUME NEW r \in Rows, HandleRejects(r) PROVE IInv'
  <2>1. r = consumed /\ handling' = {} /\ failed' = failed \cup {r}
    BY <1>9, <1>t DEF HandleRejects, Paused
  <2>2. QED
    BY <1>9, <1>t, <2>1
       DEF HandleRejects, ErrorEvent, IInv, Paused, Accounted, Torn, ResolvedAfterRows,
           FailureReported
<1>10. CASE UNCHANGED vars
  BY <1>10, <1>t DEF vars, IInv, Paused, Accounted, Torn, ResolvedAfterRows, FailureReported
<1>11. QED
  BY <1>1, <1>2, <1>3, <1>4, <1>5, <1>6, <1>7, <1>8, <1>9, <1>10 DEF Next, Emit, Handle

\* The invariant holds throughout.
LEMMA Invariant == Spec => []IInv
BY InitInv, NextInv, PTL DEF Spec

\* Every reachable state of handleDataStream is well typed: no row is emitted that the
\* cursor has not pushed, and none pushed that the result has not.
THEOREM TypeCorrect == Spec => []TypeOK
<1>1. IInv => TypeOK
  BY DEF IInv
<1>2. QED
  BY Invariant, <1>1, PTL

\* At most one row is in handleData, whatever the batches and wherever the stream ends.
THEOREM SingleRow == Spec => []OneAtATime
<1>1. IInv => OneAtATime
  <2>1. ASSUME IInv PROVE handling = {} \/ handling = {consumed}
    BY <2>1 DEF IInv, Paused
  <2>2. Cardinality({}) = 0 /\ Cardinality({consumed}) = 1
    <3>1. Cardinality({}) = 0
      BY FS_EmptySet
    <3>2. Cardinality({consumed}) = 1
      BY FS_Singleton
    <3>3. QED
      BY <3>1, <3>2
  <2>3. QED
    BY <2>1, <2>2 DEF OneAtATime
<1>2. QED
  BY Invariant, <1>1, PTL

\* A call that succeeds has passed on every row and handled all but possibly the last.
THEOREM SuccessComplete == Spec => []ResolvedAfterRows
<1>1. IInv => ResolvedAfterRows
  BY DEF IInv
<1>2. QED
  BY Invariant, <1>1, PTL

\* A row that could not be handled makes the call fail, unless it is the last one.
THEOREM FailuresReported == Spec => []FailureReported
<1>1. IInv => FailureReported
  BY DEF IInv
<1>2. QED
  BY Invariant, <1>1, PTL

\* Both together: the caller of handleDataStream is told the truth about the rows.
THEOREM OutcomesTrue == Spec => []OutcomeTrue
<1>1. ResolvedAfterRows /\ FailureReported => OutcomeTrue
  BY DEF OutcomeTrue
<1>2. QED
  BY SuccessComplete, FailuresReported, <1>1, PTL

\* A call that has failed hands out no further row.
THEOREM FailureStops == Spec => StopsAtFailure
<1>1. ASSUME IInv, [Next]_vars, outcome = "rejected" PROVE consumed' = consumed
  BY <1>1 DEF IInv, Torn, Next, Open, OpenFails, Emit, Fetch, Flow, FlowEnds, QueryFails,
     Finally, Handle, HandleResolves, HandleRejects, vars, source
<1>2. QED
  BY Invariant, <1>1, PTL DEF Spec, StopsAtFailure
=============================================================================
