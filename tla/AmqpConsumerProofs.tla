------------------------- MODULE AmqpConsumerProofs -------------------------
(***************************************************************************)
(* Proofs about AmqpConsumer, for any messages, limits and bounds and both *)
(* modes of acceptance: type correctness, that no message is in two        *)
(* handlers of one link, that no credit is lost but with a connection, and *)
(* the implementation of BoundedRetry.                                     *)
(***************************************************************************)
EXTENDS AmqpConsumer, SequenceTheorems, FiniteSetTheorems, TLAPS

\* Deliveries that may still lead to, or count as, a call of onMessage.
Busy == {"buffered", "counting", "handling"}
Engaged(d) == stage[d] \in Busy \/ (Eager /\ d \in attempts)

\* The concatMap holds each of its deliveries once.
Queued ==
    /\ \A i \in 1..Len(buffer) : stage[buffer[i]] = "buffered"
    /\ \A i, j \in 1..Len(buffer) : buffer[i] = buffer[j] => i = j

\* The current receiver's links, and those deliveries came in on, have been attached;
\* deliveries to come have left no trace.
Numbered ==
    /\ opened <= receiver
    /\ \A d \in Deliveries :
         /\ link[d] <= receiver
         /\ d[2] > delivered[Message(d)] =>
               stage[d] = "none" /\ d \notin attempts /\ sent[d] = "none"

\* Nothing is sent for a delivery before it is dispatched; eager acceptance comes first.
Promised ==
    \A d \in Deliveries :
        /\ stage[d] \in {"buffered", "counting"} => sent[d] = "none" /\ d \notin attempts
        /\ stage[d] = "handling" => sent[d] \in {"none", "done"}
        /\ Eager /\ d \in attempts => sent[d] = "done"

\* While an engaged delivery's link lasts, the broker does not offer its message; a
\* closed receiver has no credits.
Current ==
    /\ closed => credit = 0
    /\ \A d \in Deliveries :
         phase # "down" /\ ~closed /\ link[d] = receiver /\ Engaged(d) =>
             place[Message(d)] \in {"taken", "done"} /\ delivered[Message(d)] = d[2]

\* Engaged deliveries of one message came in on different links.
Separated ==
    \A d, e \in Deliveries :
        Engaged(d) /\ Engaged(e) /\ Message(d) = Message(e) /\ link[d] = link[e] => d = e

IInv == TypeOK /\ Queued /\ Numbered /\ Promised /\ Current /\ Separated

-----------------------------------------------------------------------------
(* Types.                                                                  *)

\* A delivery is a message and a number.
LEMMA DeliveryType ==
    ASSUME NEW d \in Deliveries
    PROVE  Message(d) \in Messages /\ d[2] \in 1..MaxDeliveries /\ d = <<Message(d), d[2]>>
BY DEF Deliveries, Message

\* A key of the delivery counter is a message or NoId.
LEMMA KeyType ==
    ASSUME NEW m \in Messages
    PROVE  DeliveryKey(m) \in Messages \cup {NoId}
BY DEF DeliveryKey

\* The next delivery of a message within the bound is a delivery.
LEMMA NextDeliveryType ==
    ASSUME TypeOK, NEW m \in Messages, delivered[m] < MaxDeliveries
    PROVE  /\ <<m, delivered[m] + 1>> \in Deliveries
           /\ delivered[m] + 1 \in 0..MaxDeliveries
BY BoundsAssumption DEF TypeOK, Deliveries

\* A disposition sent keeps the record of dispositions well typed.
LEMMA SendType ==
    ASSUME TypeOK, NEW d \in Deliveries, NEW p \in Dispositions, Send(d, p)
    PROVE  sent' \in [Deliveries -> Dispositions]
BY DEF TypeOK, Send

\* So does moving a delivery to another stage.
LEMMA MoveType ==
    ASSUME TypeOK, NEW d \in Deliveries, NEW s \in Stages, Move(d, s)
    PROVE  stage' \in [Deliveries -> Stages]
BY DEF TypeOK, Move

\* The head of the concatMap's queue is a delivery, and the rest a queue.
LEMMA HeadType ==
    ASSUME TypeOK, NEW d, HeadOfBuffer(d)
    PROVE  /\ d \in Deliveries /\ d = buffer[1] /\ Len(buffer) \in Nat \ {0}
           /\ Tail(buffer) \in Seq(Deliveries)
           /\ Len(Tail(buffer)) = Len(buffer) - 1
           /\ \A i \in 1..Len(Tail(buffer)) : Tail(buffer)[i] = buffer[i + 1]
BY HeadTailProperties, EmptySeq DEF TypeOK, HeadOfBuffer

\* Dispatching a delivery keeps what it changes well typed.
LEMMA DispatchType ==
    ASSUME TypeOK, NEW d \in Deliveries, Dispatch(d)
    PROVE  /\ sent' \in [Deliveries -> Dispositions]
           /\ stage' \in [Deliveries -> Stages]
           /\ count' \in [Messages \cup {NoId} -> Nat]
           /\ attempts' \subseteq Deliveries
<1>1. DeliveryKey(Message(d)) \in Messages \cup {NoId}
  BY DeliveryType, KeyType
<1>2. count' \in [Messages \cup {NoId} -> Nat]
  <2>1. count \in [Messages \cup {NoId} -> Nat]
    BY DEF TypeOK
  <2>2. \/ count' = [count EXCEPT ![DeliveryKey(Message(d))] = @ + 1]
        \/ count' = count
    BY DEF Dispatch
  <2>3. QED
    BY <1>1, <2>1, <2>2
<1>3. sent' \in [Deliveries -> Dispositions]
  <2>1. CASE Eager
    BY <2>1, SendType DEF Dispatch, Dispositions
  <2>2. CASE ~Eager
    BY <2>2 DEF Dispatch, TypeOK
  <2>3. QED
    BY <2>1, <2>2
<1>4. stage' \in [Deliveries -> Stages] /\ attempts' \subseteq Deliveries
  BY MoveType DEF Dispatch, Stages, TypeOK
<1>5. QED
  BY <1>2, <1>3, <1>4

\* Nothing has happened yet: all parts of the invariant hold.
LEMMA InitInv == Init => IInv
<1> SUFFICES ASSUME Init PROVE IInv
  OBVIOUS
<1>1. TypeOK
  <2>1. closed \in BOOLEAN
    BY Zenon DEF Init
  <2>2. buffer \in Seq(Deliveries)
    BY EmptySeq DEF Init
  <2>3. QED
    BY <2>1, <2>2, BoundsAssumption DEF Init, TypeOK, Places, Dispositions, Stages
<1>2. \A d \in Deliveries : ~Engaged(d)
  BY DEF Init, Engaged, Busy
<1>3. Queued
  BY DEF Init, Queued
<1>4. Numbered
  BY DEF Init, Numbered
<1>5. Promised
  BY DEF Init, Promised
<1>6. Current /\ Separated
  BY <1>2 DEF Init, Current, Separated
<1>7. QED
  BY <1>1, <1>3, <1>4, <1>5, <1>6 DEF IInv

\* Every step keeps the types: one step per action.
LEMMA NextType == TypeOK /\ [Next]_vars => TypeOK'
<1> SUFFICES ASSUME TypeOK, [Next]_vars PROVE TypeOK'
  OBVIOUS
<1> USE LimitAssumption, BoundsAssumption DEF broker, object, consumer, history, AddCredit
<1>1. CASE Listen
  <2>1. closed' \in BOOLEAN
    BY <1>1, Zenon DEF Listen, OpenReceiver
  <2>2. QED
    BY <1>1, <2>1 DEF Listen, OpenReceiver, TypeOK
<1>2. CASE Start
  BY <1>2 DEF Start, TypeOK
<1>3. CASE Reconnect \/ Detach
  <2>1. place' \in [Messages -> Places]
    BY <1>3 DEF Reconnect, Detach, TypeOK, Requeue, Places
  <2>2. /\ receiver' \in 0..MaxReceivers /\ opened' \in 0..MaxReceivers
        /\ credit' \in Nat /\ forfeited' \in Nat
    BY <1>3 DEF Reconnect, Detach, OpenReceiver, TypeOK
  <2>3. closed' \in BOOLEAN
    BY <1>3, Zenon DEF Reconnect, Detach, OpenReceiver, TypeOK
  <2>4. QED
    BY <1>3, <2>1, <2>2, <2>3 DEF Reconnect, Detach, TypeOK
<1>4. CASE Crash
  <2>1. place' \in [Messages -> Places]
    BY <1>4 DEF Crash, TypeOK, Requeue, Places
  <2>2. stage' \in [Deliveries -> Stages]
    BY <1>4 DEF Crash, TypeOK, Stages
  <2>3. buffer' \in Seq(Deliveries)
    BY <1>4, EmptySeq DEF Crash
  <2>4. QED
    BY <1>4, <2>1, <2>2, <2>3 DEF Crash, TypeOK
<1>5. ASSUME NEW m \in Messages, Deliver(m) PROVE TypeOK'
  <2> DEFINE d == <<m, delivered[m] + 1>>
  <2>1. d \in Deliveries /\ delivered[m] + 1 \in 0..MaxDeliveries
    BY <1>5, NextDeliveryType DEF Deliver
  <2>2. stage' \in [Deliveries -> Stages]
    BY <1>5, <2>1, MoveType DEF Deliver, Stages
  <2>3. buffer' \in Seq(Deliveries)
    <3>1. buffer \in Seq(Deliveries) /\ Append(buffer, d) \in Seq(Deliveries)
      BY <2>1, AppendProperties DEF TypeOK
    <3>2. buffer' = buffer \/ buffer' = Append(buffer, d)
      BY <1>5 DEF Deliver
    <3>3. QED
      BY <3>1, <3>2
  <2>4. link' \in [Deliveries -> 0..MaxReceivers]
    BY <1>5, <2>1 DEF Deliver, TypeOK
  <2>5. /\ place' \in [Messages -> Places] /\ delivered' \in [Messages -> 0..MaxDeliveries]
        /\ credit' \in Nat
    BY <1>5, <2>1 DEF Deliver, TypeOK, Places
  <2>6. QED
    BY <1>5, <2>2, <2>3, <2>4, <2>5 DEF Deliver, TypeOK
<1>6. ASSUME NEW d \in Deliveries, Settle(d) PROVE TypeOK'
  <2>1. sent[d] \in Places
    BY <1>6 DEF Settle, TypeOK, Dispositions, Places
  <2>2. QED
    BY <1>6, <2>1 DEF Settle, TypeOK
<1>7. ASSUME NEW d \in Deliveries, Unparsable(d) PROVE TypeOK'
  <2>1. sent' \in [Deliveries -> Dispositions] /\ stage' \in [Deliveries -> Stages]
    BY <1>7, SendType, MoveType DEF Unparsable, RejectUnprocessed, Dispositions, Stages
  <2>2. buffer' \in Seq(Deliveries) /\ credit' \in Nat
    BY <1>7, HeadType DEF Unparsable, RejectUnprocessed, TypeOK
  <2>3. QED
    BY <1>7, <2>1, <2>2 DEF Unparsable, TypeOK
<1>8. ASSUME NEW d \in Deliveries, FirstDelivery(d) PROVE TypeOK'
  BY <1>8, HeadType, DispatchType DEF FirstDelivery, TypeOK
<1>9. ASSUME NEW d \in Deliveries, Redelivery(d) PROVE TypeOK'
  <2>1. stage' \in [Deliveries -> Stages]
    BY <1>9, MoveType DEF Redelivery, Stages
  <2>2. QED
    BY <1>9, <2>1, HeadType DEF Redelivery, TypeOK
<1>10. ASSUME NEW d \in Deliveries, CountValid(d) PROVE TypeOK'
  BY <1>10, DispatchType DEF CountValid, TypeOK
<1>11. ASSUME NEW d \in Deliveries, CountExceeded(d) PROVE TypeOK'
  <2>1. sent' \in [Deliveries -> Dispositions] /\ stage' \in [Deliveries -> Stages]
    BY <1>11, SendType, MoveType DEF CountExceeded, Dispositions, Stages
  <2>2. QED
    BY <1>11, <2>1 DEF CountExceeded, TypeOK
<1>12. ASSUME NEW d \in Deliveries, CountFails(d) PROVE TypeOK'
  <2>1. sent' \in [Deliveries -> Dispositions] /\ stage' \in [Deliveries -> Stages]
    BY <1>12, SendType, MoveType DEF CountFails, RejectUnprocessed, Dispositions, Stages
  <2>2. QED
    BY <1>12, <2>1 DEF CountFails, RejectUnprocessed, TypeOK
<1>13. ASSUME NEW d \in Deliveries, HandlerSucceeds(d) PROVE TypeOK'
  <2>1. sent' \in [Deliveries -> Dispositions]
    <3>1. CASE Eager
      BY <1>13, <3>1 DEF HandlerSucceeds, TypeOK
    <3>2. CASE ~Eager
      BY <1>13, <3>2, SendType DEF HandlerSucceeds, Dispositions
    <3>3. QED
      BY <3>1, <3>2
  <2>2. stage' \in [Deliveries -> Stages]
    BY <1>13, MoveType DEF HandlerSucceeds, Stages
  <2>3. handled' \subseteq Messages
    BY <1>13, DeliveryType DEF HandlerSucceeds, TypeOK
  <2>4. QED
    BY <1>13, <2>1, <2>2, <2>3 DEF HandlerSucceeds, TypeOK
<1>14. ASSUME NEW d \in Deliveries, HandlerFails(d) PROVE TypeOK'
  <2>1. stage' \in [Deliveries -> Stages]
    BY <1>14, MoveType DEF HandlerFails, Stages
  <2>2. QED
    BY <1>14, <2>1 DEF HandlerFails, TypeOK
<1>15. ASSUME NEW d \in Deliveries, BackoffEnds(d) PROVE TypeOK'
  <2>1. sent' \in [Deliveries -> Dispositions] /\ stage' \in [Deliveries -> Stages]
    BY <1>15, SendType, MoveType DEF BackoffEnds, Dispositions, Stages
  <2>2. QED
    BY <1>15, <2>1 DEF BackoffEnds, TypeOK
<1>16. ASSUME NEW d \in Deliveries, ReplySent(d) PROVE TypeOK'
  <2>1. stage' \in [Deliveries -> Stages]
    BY <1>16, MoveType DEF ReplySent, Stages
  <2>2. QED
    BY <1>16, <2>1 DEF ReplySent, TypeOK
<1>17. CASE UNCHANGED vars
  BY <1>17 DEF vars, TypeOK
<1>18. QED
  BY <1>1, <1>2, <1>3, <1>4, <1>5, <1>6, <1>7, <1>8, <1>9, <1>10, <1>11, <1>12, <1>13,
     <1>14, <1>15, <1>16, <1>17 DEF Next, Callback, Subscriber

-----------------------------------------------------------------------------
(* What the process does with a delivery it holds.                         *)

\* The ways a delivery moves on, with its disposition and its call of onMessage.
Counts(d) ==
    stage[d] = "buffered" /\ stage'[d] = "counting" /\ sent' = sent /\ attempts' = attempts
Dispatches(d) ==
    /\ stage[d] \in {"buffered", "counting"} /\ stage'[d] = "handling"
    /\ attempts' = attempts \cup {d}
    /\ sent'[d] = IF Eager THEN "done" ELSE "none"
GivesUp(d) ==
    /\ stage[d] \in {"buffered", "counting"} /\ stage'[d] = "ended"
    /\ attempts' = attempts
Finishes(d) ==
    /\ stage[d] \in {"handling", "replying", "backoff"}
    /\ stage'[d] \in {"replying", "backoff", "ended"}
    /\ attempts' = attempts
    /\ Eager /\ d \in attempts => sent'[d] = "done"
MovesOn(d) == Counts(d) \/ Dispatches(d) \/ GivesUp(d) \/ Finishes(d)

\* The queue stays, or its head leaves it.
Dequeues(d) ==
    \/ buffer' = buffer /\ stage[d] # "buffered"
    \/ /\ buffer' = Tail(buffer) /\ d = buffer[1] /\ Len(buffer) \in Nat \ {0}
       /\ Len(Tail(buffer)) = Len(buffer) - 1
       /\ \A i \in 1..Len(Tail(buffer)) : Tail(buffer)[i] = buffer[i + 1]

\* Only the delivery itself is touched.
Alone(d) ==
    /\ UNCHANGED <<place, delivered, phase, receiver, opened, closed, forfeited, link>>
    /\ closed => credit' = credit
    /\ \A e \in Deliveries \ {d} :
          stage'[e] = stage[e] /\ sent'[e] = sent[e] /\ (e \in attempts' <=> e \in attempts)

\* Sending a disposition touches no other delivery, and none that has one.
LEMMA SendEffect ==
    ASSUME TypeOK, NEW d \in Deliveries, NEW p \in Dispositions, Send(d, p)
    PROVE  /\ \A e \in Deliveries \ {d} : sent'[e] = sent[e]
           /\ sent'[d] = IF sent[d] = "none" THEN p ELSE sent[d]
BY DEF TypeOK, Send

\* Moving a delivery to another stage moves no other.
LEMMA MoveEffect ==
    ASSUME TypeOK, NEW d \in Deliveries, NEW s \in Stages, Move(d, s)
    PROVE  stage'[d] = s /\ \A e \in Deliveries \ {d} : stage'[e] = stage[e]
BY DEF TypeOK, Move

\* The head of the queue is buffered.
LEMMA HeadBuffered ==
    ASSUME IInv, NEW d \in Deliveries, HeadOfBuffer(d)
    PROVE  /\ stage[d] = "buffered" /\ sent[d] = "none"
           /\ buffer' = Tail(buffer) => Dequeues(d)
<1>1. d = buffer[1] /\ Len(buffer) \in Nat \ {0}
  BY HeadType DEF IInv
<1>2. stage[d] = "buffered"
  BY <1>1 DEF IInv, Queued
<1>3. QED
  BY <1>1, <1>2, HeadType DEF IInv, Promised, Dequeues

\* A delivery dispatched from the queue or from its count was not dispatched before.
LEMMA DispatchEffect ==
    ASSUME IInv, NEW d \in Deliveries, Dispatch(d), stage[d] \in {"buffered", "counting"}
    PROVE  /\ Dispatches(d)
           /\ \A e \in Deliveries \ {d} : stage'[e] = stage[e] /\ sent'[e] = sent[e]
<1>1. TypeOK /\ sent[d] = "none"
  BY DEF IInv, Promised
<1>2. stage'[d] = "handling" /\ \A e \in Deliveries \ {d} : stage'[e] = stage[e]
  BY <1>1, MoveEffect DEF Dispatch, Stages
<1>3. CASE Eager
  BY <1>1, <1>2, <1>3, SendEffect DEF Dispatch, Dispatches, Dispositions
<1>4. CASE ~Eager
  BY <1>1, <1>2, <1>4 DEF Dispatch, Dispatches
<1>5. QED
  BY <1>3, <1>4

\* Each action of the callback and the subscriber is one of these moves.
LEMMA WorkEffect ==
    ASSUME IInv, NEW d \in Deliveries, Callback(d) \/ Subscriber(d)
    PROVE  Alone(d) /\ MovesOn(d) /\ Dequeues(d)
<1>t. TypeOK
  BY DEF IInv
<1>e. Eager /\ d \in attempts => sent[d] = "done"
  BY DEF IInv, Promised
<1> USE DEF broker, object, history, AddCredit, Dispositions, Stages
<1>1. CASE Unparsable(d)
  BY <1>1, <1>t, SendEffect, MoveEffect, HeadBuffered
     DEF Unparsable, RejectUnprocessed, Alone, MovesOn, GivesUp
<1>2. CASE FirstDelivery(d)
  BY <1>2, DispatchEffect, HeadBuffered DEF FirstDelivery, Alone, MovesOn, Dispatches
<1>3. CASE Redelivery(d)
  BY <1>3, <1>t, MoveEffect, HeadBuffered DEF Redelivery, Alone, MovesOn, Counts
<1>4. CASE CountValid(d)
  BY <1>4, DispatchEffect DEF CountValid, Alone, MovesOn, Dequeues, Dispatches
<1>5. CASE CountExceeded(d)
  BY <1>5, <1>t, SendEffect, MoveEffect
     DEF CountExceeded, Alone, MovesOn, Dequeues, GivesUp
<1>6. CASE CountFails(d)
  BY <1>6, <1>t, SendEffect, MoveEffect
     DEF CountFails, RejectUnprocessed, Alone, MovesOn, Dequeues, GivesUp
<1>7. CASE HandlerSucceeds(d)
  <2>1. /\ \A e \in Deliveries \ {d} : sent'[e] = sent[e]
        /\ Eager /\ d \in attempts => sent'[d] = "done"
    <3>1. CASE Eager
      BY <1>7, <3>1, <1>e DEF HandlerSucceeds
    <3>2. CASE ~Eager
      BY <1>7, <3>2, <1>t, SendEffect DEF HandlerSucceeds
    <3>3. QED
      BY <3>1, <3>2
  <2>2. /\ stage'[d] \in {"replying", "ended"}
        /\ \A e \in Deliveries \ {d} : stage'[e] = stage[e]
    BY <1>7, <1>t, MoveEffect DEF HandlerSucceeds
  <2>3. QED
    BY <1>7, <2>1, <2>2 DEF HandlerSucceeds, Alone, MovesOn, Dequeues, Finishes
<1>8. CASE HandlerFails(d)
  BY <1>8, <1>t, <1>e, MoveEffect DEF HandlerFails, Alone, MovesOn, Dequeues, Finishes
<1>9. CASE BackoffEnds(d)
  BY <1>9, <1>t, <1>e, SendEffect, MoveEffect
     DEF BackoffEnds, Alone, MovesOn, Dequeues, Finishes
<1>10. CASE ReplySent(d)
  BY <1>10, <1>t, <1>e, MoveEffect DEF ReplySent, Alone, MovesOn, Dequeues, Finishes
<1>11. QED
  BY <1>1, <1>2, <1>3, <1>4, <1>5, <1>6, <1>7, <1>8, <1>9, <1>10 DEF Callback, Subscriber

\* A delivery that moves on was engaged if it is engaged afterwards.
LEMMA WorkEngages ==
    ASSUME NEW d \in Deliveries, Alone(d), MovesOn(d), NEW e \in Deliveries, Engaged(e)'
    PROVE  Engaged(e)
<1>1. CASE e # d
  BY <1>1 DEF Alone, Engaged
<1>2. CASE e = d
  BY <1>2 DEF MovesOn, Counts, Dispatches, GivesUp, Finishes, Engaged, Busy
<1>3. QED
  BY <1>1, <1>2

-----------------------------------------------------------------------------
(* Each part of the invariant is kept, one step per kind of action.        *)

\* What a delivery by the broker does.
LEMMA DeliverEffect ==
    ASSUME IInv, NEW m \in Messages, Deliver(m),
           NEW d, d = <<m, delivered[m] + 1>>
    PROVE  /\ d \in Deliveries /\ Message(d) = m /\ d[2] = delivered[m] + 1
           /\ delivered' = [delivered EXCEPT ![m] = d[2]]
           /\ place' = [place EXCEPT ![m] = "taken"] /\ place[m] = "ready"
           /\ phase # "down" /\ ~closed
           /\ UNCHANGED <<sent, phase, receiver, opened, closed, forfeited, attempts>>
           /\ link' = [link EXCEPT ![d] = receiver]
           /\ \A e \in Deliveries \ {d} : stage'[e] = stage[e]
           /\ stage[d] = "none" /\ d \notin attempts /\ sent[d] = "none"
           /\ \/ stage'[d] = "buffered" /\ buffer' = Append(buffer, d)
              \/ stage'[d] = "dropped" /\ buffer' = buffer
<1>1. TypeOK
  BY DEF IInv
<1>2. d \in Deliveries /\ Message(d) = m /\ d[2] = delivered[m] + 1 /\ delivered[m] \in Nat
  BY <1>1, NextDeliveryType DEF Deliver, Message, TypeOK
<1>3. stage[d] = "none" /\ d \notin attempts /\ sent[d] = "none"
  BY <1>2 DEF IInv, Numbered
<1>4. /\ \A e \in Deliveries \ {d} : stage'[e] = stage[e]
      /\ \/ stage'[d] = "buffered" /\ buffer' = Append(buffer, d)
         \/ stage'[d] = "dropped" /\ buffer' = buffer
  BY <1>1, <1>2, MoveEffect DEF Deliver, Stages
<1>5. ~closed
  BY DEF Deliver, IInv, Current, TypeOK
<1>6. QED
  BY <1>1, <1>2, <1>3, <1>4, <1>5 DEF Deliver, object, history

\* The queue holds each delivery once, and only buffered ones.
LEMMA QueuedStep == IInv /\ [Next]_vars => Queued'
<1> SUFFICES ASSUME IInv, [Next]_vars PROVE Queued'
  OBVIOUS
<1>t. /\ TypeOK /\ Queued /\ buffer \in Seq(Deliveries) /\ Len(buffer) \in Nat
      /\ \A i \in 1..Len(buffer) : buffer[i] \in Deliveries
  BY LenProperties, ElementOfSeq DEF IInv, TypeOK
<1>1. CASE buffer' = buffer /\ stage' = stage
  BY <1>1, <1>t DEF Queued
<1>2. CASE Crash
  BY <1>2 DEF Crash, Queued
<1>3. ASSUME NEW m \in Messages, Deliver(m) PROVE Queued'
  <2> DEFINE d == <<m, delivered[m] + 1>>
  <2>1. /\ d \in Deliveries /\ \A e \in Deliveries \ {d} : stage'[e] = stage[e]
        /\ stage[d] = "none"
        /\ \/ stage'[d] = "buffered" /\ buffer' = Append(buffer, d)
           \/ stage'[d] = "dropped" /\ buffer' = buffer
    BY <1>3, DeliverEffect
  <2>2. \A i \in 1..Len(buffer) : buffer[i] # d /\ stage'[buffer[i]] = "buffered"
    BY <1>t, <2>1 DEF Queued
  <2> HIDE DEF d
  <2>3. CASE buffer' = buffer
    BY <1>t, <2>2, <2>3 DEF Queued
  <2>4. CASE buffer' = Append(buffer, d) /\ stage'[d] = "buffered"
    <3>1. /\ Len(buffer') = Len(buffer) + 1 /\ buffer'[Len(buffer) + 1] = d
          /\ \A i \in 1..Len(buffer) : buffer'[i] = buffer[i]
      BY <1>t, <2>1, <2>4, AppendProperties
    <3>2. QED
      BY <1>t, <2>2, <2>4, <3>1 DEF Queued
  <2>5. QED
    BY <2>1, <2>3, <2>4
<1>4. ASSUME NEW d \in Deliveries, Callback(d) \/ Subscriber(d) PROVE Queued'
  <2>1. Alone(d) /\ Dequeues(d)
    BY <1>4, WorkEffect
  <2>2. CASE buffer' = buffer /\ stage[d] # "buffered"
    BY <1>t, <2>1, <2>2 DEF Queued, Alone
  <2>3. CASE /\ buffer' = Tail(buffer) /\ d = buffer[1] /\ Len(buffer) \in Nat \ {0}
             /\ Len(Tail(buffer)) = Len(buffer) - 1
             /\ \A i \in 1..Len(Tail(buffer)) : Tail(buffer)[i] = buffer[i + 1]
    <3>1. \A i \in 1..Len(buffer') : i + 1 \in 1..Len(buffer) /\ buffer'[i] = buffer[i + 1]
      BY <2>3
    <3>2. \A i \in 1..Len(buffer') : buffer'[i] # d
      BY <1>t, <2>3, <3>1 DEF Queued
    <3>3. \A i \in 1..Len(buffer') : stage'[buffer'[i]] = "buffered"
      <4>1. ASSUME NEW i \in 1..Len(buffer') PROVE stage'[buffer'[i]] = "buffered"
        <5>1. buffer'[i] \in Deliveries \ {d} /\ stage[buffer'[i]] = "buffered"
          BY <1>t, <3>1, <3>2 DEF Queued
        <5>2. QED
          BY <2>1, <5>1 DEF Alone
      <4>2. QED
        BY <4>1
    <3>4. \A i, j \in 1..Len(buffer') : buffer'[i] = buffer'[j] => i = j
      BY <1>t, <3>1 DEF Queued
    <3>5. QED
      BY <3>3, <3>4 DEF Queued
  <2>4. QED
    BY <2>1, <2>2, <2>3 DEF Dequeues
<1>5. QED
  BY <1>1, <1>2, <1>3, <1>4
     DEF Next, vars, consumer, Listen, Start, Reconnect, Detach, Settle

\* Links have been attached, and deliveries to come stay untouched.
LEMMA NumberedStep == IInv /\ [Next]_vars => Numbered'
<1> SUFFICES ASSUME IInv, [Next]_vars PROVE Numbered'
  OBVIOUS
<1>t. TypeOK /\ TypeOK' /\ Numbered
  BY NextType DEF IInv
<1>d. \A d \in Deliveries : Message(d) \in Messages /\ d[2] \in Nat
  BY DeliveryType
<1>1. CASE /\ UNCHANGED <<delivered, sent, stage, link, attempts>>
           /\ receiver' \in {receiver, receiver + 1} /\ opened' \in {opened, receiver'}
  BY <1>1, <1>t DEF Numbered, TypeOK
<1>2. CASE Crash
  BY <1>2, <1>t DEF Crash, Numbered, TypeOK, history
<1>3. ASSUME NEW m \in Messages, Deliver(m) PROVE Numbered'
  <2> DEFINE d == <<m, delivered[m] + 1>>
  <2>1. /\ d \in Deliveries /\ Message(d) = m /\ d[2] = delivered[m] + 1
        /\ delivered' = [delivered EXCEPT ![m] = d[2]]
        /\ UNCHANGED <<sent, receiver, opened, attempts>>
        /\ link' = [link EXCEPT ![d] = receiver]
        /\ \A e \in Deliveries \ {d} : stage'[e] = stage[e]
    BY <1>3, DeliverEffect
  <2> HIDE DEF d
  <2>2. SUFFICES ASSUME NEW e \in Deliveries
                 PROVE  /\ link'[e] <= receiver'
                        /\ e[2] > delivered'[Message(e)] =>
                             stage'[e] = "none" /\ e \notin attempts' /\ sent'[e] = "none"
    BY <1>t, <2>1 DEF Numbered
  <2>3. link'[e] <= receiver'
    BY <1>t, <2>1 DEF Numbered, TypeOK
  <2>4. ASSUME e[2] > delivered'[Message(e)]
        PROVE  e # d /\ e[2] > delivered[Message(e)]
    <3>1. /\ delivered \in [Messages -> Nat] /\ delivered[m] \in Nat
          /\ Message(e) \in Messages /\ delivered[Message(e)] \in Nat /\ e[2] \in Nat
      BY <1>t, <1>d DEF TypeOK
    <3>2. CASE Message(e) = m
      BY <2>1, <2>4, <3>1, <3>2
    <3>3. CASE Message(e) # m
      BY <2>1, <2>4, <3>1, <3>3
    <3>4. QED
      BY <3>2, <3>3
  <2>5. QED
    BY <1>t, <2>1, <2>3, <2>4 DEF Numbered
<1>4. ASSUME NEW d \in Deliveries, Callback(d) \/ Subscriber(d) PROVE Numbered'
  <2>1. Alone(d) /\ MovesOn(d)
    BY <1>4, WorkEffect
  <2>2. stage[d] # "none"
    BY <2>1 DEF MovesOn, Counts, Dispatches, GivesUp, Finishes
  <2>3. ~(d[2] > delivered[Message(d)])
    BY <1>t, <2>2 DEF Numbered
  <2>4. QED
    BY <1>t, <2>1, <2>3 DEF Numbered, Alone
<1>5. QED
  BY <1>1, <1>2, <1>3, <1>4
     DEF Next, vars, broker, object, consumer, history, Listen, Start, Reconnect, Detach,
         OpenReceiver, Settle

\* Dispositions and calls of onMessage keep their order.
LEMMA PromisedStep == IInv /\ [Next]_vars => Promised'
<1> SUFFICES ASSUME IInv, [Next]_vars PROVE Promised'
  OBVIOUS
<1>t. TypeOK /\ Promised
  BY DEF IInv
<1>1. CASE UNCHANGED <<sent, stage, attempts>>
  BY <1>1, <1>t DEF Promised
<1>2. CASE Crash
  BY <1>2, <1>t DEF Crash, Promised, history
<1>3. ASSUME NEW m \in Messages, Deliver(m) PROVE Promised'
  <2> DEFINE d == <<m, delivered[m] + 1>>
  <2>1. /\ \A e \in Deliveries \ {d} : stage'[e] = stage[e]
        /\ stage'[d] \in {"buffered", "dropped"} /\ d \notin attempts /\ sent[d] = "none"
        /\ UNCHANGED <<sent, attempts>>
    BY <1>3, DeliverEffect
  <2>2. QED
    BY <1>t, <2>1 DEF Promised
<1>4. ASSUME NEW d \in Deliveries, Callback(d) \/ Subscriber(d) PROVE Promised'
  <2>1. Alone(d) /\ MovesOn(d)
    BY <1>4, WorkEffect
  <2>2. /\ stage'[d] \in {"buffered", "counting"} => sent'[d] = "none" /\ d \notin attempts'
        /\ stage'[d] = "handling" => sent'[d] \in {"none", "done"}
        /\ Eager /\ d \in attempts' => sent'[d] = "done"
    BY <1>t, <2>1 DEF Promised, MovesOn, Counts, Dispatches, GivesUp, Finishes
  <2>3. QED
    BY <1>t, <2>1, <2>2 DEF Promised, Alone
<1>5. QED
  BY <1>1, <1>2, <1>3, <1>4
     DEF Next, vars, broker, consumer, history, Listen, Start, Reconnect, Detach, Settle

\* The broker does not offer a message while an engaged delivery of the current receiver
\* exists: a new receiver has none, and dispositions of engaged deliveries are accepts.
LEMMA CurrentStep == IInv /\ [Next]_vars => Current'
<1> SUFFICES ASSUME IInv, [Next]_vars PROVE Current'
  OBVIOUS
<1>t. TypeOK /\ Numbered /\ Promised /\ Current
  BY DEF IInv
<1>d. \A d \in Deliveries : Message(d) \in Messages /\ link[d] \in Nat
  BY <1>t, DeliveryType DEF TypeOK
<1>1. CASE Listen \/ Reconnect \/ Detach
  <2>1. CASE receiver' = receiver + 1 /\ ~closed' /\ link' = link
    <3>1. receiver \in Nat
      BY <1>t DEF TypeOK
    <3>2. QED
      BY <1>t, <1>d, <2>1, <3>1 DEF Current, Numbered
  <2>2. CASE closed' /\ credit' = 0
    BY <2>2 DEF Current
  <2>3. QED
    BY <1>1, <2>1, <2>2 DEF Listen, Reconnect, Detach, OpenReceiver
<1>2. CASE Start \/ UNCHANGED vars
  BY <1>2, <1>t DEF Start, AddCredit, vars, broker, object, consumer, history, Current, Engaged
<1>3. CASE Crash
  BY <1>3 DEF Crash, Current
<1>4. ASSUME NEW m \in Messages, Deliver(m) PROVE Current'
  <2> DEFINE d == <<m, delivered[m] + 1>>
  <2>1. /\ d \in Deliveries /\ Message(d) = m /\ d[2] = delivered[m] + 1
        /\ delivered' = [delivered EXCEPT ![m] = d[2]]
        /\ place' = [place EXCEPT ![m] = "taken"] /\ place[m] = "ready"
        /\ phase # "down" /\ ~closed /\ UNCHANGED <<sent, phase, receiver, closed, attempts>>
        /\ link' = [link EXCEPT ![d] = receiver]
        /\ \A e \in Deliveries \ {d} : stage'[e] = stage[e]
    BY <1>4, DeliverEffect
  <2> HIDE DEF d
  <2>2. SUFFICES ASSUME NEW e \in Deliveries, link'[e] = receiver', Engaged(e)'
                 PROVE  /\ place'[Message(e)] \in {"taken", "done"}
                        /\ delivered'[Message(e)] = e[2]
    BY <2>1 DEF Current
  <2>3. CASE e = d
    BY <1>t, <2>1, <2>3 DEF TypeOK
  <2>4. CASE e # d
    <3>1. Engaged(e) /\ link[e] = receiver
      BY <1>t, <2>1, <2>2, <2>4 DEF Engaged, TypeOK
    <3>2. Message(e) # m /\ delivered[Message(e)] = e[2]
          /\ place[Message(e)] \in {"taken", "done"}
      BY <1>t, <2>1, <3>1 DEF Current
    <3>3. QED
      BY <1>t, <1>d, <2>1, <3>2 DEF TypeOK
  <2>5. QED
    BY <2>3, <2>4
<1>5. ASSUME NEW d \in Deliveries, Settle(d) PROVE Current'
  <2>1. SUFFICES ASSUME NEW e \in Deliveries, phase # "down", ~closed,
                        link[e] = receiver, Engaged(e)
                 PROVE  /\ place'[Message(e)] \in {"taken", "done"}
                        /\ delivered[Message(e)] = e[2]
    BY <1>5, <1>t DEF Settle, Current, Engaged, object, consumer, history
  <2>2. place[Message(e)] \in {"taken", "done"} /\ delivered[Message(e)] = e[2]
    BY <1>t, <2>1 DEF Current
  <2>3. CASE Message(e) # Message(d)
    BY <1>5, <1>t, <1>d, <2>2, <2>3 DEF Settle, TypeOK
  <2>4. CASE Message(e) = Message(d)
    <3>1. e = d
      BY <1>5, <2>2, <2>4, DeliveryType DEF Settle, Owned
    <3>2. sent[d] = "done"
      BY <1>5, <1>t, <2>1, <3>1 DEF Settle, Promised, Engaged, Busy
    <3>3. QED
      BY <1>5, <1>t, <1>d, <2>2, <2>4, <3>2 DEF Settle, TypeOK
  <2>5. QED
    BY <2>3, <2>4
<1>6. ASSUME NEW d \in Deliveries, Callback(d) \/ Subscriber(d) PROVE Current'
  BY <1>6, <1>t, WorkEffect, WorkEngages DEF Current, Alone
<1>7. QED
  BY <1>1, <1>2, <1>3, <1>4, <1>5, <1>6 DEF Next

\* Engaged deliveries of one message stay on different links: only Deliver engages.
LEMMA SeparatedStep == IInv /\ [Next]_vars => Separated'
<1> SUFFICES ASSUME IInv, [Next]_vars PROVE Separated'
  OBVIOUS
<1>t. TypeOK /\ Current /\ Separated
  BY DEF IInv
<1>1. CASE /\ UNCHANGED link
           /\ \A e \in Deliveries : Engaged(e)' => Engaged(e)
  BY <1>1, <1>t DEF Separated
<1>2. CASE \/ Listen \/ Start \/ Reconnect \/ Detach \/ UNCHANGED vars
           \/ \E d \in Deliveries : Settle(d)
  BY <1>1, <1>2 DEF Listen, Start, Reconnect, Detach, Settle, vars, broker, consumer, history, Engaged
<1>3. CASE Crash
  <2>1. \A e \in Deliveries : Engaged(e)' => Engaged(e)
    BY <1>3 DEF Crash, Engaged, Busy, history
  <2>2. QED
    BY <1>1, <1>3, <2>1 DEF Crash
<1>4. ASSUME NEW m \in Messages, Deliver(m) PROVE Separated'
  <2> DEFINE d == <<m, delivered[m] + 1>>
  <2>1. /\ d \in Deliveries /\ Message(d) = m /\ place[m] = "ready"
        /\ phase # "down" /\ ~closed /\ UNCHANGED attempts
        /\ link' = [link EXCEPT ![d] = receiver]
        /\ \A e \in Deliveries \ {d} : stage'[e] = stage[e]
    BY <1>4, DeliverEffect
  <2> HIDE DEF d
  <2>2. \A e \in Deliveries \ {d} : link'[e] = link[e] /\ (Engaged(e)' <=> Engaged(e))
    BY <1>t, <2>1 DEF Engaged, TypeOK
  <2>3. \A e \in Deliveries \ {d} :
           Engaged(e) /\ Message(e) = m => link[e] # receiver
    BY <1>t, <2>1 DEF Current
  <2>4. link'[d] = receiver
    BY <1>t, <2>1 DEF TypeOK
  <2>5. QED
    BY <1>t, <2>1, <2>2, <2>3, <2>4 DEF Separated
<1>5. ASSUME NEW d \in Deliveries, Callback(d) \/ Subscriber(d) PROVE Separated'
  BY <1>1, <1>5, WorkEffect, WorkEngages DEF Alone
<1>6. QED
  BY <1>2, <1>3, <1>4, <1>5 DEF Next

\* The strengthened invariant holds throughout.
LEMMA Invariant == Spec => []IInv
<1>1. IInv /\ [Next]_vars => IInv'
  BY NextType, QueuedStep, NumberedStep, PromisedStep, CurrentStep, SeparatedStep DEF IInv
<1>2. QED
  BY InitInv, <1>1, PTL DEF Spec

-----------------------------------------------------------------------------
(* The theorems.                                                           *)

\* Every reachable state is well typed; in particular credits are never negative.
THEOREM TypeCorrect == Spec => []TypeOK
<1>1. IInv => TypeOK
  BY DEF IInv
<1>2. QED
  BY Invariant, <1>1, PTL

\* Whatever is lost, replaced, released or restarted, no message is in two onMessage
\* calls that came in on one link.
THEOREM SingleHandling == Spec => []NoDoubleHandling
<1>1. IInv => NoDoubleHandling
  BY DEF IInv, Separated, NoDoubleHandling, Engaged, Busy
<1>2. QED
  BY Invariant, <1>1, PTL

\* With eager acceptance each link hands each message to onMessage at most once.
THEOREM EagerOnce == ASSUME Eager PROVE Spec => []EagerOncePerLink
<1>1. IInv => EagerOncePerLink
  BY DEF IInv, TypeOK, Separated, EagerOncePerLink, Engaged
<1>2. QED
  BY Invariant, <1>1, PTL

-----------------------------------------------------------------------------
(* Credits.                                                                *)

\* What add_credit makes of the credits, if the receiver is not closed.
AfterCredit(n) == IF closed THEN credit ELSE credit + n

\* The ways a step of the process changes what the current receiver is owed.
Repays(d) == credit' = AfterCredit(1) /\ Owing' = Owing \ {d}
Defers(d) == credit' = credit /\ Owing \subseteq Owing' /\ Owing' \subseteq Owing \cup {d}

\* Whoever takes a delivery out of its debt gives the credit: no path through the
\* callback or the subscriber forgets it.
LEMMA WorkCredit ==
    ASSUME IInv, NEW d \in Deliveries, Callback(d) \/ Subscriber(d)
    PROVE  UNCHANGED <<phase, closed, forfeited>> /\ (Repays(d) \/ Defers(d))
<1>t. TypeOK /\ credit \in Nat
  BY DEF IInv, TypeOK
<1>a. UNCHANGED <<phase, closed, forfeited, opened, link>>
      /\ \A e \in Deliveries \ {d} : stage'[e] = stage[e]
  BY WorkEffect DEF Alone
<1> DEFINE Debt == {"buffered", "counting", "handling", "backoff"}
\* Only the delivery itself can enter or leave the debt.
<1>1. ASSUME credit' = AfterCredit(1), stage'[d] \notin Debt PROVE Repays(d)
  BY <1>a, <1>1 DEF Repays, Owing
<1>2. ASSUME credit' = credit, stage'[d] \in Debt \/ stage[d] \notin Debt \/ ~(link[d] >= opened)
      PROVE  Defers(d)
  BY <1>a, <1>2 DEF Defers, Owing
<1> USE DEF AddCredit, AfterCredit, broker, history
<1>3. CASE Unparsable(d) \/ CountFails(d)
  <2>1. credit' = AfterCredit(1) /\ stage'[d] = "ended"
    BY <1>3, <1>t, MoveEffect DEF Unparsable, CountFails, RejectUnprocessed, Stages
  <2>2. QED
    BY <1>1, <1>a, <2>1
<1>4. CASE FirstDelivery(d) \/ CountValid(d)
  <2>1. credit' = credit /\ stage'[d] = "handling"
    BY <1>4, <1>t, MoveEffect DEF FirstDelivery, CountValid, Dispatch, Stages
  <2>2. QED
    BY <1>2, <1>a, <2>1
<1>5. CASE Redelivery(d)
  <2>1. credit' = credit /\ stage'[d] = "counting"
    BY <1>5, <1>t, MoveEffect DEF Redelivery, Stages
  <2>2. QED
    BY <1>2, <1>a, <2>1
<1>6. CASE CountExceeded(d)
  <2>1. /\ credit' = AfterCredit(IF link[d] >= opened THEN 1 ELSE 0)
        /\ stage'[d] = "ended"
    BY <1>6, <1>t, MoveEffect DEF CountExceeded, Stages
  <2>2. CASE link[d] >= opened
    BY <1>1, <1>a, <2>1, <2>2
  <2>3. CASE ~(link[d] >= opened)
    BY <1>2, <1>a, <1>t, <2>1, <2>3
  <2>4. QED
    BY <2>2, <2>3
<1>7. CASE HandlerSucceeds(d)
  <2>1. credit' = AfterCredit(1) /\ stage'[d] \in {"ended", "replying"}
    BY <1>7, <1>t, MoveEffect DEF HandlerSucceeds, Stages
  <2>2. QED
    BY <1>1, <1>a, <2>1
<1>8. CASE HandlerFails(d)
  <2>1. credit' = credit /\ stage'[d] = "backoff"
    BY <1>8, <1>t, MoveEffect DEF HandlerFails, Stages
  <2>2. QED
    BY <1>2, <1>a, <2>1
<1>9. CASE BackoffEnds(d)
  <2>1. credit' = AfterCredit(1) /\ stage'[d] = "ended"
    BY <1>9, <1>t, MoveEffect DEF BackoffEnds, Stages
  <2>2. QED
    BY <1>1, <1>a, <2>1
<1>10. CASE ReplySent(d)
  <2>1. credit' = credit /\ stage[d] = "replying"
    BY <1>10 DEF ReplySent
  <2>2. QED
    BY <1>2, <1>a, <2>1
<1>11. QED
  BY <1>3, <1>4, <1>5, <1>6, <1>7, <1>8, <1>9, <1>10 DEF Callback, Subscriber

\* NoCreditLeak, for a debt that can be counted.
Solvent == IsFiniteSet(Owing) /\ NoCreditLeak

\* Every step keeps Solvent: a new receiver starts with the whole limit and no debt, one
\* attached again forfeits what it had, a delivery turns a credit into a debt, and WorkCredit turns it back.
LEMMA SolventStep == IInv /\ Solvent /\ [Next]_vars => Solvent'
<1> SUFFICES ASSUME IInv, Solvent, [Next]_vars PROVE Solvent'
  OBVIOUS
<1>t. TypeOK /\ Numbered /\ IsFiniteSet(Owing) /\ credit \in Nat /\ receiver \in Nat
      /\ forfeited \in Nat /\ opened \in Nat /\ opened <= receiver
  BY DEF IInv, TypeOK, Solvent, Numbered
<1>c. Cardinality(Owing) \in Nat
  BY <1>t, FS_CardinalityType
<1>l. ConcurrentLimit \in Nat
  BY LimitAssumption
<1>0. CASE OpenReceiver /\ UNCHANGED <<link, stage>>
  <2>1. Owing' = {}
    BY <1>t, <1>0 DEF OpenReceiver, Owing, Numbered, TypeOK
  <2>2. Cardinality(Owing') = 0 /\ IsFiniteSet(Owing')
    BY <2>1, FS_EmptySet
  <2>3. credit' = ConcurrentLimit /\ forfeited' = 0
    BY <1>0 DEF OpenReceiver
  <2>4. QED
    BY <1>l, <2>2, <2>3 DEF Solvent, NoCreditLeak
<1>1. CASE (Reconnect \/ Detach) /\ ~OpenReceiver
  <2>1. Owing' = Owing /\ phase' = phase
    BY <1>1 DEF Reconnect, Detach, Owing
  <2>2. closed' \/ (closed' = closed /\ credit' = 0 /\ forfeited' = forfeited + credit)
    BY <1>1 DEF Reconnect, Detach
  <2>3. QED
    BY <1>t, <1>c, <1>l, <2>1, <2>2 DEF Solvent, NoCreditLeak
<1>2. CASE Start
  <2>1. /\ Owing' = Owing /\ UNCHANGED <<closed, forfeited>>
        /\ closed \/ credit' = credit + ConcurrentLimit
    BY <1>2 DEF Start, AddCredit, Owing, object
  <2>2. QED
    BY <1>t, <1>c, <1>l, <2>1 DEF Solvent, NoCreditLeak
<1>3. CASE Crash
  <2>1. \A d \in Deliveries : stage'[d] \in {"none", "ended"}
    BY <1>3 DEF Crash
  <2>2. Owing' = {} /\ phase' = "down"
    BY <1>3, <2>1 DEF Crash, Owing
  <2>3. QED
    BY <2>2, FS_EmptySet DEF Solvent, NoCreditLeak
<1>4. ASSUME NEW m \in Messages, Deliver(m) PROVE Solvent'
  <2> DEFINE d == <<m, delivered[m] + 1>>
  <2>1. /\ d \in Deliveries /\ UNCHANGED <<phase, receiver, opened, closed, forfeited>>
        /\ ~closed
        /\ link' = [link EXCEPT ![d] = receiver]
        /\ \A e \in Deliveries \ {d} : stage'[e] = stage[e]
        /\ stage[d] = "none" /\ stage'[d] \in {"buffered", "dropped"}
    BY <1>4, DeliverEffect
  <2>2. credit' = credit - 1 /\ (phase = "listening" => stage'[d] = "buffered")
    BY <1>4, <1>t, <2>1, MoveEffect DEF Deliver, AddCredit, Stages
  <2> HIDE DEF d
  <2>3. d \notin Owing /\ link'[d] = receiver /\ \A e \in Deliveries \ {d} : link'[e] = link[e]
    BY <1>t, <2>1 DEF Owing, TypeOK
  <2>4. CASE stage'[d] = "buffered"
    <3>1. Owing' = Owing \cup {d}
      BY <1>t, <2>1, <2>3, <2>4 DEF Owing
    <3>2. IsFiniteSet(Owing') /\ Cardinality(Owing') = Cardinality(Owing) + 1
      BY <1>t, <2>3, <3>1, FS_AddElement
    <3>3. QED
      BY <1>t, <1>c, <1>l, <2>1, <2>2, <3>2 DEF Solvent, NoCreditLeak
  <2>5. CASE stage'[d] = "dropped"
    <3>1. Owing' = Owing
      BY <2>1, <2>3, <2>5 DEF Owing
    <3>2. QED
      BY <1>t, <2>1, <2>2, <2>5, <3>1 DEF Solvent, NoCreditLeak
  <2>6. QED
    BY <2>1, <2>4, <2>5
<1>5. ASSUME NEW d \in Deliveries, Callback(d) \/ Subscriber(d) PROVE Solvent'
  <2>1. UNCHANGED <<phase, closed, forfeited>> /\ (Repays(d) \/ Defers(d))
    BY <1>5, WorkCredit
  <2>2. CASE Repays(d)
    <3>1. IsFiniteSet(Owing') /\ Cardinality(Owing') >= Cardinality(Owing) - 1
      <4>1. /\ IsFiniteSet(Owing \ {d})
            /\ Cardinality(Owing \ {d}) =
                  IF d \in Owing THEN Cardinality(Owing) - 1 ELSE Cardinality(Owing)
        BY <1>t, FS_RemoveElement
      <4>2. Owing' = Owing \ {d}
        BY <2>2 DEF Repays
      <4>3. QED
        BY <1>c, <4>1, <4>2
    <3>2. Cardinality(Owing') \in Nat /\ (closed \/ credit' = credit + 1)
      BY <2>2, <3>1, FS_CardinalityType DEF Repays, AfterCredit
    <3>3. QED
      BY <1>t, <1>c, <1>l, <2>1, <3>1, <3>2 DEF Solvent, NoCreditLeak
  <2>3. CASE Defers(d)
    <3>1. IsFiniteSet(Owing')
      <4>1. IsFiniteSet(Owing \cup {d})
        BY <1>t, FS_AddElement
      <4>2. QED
        BY <2>3, <4>1, FS_Subset DEF Defers
    <3>2. Cardinality(Owing) <= Cardinality(Owing') /\ Cardinality(Owing') \in Nat
      BY <2>3, <3>1, FS_Subset, FS_CardinalityType DEF Defers
    <3>3. credit' = credit
      BY <2>3 DEF Defers
    <3>4. QED
      BY <1>t, <1>c, <1>l, <2>1, <3>1, <3>2, <3>3 DEF Solvent, NoCreditLeak
  <2>4. QED
    BY <2>1, <2>2, <2>3
<1>6. CASE UNCHANGED <<phase, opened, closed, forfeited, credit, link, stage>>
  BY <1>6 DEF Owing, Solvent, NoCreditLeak
<1>7. QED
  BY <1>0, <1>1, <1>2, <1>3, <1>4, <1>5, <1>6
     DEF Next, vars, object, consumer, Settle, Listen, Reconnect, Detach

\* However often messages are dropped, rejected, retried or detached with a receiver that
\* is replaced, the credits of a listening consumer, its debts and what the connection
\* took from a receiver that was attached again make up concurrentLimit.
THEOREM CreditsKept == Spec => []NoCreditLeak
<1>1. Init => Solvent
  <2>1. Init => Owing = {}
    BY DEF Init, Owing
  <2>2. QED
    BY <2>1, FS_EmptySet DEF Init, Solvent, NoCreditLeak
<1>2. Solvent => NoCreditLeak
  BY DEF Solvent
<1>3. QED
  BY <1>1, <1>2, Invariant, SolventStep, PTL DEF Spec

-----------------------------------------------------------------------------
(* AmqpConsumer implements BoundedRetry when subscribers accept after      *)
(* onMessage, producers set message ids and Redis does not fail.           *)

\* The mode in which the promise is made.
Reliable == Identified /\ ~Eager /\ ~RedisMayFail

\* The counter in Redis is the number of attempts, and never more than allowed.
Tallied ==
    \A m \in Messages :
        /\ IsFiniteSet(Attempts(m)) /\ count[m] = Cardinality(Attempts(m))
        /\ count[m] <= MaxAttempts

\* Only readable messages are counted and handled, and what is handled was tried.
Readable ==
    \A d \in Deliveries :
        /\ stage[d] \in {"counting", "handling"} => Message(d) \notin Unreadable
        /\ stage[d] = "handling" => d \in attempts

\* What a disposition says of a message is true, and stays true until it arrives.
Fates ==
    \A d \in Deliveries :
        /\ sent[d] = "dead" =>
              Message(d) \in Unreadable \/ count[Message(d)] = MaxAttempts
        /\ sent[d] = "done" => Message(d) \in handled

\* The concatMap passes the deliveries of a message on in the order they came.
InOrder ==
    /\ \A i, j \in 1..Len(buffer) :
          i < j /\ Message(buffer[i]) = Message(buffer[j]) => buffer[i][2] < buffer[j][2]
    /\ \A i \in 1..Len(buffer), d \in Deliveries :
          Message(d) = Message(buffer[i]) /\ (d \in attempts \/ stage[d] = "counting")
              => d[2] < buffer[i][2]

RInv == IInv /\ Tallied /\ Readable /\ Fates /\ InOrder

\* The retry limit is a positive number, so is the number of attempts.
LEMMA MaxAttemptsType == MaxAttempts \in Nat /\ MaxAttempts > 0
BY RedeliverAssumption DEF MaxAttempts

\* Before the first delivery no message was attempted.
LEMMA InitRetry == Init => RInv
<1> SUFFICES ASSUME Init PROVE RInv
  OBVIOUS
<1>1. IInv
  BY InitInv
<1>2. \A m \in Messages : Attempts(m) = {}
  BY DEF Init, Attempts
<1>3. Tallied
  <2>1. \A m \in Messages : IsFiniteSet(Attempts(m)) /\ Cardinality(Attempts(m)) = 0
    BY <1>2, FS_EmptySet
  <2>2. \A m \in Messages : count[m] = 0
    BY DEF Init
  <2>3. QED
    BY <2>1, <2>2, MaxAttemptsType DEF Tallied
<1>4. Readable /\ Fates
  BY DEF Init, Readable, Fates
<1>5. InOrder
  BY DEF Init, InOrder
<1>6. QED
  BY <1>1, <1>3, <1>4, <1>5 DEF RInv

\* A dispatch counts one attempt more of its message, and touches no other count.
LEMMA DispatchTally ==
    ASSUME RInv, Reliable, NEW d \in Deliveries, d \notin attempts, Dispatch(d),
           count[Message(d)] < MaxAttempts
    PROVE  /\ Tallied'
           /\ count'[Message(d)] = count[Message(d)] + 1
           /\ \A m \in Messages \ {Message(d)} : count'[m] = count[m]
<1> DEFINE k == Message(d)
<1>1. /\ TypeOK /\ Tallied /\ k \in Messages /\ count[k] \in Nat /\ MaxAttempts \in Nat
      /\ count \in [Messages \cup {NoId} -> Nat]
  BY DeliveryType, MaxAttemptsType DEF RInv, IInv, TypeOK
<1>2. count' = [count EXCEPT ![k] = @ + 1] /\ attempts' = attempts \cup {d}
  BY DEF Dispatch, Reliable, DeliveryKey
<1>3. count'[k] = count[k] + 1 /\ \A m \in Messages \ {k} : count'[m] = count[m]
  BY <1>1, <1>2
<1>4. /\ Attempts(k)' = Attempts(k) \cup {d} /\ d \notin Attempts(k)
      /\ \A m \in Messages \ {k} : Attempts(m)' = Attempts(m)
  BY <1>2 DEF Attempts
<1>5. IsFiniteSet(Attempts(k)') /\ Cardinality(Attempts(k)') = Cardinality(Attempts(k)) + 1
  BY <1>1, <1>4, FS_AddElement DEF Tallied
<1>6. MaxAttempts' = MaxAttempts
  BY DEF MaxAttempts
<1>7. ASSUME NEW m \in Messages
      PROVE  /\ IsFiniteSet(Attempts(m)') /\ count'[m] = Cardinality(Attempts(m)')
             /\ count'[m] <= MaxAttempts
  <2>1. CASE m = k
    BY <1>1, <1>3, <1>5, <2>1 DEF Tallied
  <2>2. CASE m # k
    BY <1>1, <1>3, <1>4, <2>2 DEF Tallied
  <2>3. QED
    BY <2>1, <2>2
<1>8. QED
  BY <1>3, <1>6, <1>7 DEF Tallied

\* The two ways into onMessage.
Try(d) == FirstDelivery(d) \/ CountValid(d)

\* Both leave room for the attempt.
LEMMA TryEffect ==
    ASSUME RInv, Reliable, NEW d \in Deliveries, Try(d)
    PROVE  /\ Dispatch(d) /\ d \notin attempts /\ Message(d) \notin Unreadable
           /\ sent[d] = "none" /\ stage[d] \in {"buffered", "counting"}
           /\ count[Message(d)] < MaxAttempts
           /\ UNCHANGED <<place, delivered, phase, receiver, credit, link, handled>>
<1>1. TypeOK /\ Promised /\ Message(d) \in Messages /\ count[Message(d)] \in Nat
  BY DeliveryType DEF RInv, IInv, TypeOK
<1>2. CASE FirstDelivery(d)
  <2>1. stage[d] = "buffered" /\ d = buffer[1] /\ 1 \in 1..Len(buffer) /\ d[2] = 1
    BY <1>1, <1>2, HeadBuffered, HeadType DEF RInv, FirstDelivery, FirstAcquirer
  <2>2. \A e \in Deliveries : e \in attempts /\ Message(e) = Message(d) => e[2] < 1
    BY <2>1 DEF RInv, InOrder
  <2>3. Attempts(Message(d)) = {}
    BY <1>1, <2>2, DeliveryType DEF Attempts, TypeOK
  <2>4. count[Message(d)] = 0
    BY <1>1, <2>3, FS_EmptySet DEF RInv, Tallied
  <2>5. QED
    BY <1>1, <1>2, <2>1, <2>4, MaxAttemptsType DEF FirstDelivery, Promised
<1>3. CASE CountValid(d)
  <2>1. count[Message(d)] < MaxAttempts
    BY <1>1, <1>3, RedeliverAssumption
       DEF CountValid, ValidCount, DeliveryKey, Reliable, MaxAttempts
  <2>2. QED
    BY <1>1, <1>3, <2>1 DEF CountValid, Promised, RInv, Readable
<1>4. QED
  BY <1>2, <1>3 DEF Try

Untried == UNCHANGED <<count, attempts>>

\* Only a way into onMessage changes the counter or the attempts.
LEMMA UntriedOrTry ==
    ASSUME RInv, [Next]_vars
    PROVE  Untried \/ \E d \in Deliveries : Try(d)
BY DEF Untried, Try, Next, vars, broker, consumer, history, Callback, Subscriber, Listen,
   Start, Reconnect, Detach, Crash, Deliver, Settle, Unparsable, Redelivery, CountExceeded, CountFails,
   HandlerSucceeds, HandlerFails, BackoffEnds, ReplySent

\* The tally is kept.
LEMMA TalliedStep == RInv /\ Reliable /\ [Next]_vars => Tallied'
<1>1. ASSUME RInv, Untried PROVE Tallied'
  BY <1>1 DEF RInv, Untried, Tallied, Attempts, MaxAttempts
<1>2. QED
  BY <1>1, UntriedOrTry, TryEffect, DispatchTally

\* A delivery gets into counting or handling only after its body was read.
LEMMA ReadableStep == RInv /\ Reliable /\ [Next]_vars => Readable'
<1> SUFFICES ASSUME RInv, Reliable, [Next]_vars PROVE Readable'
  OBVIOUS
<1>t. TypeOK /\ Readable
  BY DEF RInv, IInv
<1>1. CASE UNCHANGED <<stage, attempts>>
  BY <1>1, <1>t DEF Readable
<1>2. CASE Crash
  BY <1>2, <1>t DEF Crash, Readable, history
<1>3. ASSUME NEW m \in Messages, Deliver(m) PROVE Readable'
  <2> DEFINE d == <<m, delivered[m] + 1>>
  <2>1. /\ \A e \in Deliveries \ {d} : stage'[e] = stage[e]
        /\ stage'[d] \in {"buffered", "dropped"} /\ attempts' = attempts
    BY <1>3, DeliverEffect DEF RInv
  <2>2. QED
    BY <1>t, <2>1 DEF Readable
<1>4. ASSUME NEW d \in Deliveries, Callback(d) \/ Subscriber(d) PROVE Readable'
  <2>1. Alone(d) /\ MovesOn(d)
    BY <1>4, WorkEffect DEF RInv
  <2>2. stage'[d] = "handling" => d \in attempts'
    BY <2>1 DEF MovesOn, Counts, Dispatches, GivesUp, Finishes
  <2>3. stage'[d] \in {"counting", "handling"} => Message(d) \notin Unreadable
    <3>1. CASE stage[d] = "counting"
      BY <3>1, <1>t DEF Readable
    <3>2. CASE Redelivery(d) \/ FirstDelivery(d)
      BY <3>2 DEF Redelivery, FirstDelivery
    <3>3. CASE stage'[d] \notin {"counting", "handling"}
      BY <3>3
    <3>4. QED
      BY <1>4, <1>t, <3>1, <3>2, <3>3, MoveEffect
         DEF Callback, Subscriber, Unparsable, RejectUnprocessed, CountValid, CountExceeded,
             CountFails, HandlerSucceeds, HandlerFails, BackoffEnds, ReplySent, Stages
  <2>4. QED
    BY <1>t, <2>1, <2>2, <2>3 DEF Readable, Alone
<1>5. QED
  BY <1>1, <1>2, <1>3, <1>4
     DEF Next, vars, broker, consumer, history, Listen, Start, Reconnect, Detach, Settle

\* A disposition is sent when what it says has come true: rejected when unreadable or out
\* of attempts, accepted when onMessage has resolved.
LEMMA FatesStep == RInv /\ Reliable /\ [Next]_vars => Fates'
<1> SUFFICES ASSUME RInv, Reliable, [Next]_vars PROVE Fates'
  OBVIOUS
<1> USE DEF MaxAttempts
<1>t. TypeOK /\ Fates /\ \A d \in Deliveries : Message(d) \in Messages
  BY DeliveryType DEF RInv, IInv
<1>1. CASE UNCHANGED <<sent, count, handled>>
  BY <1>1, <1>t DEF Fates
<1>2. ASSUME NEW d \in Deliveries, Try(d) PROVE Fates'
  <2>1. /\ sent' = sent /\ handled' = handled /\ count[Message(d)] < MaxAttempts
        /\ \A m \in Messages \ {Message(d)} : count'[m] = count[m]
    BY <1>2, TryEffect, DispatchTally DEF Dispatch, Reliable
  <2>2. ASSUME NEW e \in Deliveries, sent[e] = "dead"
        PROVE  Message(e) \in Unreadable \/ count'[Message(e)] = MaxAttempts
    <3>1. Message(e) \in Unreadable \/ count[Message(e)] = MaxAttempts
      BY <1>t, <2>2 DEF Fates
    <3>2. CASE Message(e) = Message(d)
      BY <1>t, <2>1, <3>1, <3>2, RedeliverAssumption DEF TypeOK
    <3>3. QED
      BY <1>t, <2>1, <3>1, <3>2
  <2>3. QED
    BY <1>t, <2>1, <2>2 DEF Fates
<1>3. ASSUME NEW d \in Deliveries, NEW p \in Dispositions, Send(d, p),
             count' = count, handled \subseteq handled',
             p = "dead" => Message(d) \in Unreadable \/ count[Message(d)] = MaxAttempts,
             p = "done" => Message(d) \in handled'
      PROVE  Fates'
  BY <1>3, <1>t, SendEffect DEF Fates
<1>4. ASSUME NEW d \in Deliveries, Unparsable(d) PROVE Fates'
  BY <1>3, <1>4 DEF Unparsable, RejectUnprocessed, Dispositions, history
<1>5. ASSUME NEW d \in Deliveries, CountExceeded(d) PROVE Fates'
  <2>1. count[Message(d)] = MaxAttempts
    BY <1>5, <1>t, RedeliverAssumption
       DEF CountExceeded, ValidCount, DeliveryKey, Reliable, RInv, Tallied, TypeOK
  <2>2. QED
    BY <1>3, <1>5, <2>1 DEF CountExceeded, Dispositions, history
<1>6. ASSUME NEW d \in Deliveries, HandlerSucceeds(d) PROVE Fates'
  BY <1>3, <1>6 DEF HandlerSucceeds, Reliable, Dispositions
<1>7. ASSUME NEW d \in Deliveries, BackoffEnds(d) PROVE Fates'
  BY <1>3, <1>7 DEF BackoffEnds, Dispositions, history
<1>8. QED
  BY <1>1, <1>2, <1>4, <1>5, <1>6, <1>7
     DEF Next, Callback, Subscriber, Try, vars, broker, consumer, history, Listen, Start,
         Reconnect, Detach, Crash, Deliver, Settle, Redelivery, CountFails, Reliable, HandlerFails,
         ReplySent

\* The queue keeps the order in which the broker delivered.
LEMMA InOrderStep == RInv /\ Reliable /\ [Next]_vars => InOrder'
<1> SUFFICES ASSUME RInv, Reliable, [Next]_vars PROVE InOrder'
  OBVIOUS
<1>t. /\ TypeOK /\ Queued /\ Numbered /\ InOrder
      /\ buffer \in Seq(Deliveries) /\ Len(buffer) \in Nat
      /\ \A i \in 1..Len(buffer) : buffer[i] \in Deliveries
  BY LenProperties, ElementOfSeq DEF RInv, IInv, TypeOK
<1>d. \A d \in Deliveries : Message(d) \in Messages /\ d[2] \in Nat
  BY DeliveryType
<1>1. ASSUME buffer' = buffer, attempts' = attempts,
             \A e \in Deliveries : stage'[e] = "counting" => stage[e] = "counting"
      PROVE  InOrder'
  BY <1>1, <1>t DEF InOrder
<1>2. CASE Crash
  BY <1>2 DEF Crash, InOrder
<1>3. ASSUME NEW m \in Messages, Deliver(m) PROVE InOrder'
  <2> DEFINE d == <<m, delivered[m] + 1>>
  <2>1. /\ d \in Deliveries /\ Message(d) = m /\ d[2] = delivered[m] + 1
        /\ attempts' = attempts
        /\ \A e \in Deliveries : stage'[e] = "counting" => stage[e] = "counting"
        /\ buffer' = Append(buffer, d) \/ buffer' = buffer
    BY <1>3, DeliverEffect DEF RInv
  <2>2. \A e \in Deliveries : Message(e) = m /\ (stage[e] # "none" \/ e \in attempts)
                                => e[2] < d[2]
    BY <1>t, <1>d, <2>1 DEF Numbered, TypeOK
  <2> HIDE DEF d
  <2>3. CASE buffer' = Append(buffer, d)
    <3>1. /\ Len(buffer') = Len(buffer) + 1 /\ buffer'[Len(buffer) + 1] = d
          /\ \A i \in 1..Len(buffer) : buffer'[i] = buffer[i]
      BY <1>t, <2>1, <2>3, AppendProperties
    <3>2. \A i \in 1..Len(buffer) : Message(buffer[i]) = m => buffer[i][2] < d[2]
      BY <1>t, <2>2 DEF Queued
    <3>3. ASSUME NEW i \in 1..Len(buffer'), NEW j \in 1..Len(buffer'), i < j,
                 Message(buffer'[i]) = Message(buffer'[j])
          PROVE  buffer'[i][2] < buffer'[j][2]
      BY <1>t, <2>1, <3>1, <3>2, <3>3 DEF InOrder
    <3>4. ASSUME NEW i \in 1..Len(buffer'), NEW e \in Deliveries,
                 Message(e) = Message(buffer'[i]), e \in attempts \/ stage[e] = "counting"
          PROVE  e[2] < buffer'[i][2]
      BY <1>t, <2>1, <2>2, <3>1, <3>4 DEF InOrder
    <3>5. QED
      BY <2>1, <3>3, <3>4 DEF InOrder
  <2>4. QED
    BY <1>1, <2>1, <2>3
<1>4. ASSUME NEW d \in Deliveries, Callback(d) \/ Subscriber(d) PROVE InOrder'
  <2>1. Alone(d) /\ MovesOn(d) /\ Dequeues(d)
    BY <1>4, WorkEffect DEF RInv
  <2>2. CASE buffer' = buffer /\ stage[d] # "buffered"
    <3>1. \A e \in Deliveries : e \in attempts' \/ stage'[e] = "counting"
                                  => e \in attempts \/ stage[e] = "counting"
      BY <2>1, <2>2 DEF Alone, MovesOn, Counts, Dispatches, GivesUp, Finishes
    <3>2. QED
      BY <1>t, <2>2, <3>1 DEF InOrder
  <2>3. CASE /\ buffer' = Tail(buffer) /\ d = buffer[1] /\ Len(buffer) \in Nat \ {0}
             /\ Len(Tail(buffer)) = Len(buffer) - 1
             /\ \A i \in 1..Len(Tail(buffer)) : Tail(buffer)[i] = buffer[i + 1]
    <3>1. \A i \in 1..Len(buffer') : i + 1 \in 1..Len(buffer) /\ buffer'[i] = buffer[i + 1]
      BY <2>3
    <3>2. \A i \in 1..Len(buffer') : Message(buffer'[i]) = Message(d) => d[2] < buffer'[i][2]
      <4>1. ASSUME NEW i \in 1..Len(buffer'), Message(buffer'[i]) = Message(d)
            PROVE  d[2] < buffer'[i][2]
        <5>1. 1 \in 1..Len(buffer) /\ i + 1 \in 1..Len(buffer) /\ 1 < i + 1
          BY <2>3, <3>1
        <5>2. QED
          BY <1>t, <2>3, <3>1, <4>1, <5>1 DEF InOrder
      <4>2. QED
        BY <4>1
    <3>3. \A i, j \in 1..Len(buffer') :
             i < j /\ Message(buffer'[i]) = Message(buffer'[j])
               => buffer'[i][2] < buffer'[j][2]
      BY <1>t, <3>1 DEF InOrder
    <3>4. ASSUME NEW i \in 1..Len(buffer'), NEW e \in Deliveries,
                 Message(e) = Message(buffer'[i]), e \in attempts' \/ stage'[e] = "counting"
          PROVE  e[2] < buffer'[i][2]
      <4>1. CASE e = d
        BY <3>2, <3>4, <4>1
      <4>2. CASE e # d
        <5>1. i + 1 \in 1..Len(buffer) /\ buffer'[i] = buffer[i + 1]
          BY <3>1
        <5>2. e \in attempts \/ stage[e] = "counting"
          BY <2>1, <3>4, <4>2 DEF Alone
        <5>3. QED
          BY <1>t, <3>4, <5>1, <5>2 DEF InOrder
      <4>3. QED
        BY <4>1, <4>2
    <3>5. QED
      BY <3>3, <3>4 DEF InOrder
  <2>4. QED
    BY <2>1, <2>2, <2>3 DEF Dequeues
<1>5. QED
  BY <1>1, <1>2, <1>3, <1>4
     DEF Next, vars, consumer, history, Listen, Start, Reconnect, Detach, Settle

\* The invariant behind the promise holds throughout.
LEMMA RetryInvariant == ASSUME Reliable PROVE Spec => []RInv
<1>1. RInv /\ [Next]_vars => RInv'
  BY NextType, QueuedStep, NumberedStep, PromisedStep, CurrentStep, SeparatedStep,
     TalliedStep, ReadableStep, FatesStep, InOrderStep DEF RInv, IInv
<1>2. QED
  BY InitRetry, <1>1, PTL DEF Spec

-----------------------------------------------------------------------------
(* The refinement: each step of the consumer is a step of BoundedRetry.    *)

Tries == [m \in Messages |-> Cardinality(Attempts(m))]

\* The promise's bound and its count of tries, in terms of the counter in Redis.
LEMMA TriesAreCounted ==
    ASSUME RInv
    PROVE  \A m \in Messages : Tries[m] = count[m] /\ count[m] \in Nat
BY DEF RInv, IInv, TypeOK, Tallied, Tries

\* No attempts, no tries.
LEMMA InitImplements == Init => Retry!Init
<1> SUFFICES ASSUME Init PROVE Retry!Init
  OBVIOUS
<1>1. \A m \in Messages : Cardinality(Attempts(m)) = 0
  BY FS_EmptySet DEF Init, Attempts
<1>2. QED
  BY <1>1 DEF Init, Retry!Init

\* A step that touches neither message places nor attempts is a stutter.
LEMMA Stutters ==
    ASSUME UNCHANGED <<place, handled, attempts>>
    PROVE  UNCHANGED Retry!vars
<1>1. Tries' = Tries
  BY DEF Tries, Attempts
<1>2. QED
  BY <1>1 DEF Retry!vars, Tries

\* A lost link or process gives its messages back.
LEMMA RequeueImplements ==
    ASSUME TypeOK, place' = Requeue, UNCHANGED <<handled, attempts>>
    PROVE  Retry!Next
<1> DEFINE S == {m \in Messages : place[m] = "taken"}
<1>1. Tries' = Tries
  BY DEF Tries, Attempts
<1>2. Retry!GiveBack(S)
  BY <1>1 DEF Retry!GiveBack, Requeue, Tries, TypeOK
<1>3. QED
  BY <1>2 DEF Retry!Next

\* A settled disposition finishes, buries or gives back its message.
LEMMA SettleImplements ==
    ASSUME RInv, Reliable, NEW d \in Deliveries, Settle(d)
    PROVE  Retry!Next
<1> DEFINE m == Message(d)
<1>1. /\ m \in Messages /\ place[m] = "taken" /\ place' = [place EXCEPT ![m] = sent[d]]
      /\ sent[d] \in {"done", "ready", "dead"} /\ UNCHANGED <<handled, attempts>>
      /\ place \in [Messages -> Places]
  BY DeliveryType DEF Settle, Owned, RInv, IInv, TypeOK, Dispositions, history
<1>2. Tries' = Tries
  BY <1>1 DEF Tries, Attempts
<1>3. CASE sent[d] = "done"
  <2>1. m \in handled
    BY <1>3 DEF RInv, Fates
  <2>2. Retry!Finish(m)
    BY <1>1, <1>2, <1>3, <2>1 DEF Retry!Finish, Tries
  <2>3. QED
    BY <1>1, <2>2 DEF Retry!Next
<1>4. CASE sent[d] = "dead"
  <2>1. m \in Unreadable \/ Tries[m] = MaxAttempts
    BY <1>1, <1>4, TriesAreCounted DEF RInv, Fates
  <2>2. Retry!Bury(m)
    BY <1>1, <1>2, <1>4, <2>1 DEF Retry!Bury, Tries
  <2>3. QED
    BY <1>1, <2>2 DEF Retry!Next
<1>5. CASE sent[d] = "ready"
  <2>1. Retry!GiveBack({m})
    BY <1>1, <1>2, <1>5 DEF Retry!GiveBack, Tries
  <2>2. QED
    BY <1>1, <2>1 DEF Retry!Next
<1>6. QED
  BY <1>1, <1>3, <1>4, <1>5

\* A dispatch tries its message.
LEMMA TryImplements ==
    ASSUME RInv, Reliable, NEW d \in Deliveries, Try(d)
    PROVE  Retry!Next
<1> DEFINE m == Message(d)
<1>1. /\ m \in Messages /\ m \notin Unreadable /\ count[m] < MaxAttempts
      /\ UNCHANGED <<place, handled>>
      /\ Tallied' /\ count'[m] = count[m] + 1
      /\ \A k \in Messages \ {m} : count'[k] = count[k]
  BY TryEffect, DispatchTally, DeliveryType
<1>2. \A k \in Messages : Tries[k] = count[k] /\ Tries'[k] = count'[k]
  BY <1>1, TriesAreCounted DEF Tallied, Tries
<1>3. Tries' = [Tries EXCEPT ![m] = @ + 1]
  BY <1>1, <1>2 DEF Tries
<1>4. Retry!Try(m)
  BY <1>1, <1>2, <1>3 DEF Retry!Try, Tries
<1>5. QED
  BY <1>1, <1>4 DEF Retry!Next

\* An onMessage call that resolves is a try that succeeds.
LEMMA SuccessImplements ==
    ASSUME RInv, NEW d \in Deliveries, HandlerSucceeds(d)
    PROVE  Retry!Next
<1> DEFINE m == Message(d)
<1>1. /\ m \in Messages /\ d \in Attempts(m) /\ IsFiniteSet(Attempts(m))
      /\ UNCHANGED <<place, attempts>> /\ handled' = handled \cup {m}
  BY DeliveryType DEF HandlerSucceeds, RInv, Readable, Tallied, Attempts
<1>2. Tries' = Tries
  BY <1>1 DEF Tries, Attempts
<1>3. Tries[m] > 0
  <2>1. Cardinality(Attempts(m)) # 0
    BY <1>1, FS_EmptySet
  <2>2. QED
    BY <1>1, <2>1, TriesAreCounted DEF Tries
<1>4. Retry!Succeed(m)
  BY <1>1, <1>2, <1>3 DEF Retry!Succeed, Tries
<1>5. QED
  BY <1>1, <1>4 DEF Retry!Next

\* Every step of the consumer is a step of the promise or a stutter.
LEMMA NextImplements ==
    ASSUME RInv, Reliable, [Next]_vars
    PROVE  [Retry!Next]_(Retry!vars)
<1>t. TypeOK
  BY DEF RInv, IInv
<1>1. CASE UNCHANGED <<place, handled, attempts>>
  BY <1>1, Stutters
<1>2. CASE Reconnect \/ Detach \/ Crash
  BY <1>2, <1>t, RequeueImplements DEF Reconnect, Detach, Crash, history
<1>3. ASSUME NEW m \in Messages, Deliver(m) PROVE Retry!Next
  <2>1. Tries' = Tries
    BY <1>3 DEF Deliver, history, Tries, Attempts
  <2>2. Retry!Take(m)
    BY <1>3, <2>1 DEF Deliver, history, Retry!Take, Tries
  <2>3. QED
    BY <2>2 DEF Retry!Next
<1>4. QED
  BY <1>1, <1>2, <1>3, SettleImplements, TryImplements, SuccessImplements
     DEF Next, vars, broker, consumer, history, Callback, Subscriber, Try, Listen, Start,
         Unparsable, Redelivery, CountExceeded, CountFails, HandlerFails, BackoffEnds,
         ReplySent

\* With acceptance after onMessage, message ids and a Redis that does not fail, the
\* consumer implements BoundedRetry: at-least-once handling and a bounded number of tries.
THEOREM RetryImplemented == ASSUME Reliable PROVE Spec => ImplementsBoundedRetry
BY RetryInvariant, InitImplements, NextImplements, PTL
   DEF Spec, ImplementsBoundedRetry, Retry!Spec
=============================================================================
