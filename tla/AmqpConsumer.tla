---------------------------- MODULE AmqpConsumer ----------------------------
(***************************************************************************)
(* The AMQP consumer: AmqpService.receiveMessage and its callers           *)
(* (AbstractMessaging.listen, RabbitMQService.onModuleInit) with the       *)
(* delivery counter in Redis.  The broker and the rhea client are external. *)
(*                                                                         *)
(* A receiver grants the broker credits, the broker delivers at most that  *)
(* many messages; deliveries queue in a concatMap, where the delivery count *)
(* of a redelivered message is checked one at a time, and are then handled *)
(* concurrently.  accept, release and reject send a disposition, which      *)
(* reaches the broker later, or never when the link is lost first.          *)
(***************************************************************************)
EXTENDS Integers, Sequences, FiniteSets

CONSTANTS
    Messages,
    Unreadable,        \* messages whose body or annotations the callback cannot parse
    NoId,              \* the counter key of a message without a message_id
    Identified,        \* TRUE: producers set message_id; sendMessage does not
    Eager,             \* eagerAcceptMessage
    ConcurrentLimit,   \* options.concurrentLimit
    MaxRedeliverCount, \* options.maxRedeliverCount
    RedisMayFail,      \* TRUE: a Redis command of the delivery counter may fail
    MaxDeliveries,     \* bound: deliveries of one message
    MaxReceivers       \* bound: links attached, over crashes, detaches and losses

ASSUME MessagesAssumption  == Unreadable \subseteq Messages /\ NoId \notin Messages
ASSUME LimitAssumption     == ConcurrentLimit \in Nat \ {0}
ASSUME RedeliverAssumption == MaxRedeliverCount \in Nat \ {0}
ASSUME FlagsAssumption     == {Identified, Eager, RedisMayFail} \subseteq BOOLEAN
ASSUME BoundsAssumption    == MaxDeliveries \in Nat /\ MaxReceivers \in Nat

\* The n-th time the broker delivers m.
Deliveries == Messages \X (1..MaxDeliveries)
Message(d) == d[1]

VARIABLES
    place,      \* broker: where each message is
    delivered,  \* broker: how often each message has been delivered
    sent,       \* the first disposition sent for each delivery
    count,      \* Redis: dlvr-count-<message id>
    phase,      \* the consumer process: "down", "starting", "listening"
    receiver,   \* the current receiver's link, a number: one for each time it is
                \* attached; 0 before the first
    opened,     \* the number of the link that open_receiver attached for it
    closed,     \* it is closed, and createReceiver has not replaced it
    credit,     \* credits the broker holds on the current link
    link,       \* the link that each delivery came in on
    buffer,     \* deliveries waiting in the concatMap
    stage,      \* what each delivery is doing
    forfeited,  \* history: credits the current receiver lost with its connections
    attempts,   \* history: deliveries whose message was handed to onMessage
    handled     \* history: messages some onMessage call resolved for

broker   == <<place, delivered, sent>>
object   == <<opened, closed, forfeited>>
consumer == <<phase, receiver, object, credit, link, buffer, stage>>
history  == <<attempts, handled>>
vars     == <<broker, count, consumer, history>>

Places       == {"ready", "taken", "done", "dead"}
Dispositions == {"none", "done", "ready", "dead"}
Stages       == {"none", "dropped", "buffered", "counting", "handling", "replying",
                 "backoff", "ended"}

Init ==
    /\ place = [m \in Messages |-> "ready"]
    /\ delivered = [m \in Messages |-> 0]
    /\ sent = [d \in Deliveries |-> "none"]
    /\ count = [k \in Messages \cup {NoId} |-> 0]
    /\ phase = "down"
    /\ receiver = 0 /\ opened = 0
    /\ closed = FALSE
    /\ credit = 0 /\ forfeited = 0
    /\ link = [d \in Deliveries |-> 0]
    /\ buffer = <<>>
    /\ stage = [d \in Deliveries |-> "none"]
    /\ attempts = {}
    /\ handled = {}

\* The broker still waits for the disposition of d.
Owned(d) == place[Message(d)] = "taken" /\ delivered[Message(d)] = d[2]

\* accept, release or reject: the first disposition of a delivery is the one that counts.
Send(d, p) == sent' = [sent EXCEPT ![d] = IF @ = "none" THEN p ELSE @]

Move(d, s)   == stage' = [stage EXCEPT ![d] = s]

\* add_credit on the current receiver: the broker never hears of it once it is closed.
AddCredit(n) == credit' = IF closed THEN credit ELSE credit + n

DeliveryKey(m) == IF Identified THEN m ELSE NoId

\* Mutant: the increment of this very delivery is discounted too.
ValidCount_OneMore(m) ==
    LET current == count[DeliveryKey(m)]
    IN  current = 0 \/ current - 2 <= MaxRedeliverCount

\* isValidDeliveryCount
ValidCount(m) ==
    LET current == count[DeliveryKey(m)]
    IN  current = 0 \/ current - 1 <= MaxRedeliverCount

\* msg.first_acquirer
FirstAcquirer(d) == d[2] = 1

-----------------------------------------------------------------------------
(* Receivers.                                                              *)

Requeue == [m \in Messages |-> IF place[m] = "taken" THEN "ready" ELSE place[m]]

\* createReceiver when there is no receiver, or a closed one: open_receiver, add_credit.
OpenReceiver ==
    /\ receiver' = receiver + 1 /\ opened' = receiver + 1
    /\ closed' = FALSE
    /\ credit' = ConcurrentLimit /\ forfeited' = 0

\* createReceiver, for the first time in this process: nobody listens to it yet.
Listen ==
    /\ phase = "down" /\ receiver < MaxReceivers          \* bound
    /\ phase' = "starting"
    /\ OpenReceiver
    /\ UNCHANGED <<broker, count, link, buffer, stage, history>>

\* receiverOpen has come: the caller subscribes to the messages and calls start().
Start ==
    /\ phase = "starting"
    /\ phase' = "listening"
    /\ AddCredit(ConcurrentLimit)
    /\ UNCHANGED <<broker, count, receiver, object, link, buffer, stage, history>>

\* The connection is lost and comes back: createReceiver replaces a closed receiver, and
\* finds any other open, for rhea attaches it again; credit_window is 0, so the new link
\* has no credits but those added from now on.
Reconnect ==
    /\ phase # "down" /\ receiver < MaxReceivers          \* bound
    /\ place' = Requeue
    /\ \/ closed /\ OpenReceiver
       \/ /\ ~closed
          /\ receiver' = receiver + 1
          /\ credit' = 0 /\ forfeited' = forfeited + credit
          /\ UNCHANGED <<opened, closed>>
    /\ UNCHANGED <<delivered, sent, count, phase, link, buffer, stage, history>>

\* The broker detaches the link: at receiverClose createReceiver replaces the receiver if
\* is_closed() is true already; rhea may close its own end later, and then nobody looks
\* again before the next connection opens.  Deliveries stay where they are.
Detach ==
    /\ phase # "down" /\ ~closed /\ receiver < MaxReceivers \* bound
    /\ place' = Requeue
    /\ \/ OpenReceiver
       \/ /\ closed' = TRUE
          /\ credit' = 0
          /\ UNCHANGED <<receiver, opened, forfeited>>
    /\ UNCHANGED <<delivered, sent, count, phase, link, buffer, stage, history>>

\* The process dies and all it holds with it.
Crash ==
    /\ phase # "down" /\ receiver < MaxReceivers          \* bound
    /\ phase' = "down"
    /\ closed' = FALSE
    /\ credit' = 0 /\ forfeited' = 0
    /\ place' = Requeue
    /\ buffer' = <<>>
    /\ stage' = [d \in Deliveries |-> IF stage[d] = "none" THEN "none" ELSE "ended"]
    /\ UNCHANGED <<delivered, sent, count, receiver, opened, link, history>>

-----------------------------------------------------------------------------
(* The broker.                                                             *)

\* A message event; without a subscriber nobody ever settles the delivery.
Deliver(m) ==
    /\ phase # "down" /\ credit > 0
    /\ place[m] = "ready" /\ delivered[m] < MaxDeliveries \* bound
    /\ LET d == <<m, delivered[m] + 1>>
       IN  /\ link' = [link EXCEPT ![d] = receiver]
           /\ IF phase = "listening"
              THEN Move(d, "buffered") /\ buffer' = Append(buffer, d)
              ELSE Move(d, "dropped") /\ UNCHANGED buffer
    /\ place' = [place EXCEPT ![m] = "taken"]
    /\ delivered' = [delivered EXCEPT ![m] = @ + 1]
    /\ AddCredit(-1)
    /\ UNCHANGED <<sent, count, phase, receiver, object, history>>

Settle(d) ==
    /\ Owned(d) /\ sent[d] # "none"
    /\ place' = [place EXCEPT ![Message(d)] = sent[d]]
    /\ UNCHANGED <<delivered, sent, count, consumer, history>>

-----------------------------------------------------------------------------
(* The concatMap callback.                                                 *)

\* concatMap starts on the next delivery when the one before has left it.
HeadOfBuffer(d) ==
    /\ phase = "listening"
    /\ buffer # <<>> /\ d = Head(buffer)
    /\ \A e \in Deliveries : stage[e] # "counting"

\* Mutants: the delivery is released as it is handed over; eager acceptance is forgotten.
Dispatch_Released(d) ==
    /\ count' = [count EXCEPT ![DeliveryKey(Message(d))] = @ + 1]
    /\ Send(d, "ready")
    /\ Move(d, "handling")
    /\ attempts' = attempts \cup {d}
Dispatch_NotEager(d) ==
    /\ count' = [count EXCEPT ![DeliveryKey(Message(d))] = @ + 1]
    /\ UNCHANGED sent
    /\ Move(d, "handling")
    /\ attempts' = attempts \cup {d}

\* increaseDeliveryCount, not awaited, and the event goes to the subscriber; eager
\* callers accept at once, then onMessage starts.
Dispatch(d) ==
    /\ LET k == DeliveryKey(Message(d))
       IN  \/ count' = [count EXCEPT ![k] = @ + 1]
           \/ RedisMayFail /\ UNCHANGED count
    /\ IF Eager THEN Send(d, "done") ELSE UNCHANGED sent
    /\ Move(d, "handling")
    /\ attempts' = attempts \cup {d}

\* Mutant: the catch gives no credit back.
RejectUnprocessed_NoCredit(d) ==
    /\ Send(d, "dead")
    /\ UNCHANGED credit
    /\ Move(d, "ended")

\* The callback's catch: reject, and a credit for the current receiver.
RejectUnprocessed(d) ==
    /\ Send(d, "dead")
    /\ AddCredit(1)
    /\ Move(d, "ended")

Unparsable(d) ==
    /\ HeadOfBuffer(d) /\ Message(d) \in Unreadable
    /\ RejectUnprocessed(d)
    /\ buffer' = Tail(buffer)
    /\ UNCHANGED <<place, delivered, count, phase, receiver, object, link, history>>

FirstDelivery(d) ==
    /\ HeadOfBuffer(d) /\ Message(d) \notin Unreadable /\ FirstAcquirer(d)
    /\ Dispatch(d)
    /\ buffer' = Tail(buffer)
    /\ UNCHANGED <<place, delivered, phase, receiver, object, credit, link, handled>>

\* A redelivered message: the GET of its delivery count goes out.
Redelivery(d) ==
    /\ HeadOfBuffer(d) /\ Message(d) \notin Unreadable /\ ~FirstAcquirer(d)
    /\ Move(d, "counting")
    /\ buffer' = Tail(buffer)
    /\ UNCHANGED <<broker, count, phase, receiver, object, credit, link, history>>

CountValid(d) ==
    /\ stage[d] = "counting" /\ ValidCount(Message(d))
    /\ Dispatch(d)
    /\ UNCHANGED <<place, delivered, phase, receiver, object, credit, link, buffer, handled>>

\* rejectDLQ gives the credit back on the receiver the delivery came in on, attached
\* again since or not.
CountExceeded(d) ==
    /\ stage[d] = "counting" /\ ~ValidCount(Message(d))
    /\ Send(d, "dead")
    /\ AddCredit(IF link[d] >= opened THEN 1 ELSE 0)
    /\ Move(d, "ended")
    /\ UNCHANGED <<place, delivered, count, phase, receiver, object, link, buffer, history>>

CountFails(d) ==
    /\ RedisMayFail /\ stage[d] = "counting"
    /\ RejectUnprocessed(d)
    /\ UNCHANGED <<place, delivered, count, phase, receiver, object, link, buffer, history>>

-----------------------------------------------------------------------------
(* The subscriber: AbstractMessaging.listen and RabbitMQService.           *)

\* onMessage resolves: accept (unless accepted already), addCredit, and reply if there
\* is something to reply with.
HandlerSucceeds(d) ==
    /\ stage[d] = "handling"
    /\ IF Eager THEN UNCHANGED sent ELSE Send(d, "done")
    /\ AddCredit(1)
    /\ \E next \in {"ended", "replying"} : Move(d, next)
    /\ handled' = handled \cup {Message(d)}
    /\ UNCHANGED <<place, delivered, count, phase, receiver, object, link, buffer, attempts>>

\* onMessage or reply throws: release, which only starts a timer.
HandlerFails(d) ==
    /\ stage[d] \in {"handling", "replying"}
    /\ Move(d, "backoff")
    /\ UNCHANGED <<broker, count, phase, receiver, object, credit, link, buffer, history>>

\* Mutant: the timer releases the message and gives no credit back.
BackoffEnds_NoCredit(d) ==
    /\ stage[d] = "backoff"
    /\ Send(d, "ready")
    /\ Move(d, "ended")
    /\ UNCHANGED <<place, delivered, count, phase, receiver, object, credit, link, buffer, history>>

\* The timer of release: the message goes back, one credit for the current receiver.
BackoffEnds(d) ==
    /\ stage[d] = "backoff"
    /\ Send(d, "ready")
    /\ AddCredit(1)
    /\ Move(d, "ended")
    /\ UNCHANGED <<place, delivered, count, phase, receiver, object, link, buffer, history>>

ReplySent(d) ==
    /\ stage[d] = "replying"
    /\ Move(d, "ended")
    /\ UNCHANGED <<broker, count, phase, receiver, object, credit, link, buffer, history>>

Callback(d) ==
    Unparsable(d) \/ FirstDelivery(d) \/ Redelivery(d) \/ CountValid(d) \/ CountExceeded(d)
    \/ CountFails(d)
Subscriber(d) == HandlerSucceeds(d) \/ HandlerFails(d) \/ BackoffEnds(d) \/ ReplySent(d)

Next ==
    \/ Listen \/ Start \/ Reconnect \/ Detach \/ Crash
    \/ \E m \in Messages : Deliver(m)
    \/ \E d \in Deliveries : Settle(d) \/ Callback(d) \/ Subscriber(d)

Spec == Init /\ [][Next]_vars

\* The broker delivers and settles, the process is restarted, timers fire, onMessage's
\* promise settles one way or the other; nothing has to fail.
Fairness ==
    /\ WF_vars(Listen) /\ WF_vars(Start)
    /\ \A m \in Messages : WF_vars(Deliver(m))
    /\ \A d \in Deliveries :
         WF_vars(Settle(d)) /\ WF_vars(Callback(d)) /\ WF_vars(Subscriber(d))
FairSpec == Spec /\ Fairness

-----------------------------------------------------------------------------
Attempts(m) == {d \in attempts : Message(d) = m}

\* onMessage runs at most this often for a message: the count a redelivery is checked
\* against includes the attempts made, and one too many passes (current - 1 <= max).
MaxAttempts == MaxRedeliverCount + 2

\* Deliveries of the current receiver that still owe it a credit.
Owing == {d \in Deliveries : /\ link[d] >= opened
                             /\ stage[d] \in {"buffered", "counting", "handling", "backoff"}}

\* A delivery nobody was subscribed for: only the loss of its link frees the message.
Stranded(m) == \E d \in Deliveries : Message(d) = m /\ Owned(d) /\ stage[d] = "dropped"

\* Nobody grants credits any more: the receiver is closed, or was attached again and no
\* delivery of it is under way.
Starved == closed \/ (forfeited > 0 /\ credit = 0 /\ Owing = {})

\* The type invariant.
TypeOK ==
    /\ place \in [Messages -> Places]
    /\ delivered \in [Messages -> 0..MaxDeliveries]
    /\ sent \in [Deliveries -> Dispositions]
    /\ count \in [Messages \cup {NoId} -> Nat]
    /\ phase \in {"down", "starting", "listening"}
    /\ receiver \in 0..MaxReceivers /\ opened \in 0..MaxReceivers
    /\ closed \in BOOLEAN
    /\ credit \in Nat /\ forfeited \in Nat
    /\ link \in [Deliveries -> 0..MaxReceivers]
    /\ buffer \in Seq(Deliveries)
    /\ stage \in [Deliveries -> Stages]
    /\ attempts \subseteq Deliveries /\ handled \subseteq Messages

\* A consumer that listens runs short of credits only by what the connection took: what
\* was dropped before it subscribed, rejected, retried or detached is made good, so the
\* credits the broker holds, those still owed for deliveries under way and those that
\* were lost with a connection make up concurrentLimit while the receiver is open.
NoCreditLeak ==
    phase = "listening" /\ ~closed =>
        credit + Cardinality(Owing) + forfeited >= ConcurrentLimit

\* With eager acceptance a message is handed to onMessage at most once per link: only a
\* link lost before its accept arrived brings the message back, be it attached again for
\* the same receiver or for its replacement.
EagerOncePerLink ==
    \A d, e \in attempts : Message(d) = Message(e) /\ link[d] = link[e] => d = e

\* Without eager acceptance, one message is in two onMessage calls at a time only when
\* the link of the older one was lost: retries wait for the release.
NoDoubleHandling ==
    \A d, e \in Deliveries :
        /\ stage[d] = "handling" /\ stage[e] \in {"counting", "handling"}
        /\ d # e /\ Message(d) = Message(e)
        => link[d] # link[e]

\* A readable message is dead-lettered only after its own attempts were used up.
DeadLetteredOnlyAfterAttempts ==
    \A m \in Messages \ Unreadable :
        place[m] = "dead" => Cardinality(Attempts(m)) = MaxAttempts

\* Every message ends up done or dead-lettered, unless it is stranded on a link that was
\* attached before anybody subscribed, or nobody grants the receiver credits any more.
EventuallySettled ==
    \A m \in Messages : <>[](place[m] \in {"done", "dead"} \/ Stranded(m) \/ Starved)

-----------------------------------------------------------------------------
\* What the consumer promises without eager acceptance: see BoundedRetry.
Retry == INSTANCE BoundedRetry WITH
    MaxTries <- MaxAttempts,
    tries    <- [m \in Messages |-> Cardinality(Attempts(m))]

\* Receivers, deliveries, dispositions, the counter in Redis and crashes together
\* implement a queue with at-least-once handling and a bounded number of tries.
ImplementsBoundedRetry == Retry!Spec
=============================================================================
