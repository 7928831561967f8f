------------------------------ MODULE AmqpRouting ------------------------------
(***************************************************************************)
(* Where AbstractMessaging and RabbitMQService listen and where they publish: *)
(* the exchange, queues and bindings their listeners declare, and the        *)
(* addresses their senders make of the same names.  The broker is external.  *)
(*                                                                         *)
(* All classes with a ROUTING share one exchange, and each has a topic or    *)
(* fanout name of its own; a class without one has an address of its own.   *)
(* Names are tuples of what the code joins.                                 *)
(***************************************************************************)
EXTENDS Integers, Sequences

CONSTANTS
    Topic,       \* classes with ROUTING topic
    Fanout,      \* classes with ROUTING fanout
    Direct,      \* classes with ROUTING null
    Durable,     \* classes with durable TRUE
    Message,     \* messages, each sent once
    MaxLosses    \* bound: losses of the connection, the broker or the process

Class  == Topic \cup Fanout \cup Direct
Routed == Topic \cup Fanout

ASSUME RoutingAssumption == /\ Topic \cap Fanout = {} /\ Routed \cap Direct = {}
                            /\ Durable \subseteq Class
ASSUME LossAssumption == MaxLosses \in Nat
ASSUME NamesAssumption == Class \cap {"undefined", "*", "#"} = {}   \* of the names that classes choose

VARIABLES
    process,     \* "up", "down", or "refused": ended by a declaration
    stage,       \* how far each class is in listen
    receiver,    \* what became of each class's receiver
    exchanges,   \* exchanges declared
    queues,      \* queues declared: their names, and with what options
    bindings,    \* bindings of queues to exchanges, with a key
    stored,      \* the queues each message is in
    sent,        \* what became of each message at its sender
    losses,      \* losses so far
    listened     \* history: classes that have come to listen since their queue was last gone

broker == <<exchanges, queues, bindings, stored>>
vars   == <<process, stage, receiver, broker, sent, losses, listened>>

Stages == {"exchange", "queue", "bind", "temporary", "attach", "listening",
            "refused"}

\* new: not attached yet; open: with credits; dry: attached again without any; closed: not
\* replaced before the next connection.
Receivers == {"new", "open", "dry", "closed"}
Outcomes == {"accepted", "unheard"}   \* unheard: sendMessage waits for ever
Unsent   == [status |-> "unsent"]
Fresh    == [c \in Class |-> "new"]

MutantWorkflowVariant(name) == name \o <<"variant">>   \* Mutant: ENVIRONMENT has a WORKFLOW_VARIANT

\* workflowVariant: no class of settings exposes WORKFLOW_VARIANT, so it is "".
workflowVariant(name) == name

Exchange  == <<"exchange">>    \* _address of the classes with a ROUTING
Undefined == <<"undefined">>   \* options.address left out

\* LISTEN_TO_ADDRESS and assertAMQPAddress.
QueueName(c) == IF c \in Routed THEN Exchange \o workflowVariant(<<c>>) ELSE <<c>>

MutantBindingKey(c) == <<"#">>   \* Mutant: every exchange is a fanout
BindingKey(c) == IF c \in Fanout THEN <<"#">> ELSE workflowVariant(<<c>>)

\* The options of assertAMQPAddress and of assertTemporaryQueue.
RoutedOptions(c) == [durable |-> c \in Durable, temporary |-> FALSE]
TemporaryOptions == [durable |-> FALSE, temporary |-> TRUE]
Options == [durable : BOOLEAN, temporary : BOOLEAN]

Unrefused(name, options) == \A q \in queues : q.name = name => q.options = options
Declare(name, options)   == queues' = queues \cup {[name |-> name, options |-> options]}
Exists(name)             == \E q \in queues : q.name = name

MutantNeedsTemporary(c) == TRUE   \* Mutant: the queue is asserted whether durable or not
NeedsTemporary(c) == c \notin Durable

\* Where receiveMessage starts and where buildAddress leaves it.
AfterBuild(c) == IF NeedsTemporary(c) THEN "temporary" ELSE "attach"
Listen(c)     == IF c \in Routed THEN "exchange" ELSE AfterBuild(c)

TypeOK ==
    /\ process \in {"up", "down", "refused"}
    /\ stage \in [Class -> Stages]
    /\ receiver \in [Class -> Receivers]
    /\ exchanges \subseteq {Exchange}
    /\ \A q \in queues : q.options \in Options
    /\ \A b \in bindings : b[1] \in exchanges /\ Exists(b[2])
    /\ \A m \in Message : \A name \in stored[m] : Exists(name)
    /\ sent \in [Message -> {Unsent} \cup [class : Class, global : BOOLEAN, status : Outcomes]]
    /\ losses \in 0..MaxLosses
    /\ listened \subseteq Class

Init ==
    /\ process = "up"
    /\ stage = [c \in Class |-> Listen(c)]
    /\ receiver = Fresh
    /\ exchanges = {} /\ bindings = {}
    /\ queues = {[name |-> <<c>>, options |-> [durable |-> TRUE, temporary |-> FALSE]]
                    : c \in Direct \cap Durable}   \* declared outside
    /\ stored = [m \in Message |-> {}]
    /\ sent = [m \in Message |-> Unsent]
    /\ losses = 0
    /\ listened = {}

-----------------------------------------------------------------------------
(* listen and receiveMessage.                                              *)

At(c, s)   == process = "up" /\ stage[c] = s
Goto(c, s) == stage' = [stage EXCEPT ![c] = s]

AssertExchange(c) ==
    /\ At(c, "exchange")
    /\ exchanges' = exchanges \cup {Exchange}
    /\ Goto(c, "queue")
    /\ UNCHANGED <<process, receiver, queues, bindings, stored, sent, losses, listened>>

AssertQueue(c) ==
    /\ At(c, "queue") /\ Unrefused(QueueName(c), RoutedOptions(c))
    /\ Declare(QueueName(c), RoutedOptions(c))
    /\ Goto(c, "bind")
    /\ UNCHANGED <<process, receiver, exchanges, bindings, stored, sent, losses, listened>>

BindQueue(c) ==
    /\ At(c, "bind") /\ Exists(QueueName(c))
    /\ bindings' = bindings \cup {<<Exchange, QueueName(c), BindingKey(c)>>}
    /\ Goto(c, AfterBuild(c))
    /\ UNCHANGED <<process, receiver, exchanges, queues, stored, sent, losses, listened>>

AssertTemporaryQueue(c) ==
    /\ At(c, "temporary") /\ Unrefused(QueueName(c), TemporaryOptions)
    /\ Declare(QueueName(c), TemporaryOptions)
    /\ Goto(c, "attach")
    /\ UNCHANGED <<process, receiver, exchanges, bindings, stored, sent, losses, listened>>

MutantAttach(c) ==   \* Mutant: start() does not add its credits
    /\ At(c, "attach") /\ Exists(QueueName(c)) /\ receiver[c] # "closed"
    /\ Goto(c, "listening")
    /\ listened' = listened \cup {c}
    /\ UNCHANGED <<process, receiver, broker, sent, losses>>

\* The receiver is attached.  The first one start() gives its credits, and createReceiver
\* every one it opens later; the options have a credit_window of 0.
Attach(c) ==
    /\ At(c, "attach") /\ Exists(QueueName(c)) /\ receiver[c] # "closed"
    /\ Goto(c, "listening")
    /\ receiver' = [receiver EXCEPT ![c] = IF @ = "new" THEN "open" ELSE @]
    /\ listened' = listened \cup {c}
    /\ UNCHANGED <<process, broker, sent, losses>>

\* A receiver attached before its queue is declared again is refused.  At receiverClose
\* createReceiver opens another, unless is_closed() is not true yet.
AttachRefused(c) ==
    /\ process = "up" /\ stage[c] \in {"temporary", "attach"} /\ ~Exists(QueueName(c))
    /\ receiver[c] \in {"open", "dry"}
    /\ \E next \in {"open", "closed"} : receiver' = [receiver EXCEPT ![c] = next]
    /\ UNCHANGED <<process, stage, broker, sent, losses, listened>>

\* A receiver without credits gets those that handlers of earlier messages give back.
Receive(c, m) ==
    /\ At(c, "listening") /\ receiver[c] \in {"open", "dry"} /\ QueueName(c) \in stored[m]
    /\ stored' = [stored EXCEPT ![m] = @ \ {QueueName(c)}]
    /\ UNCHANGED <<process, stage, receiver, exchanges, queues, bindings, sent, losses, listened>>

-----------------------------------------------------------------------------
(* Senders.                                                                *)

\* getPublishAddress: an exchange with a routing key, "*" for all, or a queue.
RoutingKey(c, global) == IF global \/ c \in Fanout THEN <<"*">> ELSE <<c>>

\* A topic exchange passes a key on to the same key and to "#"; a key of "*" is no pattern.
Bound(exchange, key) ==
    {b[2] : b \in {x \in bindings : x[1] = exchange /\ x[3] \in {<<"#">>, key}}}

Reaches(c, address, global) ==
    IF global \/ c \in Routed THEN Bound(workflowVariant(address), RoutingKey(c, global))
    ELSE {name \in {workflowVariant(address)} : Exists(name)}

\* The broker accepts what it can store.  It does not attach a sender to an exchange or
\* queue that is missing and releases what it cannot route: neither is waited for.
Deliver(m, c, global, names) ==
    /\ stored' = [stored EXCEPT ![m] = names]
    /\ sent' = [sent EXCEPT ![m] = [class |-> c, global |-> global,
                   status |-> IF names = {} THEN "unheard" ELSE "accepted"]]

Sends(m) == process = "up" /\ sent[m] = Unsent

Enqueue(m, c, global) ==
    /\ Sends(m)
    /\ Deliver(m, c, global, Reaches(c, IF c \in Routed THEN Exchange ELSE <<c>>, global))
    /\ UNCHANGED <<process, stage, receiver, exchanges, queues, bindings, losses, listened>>

\* enqueue without options.address: nothing of that name was ever declared.
EnqueueUnaddressed(m, c) ==
    /\ Sends(m)
    /\ Deliver(m, c, TRUE, Reaches(c, Undefined, FALSE))
    /\ UNCHANGED <<process, stage, receiver, exchanges, queues, bindings, losses, listened>>

MutantTarget(c) == <<"/amq/queue/", c>>   \* Mutant: the target is the queue that was asserted
Target(c) == <<c>>

\* sendMessage with durable FALSE, as RabbitMQService and reply call it: a queue named
\* like the whole address is declared, the message goes to the queue of its last part.
SendTemporary(m, c) ==
    /\ Sends(m) /\ c \in Direct
    /\ Declare(<<"/amq/queue/", c>>, TemporaryOptions)
    /\ Deliver(m, c, FALSE, {name \in {Target(c)} : \E q \in queues' : q.name = name})
    /\ UNCHANGED <<process, stage, receiver, exchanges, bindings, losses, listened>>

-----------------------------------------------------------------------------
(* Losses.                                                                 *)

\* Queues go with the messages and bindings they hold.
Delete(names) ==
    /\ queues' = {q \in queues : q.name \notin names}
    /\ bindings' = {b \in bindings : b[2] \notin names}
    /\ stored' = [m \in Message |-> stored[m] \ names]
    /\ listened' = {c \in listened : QueueName(c) \notin names}
    /\ UNCHANGED <<exchanges, sent>>

\* A temporary queue goes with its only receiver.
Left == {QueueName(c) : c \in {d \in Class : stage[d] = "listening"}}
AutoDeleted == {q.name : q \in {r \in queues : r.options.temporary /\ r.name \in Left}}
Volatile    == {q.name : q \in {r \in queues : ~r.options.durable}}

Lose(names) ==
    /\ process = "up" /\ losses < MaxLosses   \* bound
    /\ losses' = losses + 1
    /\ Delete(names)

\* connectionOpen: rhea attaches receivers again, temporary queues are declared again, and
\* a receiver that is closed is replaced; one that is open gets no credits.
Reattached(c) == IF stage[c] \in {"attach", "listening"} THEN AfterBuild(c) ELSE stage[c]
AfterLoss(c) == CASE receiver[c] = "open" -> "dry"
                  [] receiver[c] = "closed" -> "open"
                  [] OTHER -> receiver[c]

\* The connection is lost, alone or with the broker, and comes back.
LinkLost ==
    /\ Lose(AutoDeleted) \/ Lose(Volatile)
    /\ stage' = [c \in Class |-> Reattached(c)]
    /\ receiver' = [c \in Class |-> AfterLoss(c)]
    /\ UNCHANGED process

Crash ==
    /\ Lose(AutoDeleted)
    /\ process' = "down"
    /\ stage' = [c \in Class |-> Listen(c)]
    /\ receiver' = Fresh

\* A declaration refused closes the channel, whose error event has no listener: the
\* process ends.
Refused(c) ==
    /\ \/ At(c, "queue") /\ ~Unrefused(QueueName(c), RoutedOptions(c))
       \/ At(c, "bind") /\ ~Exists(QueueName(c))
       \/ At(c, "temporary") /\ ~Unrefused(QueueName(c), TemporaryOptions)
    /\ process' = "refused"
    /\ Goto(c, "refused")
    /\ Delete(AutoDeleted)
    /\ UNCHANGED <<receiver, losses>>

Start ==
    /\ process \in {"down", "refused"}
    /\ process' = "up"
    /\ stage' = [c \in Class |-> Listen(c)]
    /\ receiver' = Fresh
    /\ UNCHANGED <<broker, sent, losses, listened>>

Listens(c) ==
    \/ AssertExchange(c) \/ AssertQueue(c) \/ BindQueue(c)
    \/ AssertTemporaryQueue(c) \/ Refused(c) \/ Attach(c)

Next ==
    \/ \E c \in Class : Listens(c) \/ AttachRefused(c) \/ \E m \in Message : Receive(c, m)
    \/ \E m \in Message, c \in Class : \E global \in BOOLEAN : Enqueue(m, c, global)
    \/ \E m \in Message, c \in Class : EnqueueUnaddressed(m, c) \/ SendTemporary(m, c)
    \/ LinkLost
    \/ Crash
    \/ Start

Spec == Init /\ [][Next]_vars

\* The broker answers, and delivers where it has credits.  A subclass with a ROUTING calls
\* listen if it likes (it may only publish), and nothing in the repository starts the process
\* again.
Fairness == \A c \in Class :
    /\ WF_vars(stage[c] # "exchange" /\ Listens(c))
    /\ \A m \in Message : WF_vars(receiver[c] = "open" /\ Receive(c, m))

FairSpec == Spec /\ Fairness

-----------------------------------------------------------------------------
(* Properties.                                                             *)

\* A message is stored only where somebody it is for listens: in its class's queue, or, of
\* a class with a ROUTING, in those of the exchange's fanout classes; never in another
\* partition, and never in the queue that sendMessage declares under the whole address.
NoStray ==
    \A m \in Message : \A name \in stored[m] :
        LET c == sent[m].class IN
        name = QueueName(c) \/ \E f \in Fanout : name = QueueName(f)

\* A message enqueued to a class that listens, or did and has a durable queue, is
\* accepted: listener and sender make the same names of address, ROUTING and variant.
\* But for a class that is not durable and has a ROUTING: after the loss of the broker it
\* declares its queue again, and not the binding.
ListenerReached ==
    [][\A m \in Message :
        /\ sent[m] = Unsent /\ sent'[m].status = "unheard"
        /\ ~sent'[m].global /\ sent'[m].class \in Durable \cup Direct
        => sent'[m].class \notin listened]_vars

\* No declaration contradicts another, in any order of listeners, losses and restarts,
\* but those of a class that is not durable and has a ROUTING (declared twice, with
\* other options, by assertAMQPAddress and by assertTemporaryQueue).
RefusedOnlyRoutedTemporary ==
    \A c \in Class : stage[c] = "refused" => c \in Routed \ Durable

\* What the durable queue of a class has accepted is received in the end once the class has
\* called listen, unless the process ends, or the receiver was attached before a loss of the
\* connection: rhea attaches it again, and createReceiver gives an open one no credits.
ReceivedInTheEnd ==
    \A m \in Message, c \in Durable :
        stage[c] # "exchange" /\ QueueName(c) \in stored[m]
            ~> \/ QueueName(c) \notin stored[m] \/ process # "up"
               \/ stage[c] = "listening" /\ receiver[c] = "dry"
=============================================================================
