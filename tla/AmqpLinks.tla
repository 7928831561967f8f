------------------------------- MODULE AmqpLinks -------------------------------
(***************************************************************************)
(* AmqpService's connection over AMQP 1.0, beside the management            *)
(* connection: the receiver of a temporary queue (receiveMessage) and       *)
(* senders (sendMessage), who both have their queues declared over the      *)
(* management channel.  The rhea client, the broker and Node.js are external. *)
(*                                                                         *)
(* rhea reconnects by itself and attaches the links again that were open;   *)
(* a delivery that was not accepted before the loss never is.               *)
(***************************************************************************)
EXTENDS AmqpManagement

CONSTANTS
    Sends,          \* calls of sendMessage
    Durable,        \* those with durable TRUE, which declare no queue
    MaxLinkLosses,  \* bound: losses of the AMQP 1.0 connection
    MaxDeletions    \* bound: deletions of the queue under an open receiver

ASSUME DurableAssumption == Durable \subseteq Sends
ASSUME LossesAssumption  == MaxLinkLosses \in Nat /\ MaxDeletions \in Nat

VARIABLES
    link,        \* AmqpService.connection: "new", "open" or "down"
    subscriber,  \* receiveMessage: "idle", "asserting" or "listening"
    receiver,    \* "none", "attaching", "open", or "closed" and not replaced
    asserting,   \* the channel with an assertQueue of the subscriber under way, or 0
    queue,       \* the temporary queue exists
    send,        \* where each call of sendMessage is
    via,         \* the channel each call asserts its queue on
    sender,      \* the link of each call: "none", "open" or "closed"
    losses,      \* losses of the connection so far
    deletions,   \* deletions of the queue so far
    orphaned     \* history: the queue was deleted while this connection was open

receiving == <<subscriber, receiver, asserting, queue>>
sending   == <<send, via, sender>>
bounds    == <<losses, deletions, orphaned>>
links     == <<link, receiving, sending, bounds>>
vars      == <<management, links>>

SendStages == {"idle", "asserting", "attaching", "waiting",   \* under way
               "returned", "threw", "refused",                \* settled; refused: quota
               "unheard"}                                     \* waits for an event that is over

Init ==
    /\ ManagementInit
    /\ link = "new"
    /\ subscriber = "idle" /\ receiver = "none" /\ asserting = 0 /\ queue = FALSE
    /\ send = [s \in Sends |-> "idle"]
    /\ via = [s \in Sends |-> 0]
    /\ sender = [s \in Sends |-> "none"]
    /\ losses = 0 /\ deletions = 0 /\ orphaned = FALSE

ChannelUsable == channel \in live

-----------------------------------------------------------------------------
(* receiveMessage of a queue that is not durable.                          *)

\* assertTemporaryQueue; on a closed channel it throws, and nobody catches that.
AssertTemporaryQueue ==
    IF ChannelUsable
    THEN asserting' = channel /\ UNCHANGED process
    ELSE process' = "exited" /\ UNCHANGED asserting

\* createReceiver: a receiver that is open, or to be attached again by rhea, is kept.
CreateReceiver ==
    receiver' = IF receiver \in {"none", "closed"} THEN "attaching" ELSE receiver

\* receiverClose, and createReceiver at once: a new receiver if is_closed() is true by
\* then; otherwise the closed one is left until the next connection opens.
ReceiverCloses == receiver' \in {"attaching", "closed"}

\* Both services are initialised: a subscriber's onModuleInit calls receiveMessage.
ReceiveMessage ==
    /\ process = "up" /\ subscriber = "idle" /\ stage[0] = "done" /\ link # "new"
    /\ subscriber' = "asserting"
    /\ AssertTemporaryQueue
    /\ UNCHANGED <<connections, calls, missed, link, receiver, queue, sending, bounds>>

\* The queue is declared; after the first declaration the receiver and the
\* connectionOpen listeners come.
QueueAsserted ==
    /\ process = "up" /\ asserting \in live
    /\ queue' = TRUE
    /\ asserting' = 0
    /\ subscriber' = "listening"
    /\ IF subscriber = "asserting" THEN CreateReceiver ELSE UNCHANGED receiver
    /\ UNCHANGED <<management, link, sending, bounds>>

\* assertQueue rejects with its channel: in an onModuleInit or an event listener, where
\* nobody catches it.
AssertRejects == asserting # 0 /\ asserting \notin live
ProcessExits ==
    /\ process = "up" /\ AssertRejects
    /\ process' = "exited"
    /\ UNCHANGED <<connections, calls, missed, links>>

\* The broker accepts the attach, of a new receiver or of an old one after a loss.
ReceiverOpens ==
    /\ process = "up" /\ link = "open" /\ receiver = "attaching" /\ queue
    /\ receiver' = "open"
    /\ UNCHANGED <<management, link, subscriber, asserting, queue, sending, bounds>>

\* It refuses an attach that comes while the queue is missing.
AttachRefused ==
    /\ process = "up" /\ link = "open" /\ receiver = "attaching" /\ ~queue
    /\ ReceiverCloses
    /\ UNCHANGED <<management, link, subscriber, asserting, queue, sending, bounds>>

-----------------------------------------------------------------------------
(* The connection.                                                         *)

\* Mutant: the queue is declared once, by receiveMessage.
LinkOpens_NoAssert ==
    /\ process = "up" /\ link # "open"
    /\ link' = "open"
    /\ IF subscriber = "listening"
       THEN CreateReceiver /\ UNCHANGED <<process, asserting>>
       ELSE UNCHANGED <<process, asserting, receiver>>
    /\ UNCHANGED <<connections, calls, missed, subscriber, queue, sending, bounds>>

\* connectionOpen and the listeners receiveMessage has attached to it.
LinkOpens ==
    /\ process = "up" /\ link # "open"
    /\ link' = "open"
    /\ IF subscriber = "listening"
       THEN AssertTemporaryQueue /\ CreateReceiver
       ELSE UNCHANGED <<process, asserting, receiver>>
    /\ UNCHANGED <<connections, calls, missed, subscriber, queue, sending, bounds>>

\* Mutant: no error handler on the connection.
LinkLost_NoErrorHandler ==
    /\ process = "up" /\ link = "open"
    /\ losses < MaxLinkLosses
    /\ losses' = losses + 1
    /\ link' = "down"
    /\ process' = "exited"
    /\ UNCHANGED <<connections, calls, missed, receiving, sending, deletions, orphaned>>

\* The connection is lost, which is only logged; the queue goes with its only consumer, or
\* with the broker.  No receiverClose comes: rhea keeps the receiver, to attach it again.
LinkLost ==
    /\ process = "up" /\ link = "open"
    /\ losses < MaxLinkLosses                             \* bound
    /\ losses' = losses + 1
    /\ link' = "down"
    /\ receiver' = IF receiver = "open" THEN "attaching" ELSE receiver
    /\ queue' \in {FALSE, queue /\ receiver # "open"}
    /\ send' = [s \in Sends |-> IF send[s] = "waiting" THEN "unheard" ELSE send[s]]
    /\ orphaned' = FALSE
    /\ UNCHANGED <<management, subscriber, asserting, via, sender, deletions>>

\* The queue is deleted under its receiver, which the broker detaches.
QueueDeleted ==
    /\ process = "up" /\ receiver = "open"
    /\ deletions < MaxDeletions                           \* bound
    /\ deletions' = deletions + 1
    /\ queue' = FALSE
    /\ ReceiverCloses
    /\ orphaned' = TRUE
    /\ UNCHANGED <<management, link, subscriber, asserting, sending, losses>>

-----------------------------------------------------------------------------
(* sendMessage.                                                            *)

OpenSender(s) ==
    /\ send' = [send EXCEPT ![s] = "attaching"]
    /\ sender' = [sender EXCEPT ![s] = "open"]

\* A call that does not ask for a durable address declares a queue first; on a closed
\* channel that throws.
SendMessage(s) ==
    /\ process = "up" /\ send[s] = "idle" /\ subscriber = "listening"
    /\ IF s \in Durable
       THEN OpenSender(s) /\ UNCHANGED via
       ELSE /\ send' = [send EXCEPT ![s] = IF ChannelUsable THEN "asserting" ELSE "threw"]
            /\ via' = [via EXCEPT ![s] = channel]
            /\ UNCHANGED sender
    /\ UNCHANGED <<management, link, receiving, bounds>>

\* Mutant: the call does not notice that its channel is gone.
SendAsserted_Hangs(s) ==
    /\ process = "up" /\ send[s] = "asserting" /\ via[s] \in live
    /\ OpenSender(s)
    /\ UNCHANGED <<management, link, receiving, via, bounds>>

\* The queue is declared and the sender opens, or the channel was lost and assertQueue
\* rejects.
SendAsserted(s) ==
    /\ process = "up" /\ send[s] = "asserting"
    /\ IF via[s] \in live
       THEN OpenSender(s)
       ELSE send' = [send EXCEPT ![s] = "threw"] /\ UNCHANGED sender
    /\ UNCHANGED <<management, link, receiving, via, bounds>>

\* finally: sender.close()
Close(s) == sender' = [sender EXCEPT ![s] = "closed"]

\* senderOpen: the message is sent if the broker's first credits came in the same read.
\* Otherwise the quota is taken to be exceeded, outside the try whose finally closes.
SenderOpens(s) ==
    /\ process = "up" /\ link = "open" /\ send[s] = "attaching"
    /\ \E sendable \in BOOLEAN :
         send' = [send EXCEPT ![s] = IF sendable THEN "waiting" ELSE "refused"]
    /\ UNCHANGED <<management, link, receiving, via, sender, bounds>>

Accepted(s) ==
    /\ process = "up" /\ link = "open" /\ send[s] = "waiting"
    /\ send' = [send EXCEPT ![s] = "returned"]
    /\ Close(s)
    /\ UNCHANGED <<management, link, receiving, via, bounds>>

\* The broker rejects or releases the message: an event sendMessage does not listen to.
Rejected(s) ==
    /\ process = "up" /\ link = "open" /\ send[s] = "waiting"
    /\ send' = [send EXCEPT ![s] = "unheard"]
    /\ UNCHANGED <<management, link, receiving, via, sender, bounds>>

Outcome(s) == Accepted(s) \/ Rejected(s)
SendStep(s) == SendAsserted(s) \/ SenderOpens(s) \/ Outcome(s)
Receiving == ReceiveMessage \/ QueueAsserted \/ ReceiverOpens \/ AttachRefused \/ LinkOpens

Next ==
    \/ ProcessExits
    \/ /\ ~AssertRejects
       /\ \/ ManagementNext /\ UNCHANGED links
          \/ Receiving \/ LinkLost \/ QueueDeleted
          \/ \E s \in Sends : SendMessage(s) \/ SendStep(s)

Spec == Init /\ [][Next]_vars

\* Promises settle, timers fire, the brokers can be reached again.
Fairness ==
    /\ \A l \in Calls : WF_vars(Connect(l) /\ UNCHANGED links)
                     /\ SF_vars(Dial(l) /\ UNCHANGED links)
    /\ WF_vars(ProcessExits)
    /\ WF_vars(ReceiveMessage) /\ WF_vars(QueueAsserted)
    /\ WF_vars(ReceiverOpens) /\ WF_vars(LinkOpens)
    /\ \A s \in Sends : WF_vars(SendStep(s))
FairSpec == Spec /\ Fairness

-----------------------------------------------------------------------------
\* The type invariant, the management connection's part included.
TypeOK ==
    /\ process \in {"up", "exited"}
    /\ opened \in 0..MaxConnections /\ connection \in Calls /\ channel \in Calls
    /\ live \subseteq Connections /\ watched \subseteq Connections
    /\ stage \in [Calls -> Stages] /\ local \in [Calls -> Calls] /\ missed \in BOOLEAN
    /\ link \in {"new", "open", "down"}
    /\ subscriber \in {"idle", "asserting", "listening"}
    /\ receiver \in {"none", "closed", "attaching", "open"}
    /\ asserting \in Calls /\ queue \in BOOLEAN /\ orphaned \in BOOLEAN
    /\ send \in [Sends -> SendStages] /\ via \in [Sends -> Calls]
    /\ sender \in [Sends -> {"none", "open", "closed"}]
    /\ losses \in 0..MaxLinkLosses /\ deletions \in 0..MaxDeletions

\* Losing the AMQP 1.0 connection, or the queue, never ends the process by itself: it exits
\* only while the management channel is gone.
ExitsOnlyWithoutChannel == process = "exited" => channel \notin live

\* Every call of sendMessage that ends has closed its sender, or never opened one, but for
\* a refusal for quota.
SendersClosed ==
    \A s \in Sends : sender[s] = "open" =>
        send[s] \in {"attaching", "waiting", "refused", "unheard"}

\* The receiver was closed under this connection, and createReceiver came too early.
Abandoned == receiver = "closed" /\ link = "open"

\* A receiver that lost its connection is attached again, one found closed when the next
\* connection opens is replaced, and the queue it needs is declared again: it opens in
\* the end, unless an attach before that declaration left it closed, its queue was
\* deleted under an open connection, or the process exits.
ReceiverReturns ==
    /\ subscriber = "listening" /\ receiver # "open" ~>
           receiver = "open" \/ Abandoned \/ orphaned \/ process = "exited"
    /\ subscriber = "listening" /\ receiver = "closed" /\ link = "down" ~>
           receiver # "closed" \/ process = "exited"

\* A call of sendMessage settles, unless the process exits or the answer it waits for is a
\* rejection or was lost with the connection.
SendSettles ==
    \A s \in Sends :
        send[s] # "idle" ~> \/ send[s] \in {"returned", "threw", "refused", "unheard"}
                           \/ process = "exited"
=============================================================================
