---------------------------- MODULE AmqpLinksProofs ----------------------------
(***************************************************************************)
(* Proofs about AmqpManagement and AmqpLinks, for any number of            *)
(* connections, losses and calls of sendMessage.                            *)
(***************************************************************************)
EXTENDS AmqpLinks, TLAPS

\* The management connection's part of the type invariant.
ManagementTypes ==
    /\ process \in {"up", "exited"}
    /\ opened \in 0..MaxConnections /\ connection \in Calls /\ channel \in Calls
    /\ live \subseteq Connections /\ watched \subseteq Connections
    /\ stage \in [Calls -> Stages] /\ local \in [Calls -> Calls]

\* this.connection is the connection opened last, and the only one that may be open.
Latest ==
    /\ connection = opened
    /\ live \subseteq {connection}
    /\ watched \subseteq 1..opened

\* A call that dials or waits has no connection; one that creates a channel does so on
\* this.connection, which has no handlers yet.
Making ==
    \A l \in Calls :
        /\ stage[l] \in {"dial", "delay"} => live = {}
        /\ stage[l] = "channel" => local[l] = connection /\ connection \notin watched

\* An assertQueue under way is on the only open connection, or its rejection is due.
Asserting == process = "up" /\ asserting # 0 => asserting \in live \/ live = {}

MInv == ManagementTypes /\ Latest /\ Making /\ OneConnect /\ Attended
IInv == MInv /\ Asserting /\ ExitsOnlyWithoutChannel

-----------------------------------------------------------------------------
(* The management connection.                                              *)

\* What a step of the management connection does to the rest: it opens a connection only
\* when none is open, and it exits with none.
Effect ==
    /\ live = {} \/ live' \in {live, {}}
    /\ process' = "exited" => live' = {}

\* A failed attempt leaves its call under way, or ends the process in onModuleInit.
LEMMA ConnectThrowsStep ==
    ASSUME MInv, NEW l \in Calls, process = "up", stage[l] \in {"dial", "channel"},
           live = {}, ConnectThrows(l), UNCHANGED <<connections, local>>
    PROVE  MInv' /\ Effect
<1> USE DEF Calls, Connections, connections, Stages
<1>1. ManagementTypes' /\ Effect
  BY DEF MInv, ManagementTypes, ConnectThrows, Effect
<1>2. Latest' /\ Making'
  BY DEF MInv, ManagementTypes, ConnectThrows, Latest, Making
<1>3. OneConnect'
  BY DEF MInv, ManagementTypes, ConnectThrows, OneConnect, Connecting
<1>4. Attended'
  <2>1. l # 0 => l \in Connecting'
    BY DEF MInv, ManagementTypes, ConnectThrows, Connecting
  <2>2. QED
    BY <2>1 DEF ConnectThrows, Attended
<1>5. QED
  BY <1>1, <1>2, <1>3, <1>4 DEF MInv

\* A connection that is lost starts a loop only if none is under way.
LEMMA LoseStep ==
    ASSUME MInv, NEW c \in Connections, Lose(c)
    PROVE  MInv' /\ Effect
<1> USE ConnectionsAssumption DEF Calls, Connections, Stages
<1>1. /\ process = "up" /\ c \in live /\ c = connection /\ live' = {}
      /\ process' \in {"up", "exited"}
      /\ process' = "up" \/ c \notin watched
      /\ UNCHANGED <<opened, connection, channel, watched, local>>
  BY DEF Lose, ConnectionCloses, ConnectionBreaks, MInv, Latest
<1>2. OnClose(c)
  BY DEF Lose, ConnectionCloses, ConnectionBreaks
<1>3. c \in Calls /\ ManagementTypes' /\ Effect
  BY <1>1, <1>2 DEF MInv, ManagementTypes, OnClose, Effect
<1>4. c \in watched => Connecting = {}
  BY <1>1 DEF MInv, Making, Connecting
<1>5. Latest' /\ Making'
  BY <1>1, <1>2, <1>3 DEF MInv, ManagementTypes, Latest, Making, OnClose
<1>6. OneConnect'
  <2>1. CASE c \in watched
    <3>1. Connecting' \subseteq {c}
      BY <1>2, <1>4, <2>1 DEF MInv, ManagementTypes, OnClose, Connecting
    <3>2. QED
      BY <3>1 DEF OneConnect
  <2>2. CASE c \notin watched
    <3>1. Connecting' = Connecting
      BY <1>2, <2>2 DEF OnClose, Connecting
    <3>2. QED
      BY <3>1 DEF MInv, OneConnect
  <2>3. QED
    BY <2>1, <2>2
<1>7. Attended'
  <2>1. CASE c \in watched
    <3>1. c \in Connecting'
      BY <1>2, <1>3, <2>1 DEF MInv, ManagementTypes, OnClose, Connecting
    <3>2. QED
      BY <3>1 DEF Attended
  <2>2. CASE c \notin watched
    <3>1. Connecting' = Connecting
      BY <1>2, <2>2 DEF OnClose, Connecting
    <3>2. QED
      BY <1>1, <2>2, <3>1 DEF MInv, Attended
  <2>3. QED
    BY <2>1, <2>2
<1>8. QED
  BY <1>3, <1>5, <1>6, <1>7 DEF MInv

\* A call of connect() advances alone.
LEMMA ConnectStep ==
    ASSUME MInv, NEW l \in Calls, Connect(l)
    PROVE  MInv' /\ Effect
<1> USE ConnectionsAssumption DEF Calls, Connections, Stages
<1>0. /\ process = "up" /\ l \in Connecting
      /\ \A k \in Calls : k # l => k \notin Connecting
  BY DEF MInv, OneConnect, Connecting, Connect, Dial, DialFails, DelayEnds, ChannelOpens,
         ChannelOpensAndCloses, ChannelFails
<1>1. CASE Dial(l)
  <2>1. live = {} /\ live' = {opened + 1} /\ connection' = opened + 1 /\ opened' = opened + 1
    BY <1>1 DEF MInv, Making, Dial
  <2>2. ManagementTypes' /\ Effect
    <3>1. opened + 1 \in Connections /\ opened + 1 \in Calls /\ opened + 1 \in 0..MaxConnections
      BY <1>1 DEF MInv, ManagementTypes, Dial
    <3>2. stage' \in [Calls -> Stages] /\ local' \in [Calls -> Calls]
      BY <1>1, <3>1 DEF MInv, ManagementTypes, Dial
    <3>3. UNCHANGED <<process, channel, watched>>
      BY <1>1 DEF Dial
    <3>4. ManagementTypes'
      BY <2>1, <3>1, <3>2, <3>3 DEF MInv, ManagementTypes
    <3>5. QED
      BY <1>0, <2>1, <3>3, <3>4 DEF Effect
  <2>3. Latest'
    BY <1>1, <2>1 DEF MInv, ManagementTypes, Latest, Dial
  <2>4. Making'
    <3>1. stage' = [stage EXCEPT ![l] = "channel"] /\ local' = [local EXCEPT ![l] = opened + 1]
          /\ watched' = watched /\ watched \subseteq 1..opened /\ opened \in Nat
      BY <1>1 DEF MInv, ManagementTypes, Latest, Dial
    <3>2. \A k \in Calls : k # l => stage'[k] \notin {"dial", "channel", "delay"}
      BY <1>0, <3>1 DEF MInv, ManagementTypes, Connecting
    <3>3. stage'[l] = "channel" /\ local'[l] = connection' /\ connection' \notin watched'
      BY <2>1, <3>1 DEF MInv, ManagementTypes
    <3>4. QED
      BY <3>2, <3>3 DEF Making
  <2>5. l \in Connecting' /\ Connecting' = Connecting
    BY <1>1 DEF MInv, ManagementTypes, Connecting, Dial
  <2>6. QED
    BY <2>2, <2>3, <2>4, <2>5 DEF MInv, OneConnect, Attended
<1>2. CASE DialFails(l)
  <2>1. live = {}
    BY <1>2 DEF MInv, Making, DialFails
  <2>2. QED
    BY <1>2, <2>1, ConnectThrowsStep DEF DialFails
<1>3. CASE ChannelFails(l)
  <2>1. live = {}
    BY <1>3 DEF MInv, Making, Latest, ChannelFails
  <2>2. QED
    BY <1>3, <2>1, ConnectThrowsStep DEF ChannelFails
<1>4. CASE DelayEnds(l)
  <2>1. ManagementTypes' /\ Effect
    BY <1>4 DEF MInv, ManagementTypes, DelayEnds, connections, Effect
  <2>2. Latest' /\ Making'
    BY <1>4 DEF MInv, ManagementTypes, Latest, Making, DelayEnds, connections
  <2>3. Connecting' = Connecting
    BY <1>4 DEF MInv, ManagementTypes, Connecting, DelayEnds
  <2>4. QED
    BY <1>0, <2>1, <2>2, <2>3 DEF MInv, OneConnect, Attended
<1>5. CASE ChannelOpens(l) \/ ChannelOpensAndCloses(l)
  <2>1. /\ Attach(l) /\ local[l] = connection /\ live' \in {live, {}}
        /\ UNCHANGED <<process, opened, connection, local>>
    BY <1>5 DEF MInv, Making, Latest, ChannelOpens, ChannelOpensAndCloses
  <2>2. connection \in live
    BY <1>5, <2>1 DEF ChannelOpens, ChannelOpensAndCloses
  <2>3. ManagementTypes' /\ Effect
    BY <1>0, <2>1, <2>2 DEF MInv, ManagementTypes, Attach, Effect
  <2>4. Connecting' = {}
    BY <1>0, <2>1 DEF MInv, ManagementTypes, Connecting, Attach
  <2>5. Latest'
    BY <2>1, <2>2 DEF MInv, ManagementTypes, Latest, Attach
  <2>6. Making'
    BY <2>4 DEF Making, Connecting
  <2>7. Attended'
    BY <2>1 DEF Attach, Attended
  <2>8. QED
    BY <2>3, <2>4, <2>5, <2>6, <2>7 DEF MInv, OneConnect
<1>6. QED
  BY <1>1, <1>2, <1>3, <1>4, <1>5 DEF Connect

-----------------------------------------------------------------------------
(* Both connections.                                                       *)

\* Nothing is connected, and the first call of connect() dials.
LEMMA InitInv == Init => IInv
<1> SUFFICES ASSUME Init PROVE IInv
  OBVIOUS
<1> USE ConnectionsAssumption DEF Init, ManagementInit, Calls
<1>1. ManagementTypes
  BY DEF ManagementTypes, Stages, Connections
<1>2. Latest /\ Making
  BY DEF Latest, Making
<1>3. Connecting = {0}
  BY DEF Connecting
<1>4. OneConnect /\ Attended
  BY <1>3 DEF OneConnect, Attended
<1>5. Asserting /\ ExitsOnlyWithoutChannel
  BY DEF Asserting, ExitsOnlyWithoutChannel
<1>6. QED
  BY <1>1, <1>2, <1>4, <1>5 DEF IInv, MInv

\* Receiver and senders leave the management connection alone, unless they end the process.
LEMMA LinkStep ==
    ASSUME IInv,
           \/ ProcessExits \/ Receiving \/ LinkLost \/ QueueDeleted
           \/ \E s \in Sends : SendMessage(s) \/ SendStep(s)
    PROVE  IInv'
<1> USE DEF Calls
<1>1. UNCHANGED <<connections, calls>>
  BY DEF ProcessExits, Receiving, ReceiveMessage, QueueAsserted, ReceiverOpens,
     AttachRefused, LinkOpens, LinkLost, QueueDeleted, SendMessage, SendStep, SendAsserted,
     SenderOpens, Outcome, Accepted, Rejected, management
<1>2. process' \in {process, "exited"}
  BY DEF ProcessExits, Receiving, ReceiveMessage, QueueAsserted, ReceiverOpens,
     AttachRefused, LinkOpens, LinkLost, QueueDeleted, SendMessage, SendStep, SendAsserted,
     SenderOpens, Outcome, Accepted, Rejected, management, AssertTemporaryQueue
<1>3. MInv'
  BY <1>1, <1>2 DEF IInv, MInv, ManagementTypes, Latest, Making, OneConnect, Attended,
                    Connecting, connections, calls
<1>4. process = "up" /\ process' = "exited" => channel \notin live
  <2>1. ASSUME ProcessExits PROVE live = {}
    BY <2>1 DEF ProcessExits, AssertRejects, IInv, Asserting
  <2>2. ASSUME AssertTemporaryQueue, process = "up", process' = "exited" PROVE channel \notin live
    BY <2>2 DEF AssertTemporaryQueue, ChannelUsable
  <2>3. QED
    BY <2>1, <2>2 DEF ProcessExits, Receiving, ReceiveMessage, QueueAsserted,
       ReceiverOpens, AttachRefused, LinkOpens, LinkLost, QueueDeleted, SendMessage,
       SendStep, SendAsserted, SenderOpens, Outcome, Accepted, Rejected, management
<1>5. ExitsOnlyWithoutChannel'
  BY <1>1, <1>2, <1>4 DEF IInv, MInv, ManagementTypes, ExitsOnlyWithoutChannel, connections
<1>6. asserting' = asserting \/ asserting' = 0 \/ (asserting' = channel /\ channel \in live)
  BY DEF ProcessExits, Receiving, ReceiveMessage, QueueAsserted, ReceiverOpens,
     AttachRefused, LinkOpens, LinkLost, QueueDeleted, SendMessage, SendStep, SendAsserted,
     SenderOpens, Outcome, Accepted, Rejected, AssertTemporaryQueue, ChannelUsable,
     receiving, links
<1>7. Asserting'
  BY <1>1, <1>2, <1>6 DEF IInv, Asserting, connections
<1>8. QED
  BY <1>3, <1>5, <1>7 DEF IInv

\* Every step keeps the invariant of the connections.
LEMMA NextInv == IInv /\ [Next]_vars => IInv'
<1> SUFFICES ASSUME IInv, [Next]_vars PROVE IInv'
  OBVIOUS
<1>1. CASE ManagementNext /\ UNCHANGED links /\ ~AssertRejects
  <2>1. MInv' /\ Effect
    BY <1>1, ConnectStep, LoseStep DEF ManagementNext, IInv
  <2>2. ExitsOnlyWithoutChannel'
    BY <2>1 DEF Effect, ExitsOnlyWithoutChannel
  <2>3. Asserting'
    BY <1>1, <2>1 DEF AssertRejects, Effect, Asserting, links, receiving, IInv, MInv, Latest
  <2>4. QED
    BY <2>1, <2>2, <2>3 DEF IInv
<1>2. CASE \/ ProcessExits \/ Receiving \/ LinkLost \/ QueueDeleted
           \/ \E s \in Sends : SendMessage(s) \/ SendStep(s)
  BY <1>2, LinkStep
<1>3. CASE UNCHANGED vars
  BY <1>3 DEF vars, management, connections, calls, links, receiving, IInv, MInv,
     ManagementTypes, Latest, Making, OneConnect, Attended, Connecting, Asserting,
     ExitsOnlyWithoutChannel
<1>4. QED
  BY <1>1, <1>2, <1>3 DEF Next

\* The invariant of the connections holds for ever.
LEMMA Invariant == Spec => []IInv
BY InitInv, NextInv, PTL DEF Spec

\* Whatever is lost, and whenever, one call of connect() at most is under way.
THEOREM OneLoop == Spec => []OneConnect
<1>1. IInv => OneConnect
  BY DEF IInv, MInv
<1>2. QED
  BY Invariant, <1>1, PTL

\* A connection that is open is the one the service uses.
THEOREM NoOrphans == Spec => []NoOrphanConnection
<1>1. IInv => NoOrphanConnection
  BY DEF IInv, MInv, Latest, NoOrphanConnection
<1>2. QED
  BY Invariant, <1>1, PTL

\* Between calls of connect() the service uses its latest connection, handlers attached.
THEOREM AlwaysAttended == Spec => []Attended
<1>1. IInv => Attended
  BY DEF IInv, MInv
<1>2. QED
  BY Invariant, <1>1, PTL

\* The three together: losses and repairs in any order leave the management connection in order.
THEOREM ManagementKept == Spec => []ManagementInOrder
<1>1. OneConnect /\ NoOrphanConnection /\ Attended => ManagementInOrder
  BY DEF ManagementInOrder
<1>2. QED
  BY OneLoop, NoOrphans, AlwaysAttended, <1>1, PTL

\* The AMQP 1.0 side ends the process only when the management channel is gone.
THEOREM ExitCause == Spec => []ExitsOnlyWithoutChannel
<1>1. IInv => ExitsOnlyWithoutChannel
  BY DEF IInv
<1>2. QED
  BY Invariant, <1>1, PTL

-----------------------------------------------------------------------------
(* Receiver and senders.                                                   *)

\* The rest of the type invariant.
LinkTypes ==
    /\ missed \in BOOLEAN
    /\ link \in {"new", "open", "down"}
    /\ subscriber \in {"idle", "asserting", "listening"}
    /\ receiver \in {"none", "closed", "attaching", "open"}
    /\ asserting \in Calls /\ queue \in BOOLEAN /\ orphaned \in BOOLEAN
    /\ losses \in 0..MaxLinkLosses /\ deletions \in 0..MaxDeletions
SendTypes ==
    /\ send \in [Sends -> SendStages] /\ via \in [Sends -> Calls]
    /\ sender \in [Sends -> {"none", "open", "closed"}]

SInv == LinkTypes /\ SendTypes /\ SendersClosed

\* No sender is open at first.
LEMMA SendInit == Init => SInv
<1> SUFFICES ASSUME Init PROVE SInv
  OBVIOUS
<1>1. 0 \in Calls
  BY ConnectionsAssumption DEF Calls
<1>2. losses \in 0..MaxLinkLosses /\ deletions \in 0..MaxDeletions
  BY LossesAssumption DEF Init
<1>3. LinkTypes
  BY <1>1, <1>2 DEF Init, ManagementInit, LinkTypes
<1>4. SendTypes /\ SendersClosed
  BY <1>1 DEF Init, SendTypes, SendersClosed, SendStages
<1>5. QED
  BY <1>3, <1>4 DEF SInv

\* A step of one call of sendMessage.
LEMMA SendMessageStep ==
    ASSUME IInv, SInv, NEW s \in Sends, SendMessage(s) \/ SendStep(s)
    PROVE  SInv'
<1>1. LinkTypes'
  BY DEF SInv, LinkTypes, SendMessage, SendStep, SendAsserted, SenderOpens, Outcome,
     Accepted, Rejected, management, receiving, bounds
<1>2. channel \in Calls
  BY DEF IInv, MInv, ManagementTypes
<1>3. SendTypes'
  BY <1>2 DEF SInv, SendTypes, SendStages, SendMessage, SendStep, SendAsserted, SenderOpens,
     Outcome, Accepted, Rejected, OpenSender, Close
<1>4. SendersClosed'
  BY DEF SInv, SendTypes, SendersClosed, SendMessage, SendStep, SendAsserted, SenderOpens,
         Outcome, Accepted, Rejected, OpenSender, Close
<1>5. QED
  BY <1>1, <1>3, <1>4 DEF SInv

\* A step of receiveMessage, of the AMQP 1.0 connection or of its queue.
LEMMA ReceivingStep ==
    ASSUME IInv, SInv, ProcessExits \/ Receiving \/ LinkLost \/ QueueDeleted
    PROVE  SInv'
<1>1. channel \in Calls
  BY DEF IInv, MInv, ManagementTypes
<1>2. CASE LinkLost
  <2>1. LinkTypes'
    <3>1. losses' \in 0..MaxLinkLosses
      BY <1>2, LossesAssumption DEF LinkLost, SInv, LinkTypes
    <3>2. queue' \in BOOLEAN /\ orphaned' \in BOOLEAN
      BY <1>2 DEF LinkLost
    <3>3. QED
      BY <1>2, <3>1, <3>2 DEF LinkLost, SInv, LinkTypes, management
  <2>2. SendTypes' /\ SendersClosed'
    BY <1>2 DEF LinkLost, SInv, SendTypes, SendersClosed, SendStages
  <2>3. QED
    BY <2>1, <2>2 DEF SInv
<1>3. CASE QueueDeleted
  <2>1. deletions' \in 0..MaxDeletions
    BY <1>3, LossesAssumption DEF QueueDeleted, SInv, LinkTypes
  <2>2. LinkTypes'
    BY <1>3, <2>1 DEF QueueDeleted, SInv, LinkTypes, management, ReceiverCloses
  <2>3. QED
    BY <1>3, <2>2 DEF QueueDeleted, SInv, SendTypes, SendersClosed, sending
<1>4. CASE Receiving \/ ProcessExits
  <2>1. UNCHANGED <<sending, bounds, missed>>
    BY <1>4 DEF Receiving, ReceiveMessage, QueueAsserted, ReceiverOpens, AttachRefused,
       LinkOpens, ProcessExits, links, management
  <2>2. LinkTypes'
    <3>0. 0 \in Calls
      BY ConnectionsAssumption DEF Calls
    <3>1. asserting' \in Calls
      BY <1>1, <1>4, <3>0 DEF SInv, LinkTypes, Receiving, ReceiveMessage, QueueAsserted,
         ReceiverOpens, AttachRefused, LinkOpens, ProcessExits, links, receiving,
         AssertTemporaryQueue
    <3>2. receiver' \in {"none", "closed", "attaching", "open"}
      BY <1>4 DEF SInv, LinkTypes, Receiving, ReceiveMessage, QueueAsserted, ReceiverOpens,
         AttachRefused, LinkOpens, ProcessExits, links, receiving, CreateReceiver,
         ReceiverCloses
    <3>3. queue' \in BOOLEAN
      BY <1>4 DEF SInv, LinkTypes, Receiving, ReceiveMessage, QueueAsserted, ReceiverOpens,
         AttachRefused, LinkOpens, ProcessExits, links, receiving
    <3>4. link' \in {"new", "open", "down"} /\ subscriber' \in {"idle", "asserting", "listening"}
      BY <1>4 DEF SInv, LinkTypes, Receiving, ReceiveMessage, QueueAsserted, ReceiverOpens,
         AttachRefused, LinkOpens, ProcessExits, links, receiving
    <3>5. QED
      BY <2>1, <3>1, <3>2, <3>3, <3>4 DEF SInv, LinkTypes, bounds
  <2>3. QED
    BY <2>1, <2>2 DEF SInv, SendTypes, SendersClosed, sending
<1>5. QED
  BY <1>2, <1>3, <1>4

\* Every step keeps types and senders in order.
LEMMA SendNext == IInv /\ SInv /\ [Next]_vars => SInv'
<1> SUFFICES ASSUME IInv, SInv, [Next]_vars PROVE SInv'
  OBVIOUS
<1>1. CASE ManagementNext /\ UNCHANGED links
  <2>1. missed' \in BOOLEAN
    BY <1>1 DEF SInv, LinkTypes, ManagementNext, Connect, Dial, DialFails, DelayEnds,
       ChannelOpens, ChannelOpensAndCloses, ChannelFails, Lose, ConnectionCloses,
       ConnectionBreaks
  <2>2. QED
    BY <1>1, <2>1 DEF SInv, LinkTypes, SendTypes, SendersClosed, links, receiving, sending,
       bounds
<1>2. CASE UNCHANGED vars
  BY <1>2 DEF SInv, LinkTypes, SendTypes, SendersClosed, vars, management, links, receiving,
     sending, bounds
<1>3. QED
  BY <1>1, <1>2, SendMessageStep, ReceivingStep DEF Next

\* Types and senders are in order for ever.
LEMMA SendInvariant == Spec => []SInv
BY Invariant, SendInit, SendNext, PTL DEF Spec

\* Every reachable state is well typed.
THEOREM TypeCorrect == Spec => []TypeOK
<1>1. IInv /\ SInv => TypeOK
  BY DEF IInv, MInv, ManagementTypes, SInv, LinkTypes, SendTypes, TypeOK
<1>2. QED
  BY Invariant, SendInvariant, <1>1, PTL

\* sendMessage leaves its sender open only when it refuses for quota, or waits for ever.
THEOREM SendersAreClosed == Spec => []SendersClosed
<1>1. SInv => SendersClosed
  BY DEF SInv
<1>2. QED
  BY SendInvariant, <1>1, PTL
=============================================================================
