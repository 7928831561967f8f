---------------------------- MODULE AmqpManagement ----------------------------
(***************************************************************************)
(* AmqpManagementService: the amqplib connection that declares queues, and  *)
(* the loop that makes a new one when it is lost.  amqplib, the broker and  *)
(* Node.js are external.                                                    *)
(*                                                                         *)
(* connect() is called by onModuleInit and by the close handler of each     *)
(* connection, so a call of it is named by the connection whose loss it     *)
(* repairs, onModuleInit's by 0.  One step is one turn of the event loop.   *)
(***************************************************************************)
EXTENDS Integers, FiniteSets

CONSTANTS
    MaxConnections   \* bound: connections the process opens

ASSUME ConnectionsAssumption == MaxConnections \in Nat \ {0}

Connections == 1..MaxConnections
Calls       == 0..MaxConnections

VARIABLES
    process,     \* "up" or "exited"
    opened,      \* connections opened so far
    live,        \* connections that are open
    connection,  \* this.connection, 0 before the first
    channel,     \* the connection that this.channel was created on, 0 before the first
    watched,     \* connections with an error and a close handler
    stage,       \* where each call of connect() is, its retries included
    local,       \* the local variable connection of each call
    missed       \* history: a connection closed before its close handler was attached

connections == <<opened, live, connection, channel, watched>>
calls       == <<stage, local>>
management  == <<process, connections, calls, missed>>

Stages == {"none", "dial", "channel", "delay", "done"}

\* Calls of connect() under way.
Connecting == {l \in Calls : stage[l] \in {"dial", "channel", "delay"}}

ManagementInit ==
    /\ process = "up"
    /\ opened = 0 /\ live = {}
    /\ connection = 0 /\ channel = 0 /\ watched = {}
    /\ stage = [l \in Calls |-> IF l = 0 THEN "dial" ELSE "none"]
    /\ local = [l \in Calls |-> 0]
    /\ missed = FALSE

-----------------------------------------------------------------------------
\* Mutant: handleDisconnect is called before the channel is there.
Dial_WatchedEarly(l) ==
    /\ process = "up" /\ stage[l] = "dial"
    /\ opened < MaxConnections
    /\ opened' = opened + 1
    /\ live' = live \cup {opened + 1}
    /\ connection' = opened + 1
    /\ watched' = watched \cup {opened + 1}
    /\ local' = [local EXCEPT ![l] = opened + 1]
    /\ stage' = [stage EXCEPT ![l] = "channel"]
    /\ UNCHANGED <<process, channel, missed>>

\* connect resolves: the connection becomes this.connection at once, createChannel goes out.
Dial(l) ==
    /\ process = "up" /\ stage[l] = "dial"
    /\ opened < MaxConnections                            \* bound
    /\ opened' = opened + 1
    /\ live' = live \cup {opened + 1}
    /\ connection' = opened + 1
    /\ local' = [local EXCEPT ![l] = opened + 1]
    /\ stage' = [stage EXCEPT ![l] = "channel"]
    /\ UNCHANGED <<process, channel, watched, missed>>

\* connect() throws: the loop waits 3 s; in onModuleInit nobody catches it.
ConnectThrows(l) ==
    IF l = 0
    THEN process' = "exited" /\ UNCHANGED stage
    ELSE stage' = [stage EXCEPT ![l] = "delay"] /\ UNCHANGED process

DialFails(l) ==
    /\ process = "up" /\ stage[l] = "dial"
    /\ ConnectThrows(l)
    /\ UNCHANGED <<connections, local, missed>>

DelayEnds(l) ==
    /\ process = "up" /\ stage[l] = "delay"
    /\ stage' = [stage EXCEPT ![l] = "dial"]
    /\ UNCHANGED <<process, connections, local, missed>>

\* Mutant: no close handler.
Attach_NoHandlers(l) ==
    /\ channel' = local[l]
    /\ UNCHANGED watched
    /\ stage' = [stage EXCEPT ![l] = "done"]

\* The rest of handleNewConnection, and handleDisconnect: both read this.connection again.
Attach(l) ==
    /\ channel' = local[l]
    /\ watched' = watched \cup {connection}
    /\ stage' = [stage EXCEPT ![l] = "done"]

ChannelOpens(l) ==
    /\ process = "up" /\ stage[l] = "channel" /\ local[l] \in live
    /\ Attach(l)
    /\ UNCHANGED <<process, opened, live, connection, local, missed>>

\* The broker's open-ok and its close arrive in one read: the close is emitted before the
\* code behind createChannel runs, and the handlers come too late to hear it.
ChannelOpensAndCloses(l) ==
    /\ process = "up" /\ stage[l] = "channel" /\ local[l] \in live
    /\ local[l] < MaxConnections                          \* bound
    /\ Attach(l)
    /\ live' = live \ {local[l]}
    /\ missed' = TRUE
    /\ UNCHANGED <<process, opened, connection, local>>

\* createChannel rejects, its connection is gone.
ChannelFails(l) ==
    /\ process = "up" /\ stage[l] = "channel" /\ local[l] \notin live
    /\ ConnectThrows(l)
    /\ UNCHANGED <<connections, local, missed>>

-----------------------------------------------------------------------------
\* The close handler of a connection starts its loop.
OnClose(c) ==
    IF c \in watched THEN stage' = [stage EXCEPT ![c] = "dial"] ELSE UNCHANGED stage

\* The broker shuts the connection down: a close event alone.
ConnectionCloses(c) ==
    /\ process = "up" /\ c \in live
    /\ c < MaxConnections                                 \* bound: the last one stays
    /\ live' = live \ {c}
    /\ OnClose(c)
    /\ UNCHANGED <<process, opened, connection, channel, watched, local, missed>>

\* The connection breaks: an error event, which ends the process when no handler is
\* attached to it yet, then a close event.
ConnectionBreaks(c) ==
    /\ process = "up" /\ c \in live
    /\ c < MaxConnections                                 \* bound
    /\ live' = live \ {c}
    /\ process' = IF c \in watched THEN process ELSE "exited"
    /\ OnClose(c)
    /\ UNCHANGED <<opened, connection, channel, watched, local, missed>>

Connect(l) ==
    Dial(l) \/ DialFails(l) \/ DelayEnds(l) \/ ChannelOpens(l) \/ ChannelOpensAndCloses(l)
    \/ ChannelFails(l)
Lose(c) == ConnectionCloses(c) \/ ConnectionBreaks(c)
ManagementNext ==
    \/ \E l \in Calls : Connect(l)
    \/ \E c \in Connections : Lose(c)

-----------------------------------------------------------------------------
\* At most one call of connect() is under way: losing a connection, also while the next
\* one is being made, never starts a second loop beside the first.
OneConnect == \A k, l \in Connecting : k = l

\* No connection is left behind: one that is open is this.connection.
NoOrphanConnection == live \subseteq {connection}

\* When no call of connect() is under way, the service uses the channel of its latest
\* connection, and the handlers that will repair its loss are attached.
Attended ==
    process = "up" /\ Connecting = {} => channel = connection /\ connection \in watched

\* However connections are lost and repaired: one loop at a time, nothing left behind, and
\* between repairs the service listens to the connection that it uses.
ManagementInOrder == OneConnect /\ NoOrphanConnection /\ Attended

\* A lost channel is replaced in the end, unless the process exits or the loss came in the
\* very read that opened the channel.
Reconnects ==
    channel \notin live ~> channel \in live \/ process = "exited" \/ missed
=============================================================================
