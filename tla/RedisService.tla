----------------------------- MODULE RedisService -----------------------------
(***************************************************************************)
(* AbstractRedisService: the callers of one process, the ioredis connection *)
(* of each service, and the keys that the services share in Redis.          *)
(*                                                                         *)
(* ioredis sends commands in order and, when it has to connect again, sends *)
(* those without a reply once more, unless that takes more than 20 attempts *)
(* (maxRetriesPerRequest): then it drops them and rejects their calls.      *)
(* commandTimeout gives up the wait of the caller, not the command.  Redis  *)
(* and ioredis are external.                                               *)
(***************************************************************************)
EXTENDS Integers, Sequences, FiniteSets

CONSTANTS
    Service,      \* the services, each with a NAMESPACE and a connection of its own
    AmqpCache,    \* the one that is AmqpCacheService
    Key,          \* keys as callers name them
    Ttl,          \* the lifetime callers ask for, in ticks
    Called,       \* bound: the methods called
    MaxCommands,  \* bound: calls of a method
    MaxLosses     \* bound: connections lost, and crashes

ASSUME AmqpAssumption  == AmqpCache \in Service
ASSUME RawAssumption   == "raw" \notin Service   \* keys without a NAMESPACE are apart
ASSUME TtlAssumption   == Ttl \in Nat \ {0}
ASSUME BoundAssumption == MaxCommands \in Nat /\ MaxLosses \in Nat

VARIABLES
    db,        \* Redis: the entry under each name
    queue,     \* per connection, the commands without a reply, oldest first
    result,    \* the answer to each call: "none", "told", "timeout" or "rejected"
    calls,     \* calls so far, which number the commands and what they write
    losses,    \* losses and crashes so far
    gen,       \* history: how often the value under a name was replaced or removed
    acked,     \* history: increments of the present value that a caller was told of
    granted,   \* history: setNX calls answered TRUE, with the value they made
    last,      \* history: the last write of a name that was called for, 0 if it was given up
    orphaned   \* history: counters of which an INCR or EXPIRE was given up, or a wait for it

vars == <<db, queue, result, calls, losses, gen, acked, granted, last, orphaned>>

Raw == "raw"
Name == (Service \cup {Raw}) \X Key

\* The method each command is sent for; "expire" follows "increaseDeliveryCount", "read"
\* is get, exists, getKeys, setGet, hGet and hGetAll, and scan and flush: SSCAN looks for
\* a set named NAMESPACE:*, of which there is none.
StringOps == {"set", "setEX", "setNX", "incr", "increaseDeliveryCount"}
HashOps   == {"hSet", "hSetWithExpire", "hIncrBy", "hDel"}
SetOps    == {"setAdd", "setRemove"}
AnyOps    == {"del", "expire", "read"}
Ops       == StringOps \cup HashOps \cup SetOps \cup AnyOps
Counts     == {"incr", "increaseDeliveryCount", "hIncrBy"}
Overwrites == {"set", "setEX", "del"}   \* need not know what was there

ASSUME CalledAssumption == Called \subseteq Ops \ {"expire"}

Type(op) == CASE op \in StringOps -> "string" [] op \in HashOps -> "hash"
              [] op \in SetOps -> "set" [] OTHER -> "any"

\* A hash is seen through one field, a set through one member.
NoEntry == [type |-> "none", num |-> 0, ttl |-> 0]
Entry == [type: {"none", "string", "hash", "set"}, num: Nat, ttl: 0..Ttl]
Command == [op: Ops, id: 1..MaxCommands, name: Name, done: BOOLEAN,
            says: {"none", "ok", "no", "failed"}, gen: Nat]

Answer  == {"none", "told", "timeout", "rejected"}

TypeOK ==
    /\ db \in [Name -> Entry]
    /\ queue \in [Service -> Seq(Command)]
    /\ result \in [1..MaxCommands -> Answer]
    /\ calls \in 0..MaxCommands /\ losses \in 0..MaxLosses
    /\ gen \in [Name -> Nat] /\ acked \in [Name -> Nat]
    /\ granted \subseteq (1..MaxCommands) \X Name \X Nat
    /\ last \in [Name -> 0..MaxCommands]
    /\ orphaned \subseteq Name

Init ==
    /\ db = [n \in Name |-> NoEntry]
    /\ queue = [s \in Service |-> <<>>]
    /\ result = [i \in 1..MaxCommands |-> "none"]
    /\ calls = 0 /\ losses = 0
    /\ gen = [n \in Name |-> 0] /\ acked = [n \in Name |-> 0]
    /\ granted = {} /\ last = [n \in Name |-> 0]
    /\ orphaned = {}

-----------------------------------------------------------------------------
(* Keys.                                                                   *)

\* cacheKey: NAMESPACE and key.
cacheKey(s, k) == <<s, k>>

\* incr passes the key on as it is.
NameOf(s, op, k) == IF op = "incr" THEN <<Raw, k>> ELSE cacheKey(s, k)

-----------------------------------------------------------------------------
(* What Redis makes of a command: the entry after it, and the reply.       *)

WrongType(op, e) ==
    e.type \notin {"none", Type(op)} /\ Type(op) # "any" /\ op \notin {"set", "setEX", "setNX"}

Plus(e, t) == IF e.type = "none" THEN [type |-> t, num |-> 1, ttl |-> 0]
                                 ELSE [e EXCEPT !.num = @ + 1]

\* SET drops a lifetime, SETEX sets one, other commands keep what there is.
After(op, id, e) ==
    IF WrongType(op, e) THEN e ELSE
    CASE op = "set"   -> [type |-> "string", num |-> id, ttl |-> 0]
      [] op = "setEX" -> [type |-> "string", num |-> id, ttl |-> Ttl]
      [] op = "setNX" /\ e = NoEntry -> [type |-> "string", num |-> id, ttl |-> 0]
      [] op \in {"incr", "increaseDeliveryCount"} -> Plus(e, "string")
      [] op = "hIncrBy" -> Plus(e, "hash")
      [] op = "hSet"    -> [type |-> "hash", num |-> id, ttl |-> e.ttl]
      [] op = "hSetWithExpire" -> [type |-> "hash", num |-> id, ttl |-> Ttl]   \* MULTI
      [] op = "setAdd"  -> [type |-> "set", num |-> 1, ttl |-> e.ttl]
      [] op \in {"del", "hDel", "setRemove"} -> NoEntry
      [] op = "expire" /\ e # NoEntry -> [e EXCEPT !.ttl = Ttl]
      [] OTHER -> e

MutantSays(op, e) == IF WrongType(op, e) THEN "failed" ELSE "ok"   \* Mutant: setNX with res >= 0

Says(op, e) == IF WrongType(op, e) THEN "failed"
               ELSE IF op = "setNX" /\ e # NoEntry THEN "no" ELSE "ok"

\* A value is replaced or removed, not counted up.
Renews(op, e) ==
    /\ e # NoEntry /\ ~WrongType(op, e)
    /\ op \in Overwrites \cup {"hSet", "hSetWithExpire", "hDel", "setRemove"}

-----------------------------------------------------------------------------
(* Calls and connections.                                                  *)

Send(s, op, id, n) ==
    queue' = [queue EXCEPT ![s] = Append(@,
        [op |-> op, id |-> id, name |-> n, done |-> FALSE, says |-> "none", gen |-> 0])]

\* The delivery counter is called through AmqpCache, the other methods through the rest.
Call(s, op, k) ==
    LET n == NameOf(s, op, k) IN
    /\ calls < MaxCommands   \* bound
    /\ calls' = calls + 1
    /\ (s = AmqpCache) <=> (op = "increaseDeliveryCount")
    /\ Send(s, op, calls + 1, n)
    /\ last' = IF op = "read" THEN last ELSE [last EXCEPT ![n] = IF op \in Overwrites THEN calls + 1 ELSE 0]
    /\ UNCHANGED <<db, result, losses, gen, acked, granted, orphaned>>

\* Redis executes the oldest command of a connection that it has not answered on it.
Execute(s) ==
    \E i \in DOMAIN queue[s] :
        LET c == queue[s][i]
            e == db[c.name]
            fresh == Renews(c.op, e)
        IN  /\ ~c.done /\ \A j \in 1..(i - 1) : queue[s][j].done
            /\ db' = [db EXCEPT ![c.name] = After(c.op, c.id, e)]
            /\ gen' = IF fresh THEN [gen EXCEPT ![c.name] = @ + 1] ELSE gen
            /\ acked' = IF fresh THEN [acked EXCEPT ![c.name] = 0] ELSE acked
            /\ queue' = [queue EXCEPT ![s][i] =
                  [c EXCEPT !.done = TRUE, !.says = Says(c.op, e), !.gen = gen[c.name]]]
            /\ UNCHANGED <<result, calls, losses, granted, last, orphaned>>

Tell(i, what) == result' = IF result[i] = "none" THEN [result EXCEPT ![i] = what] ELSE result

MutantExpireName(c) == <<Raw, c.name[2]>>   \* Mutant: EXPIRE for the key without its namespace

ExpireName(c) == c.name

\* The reply reaches the process.  increaseDeliveryCount then sends EXPIRE, not awaited,
\* unless its INCR has failed or timed out before.
Receive(s) ==
    /\ queue[s] # <<>> /\ queue[s][1].done
    /\ LET c == queue[s][1]
           told == c.op # "expire" /\ result[c.id] = "none"
           goesOn == c.op = "increaseDeliveryCount" /\ told /\ c.says = "ok"
           rest == [queue EXCEPT ![s] = Tail(@)]
       IN  /\ queue' = IF goesOn
                  THEN [rest EXCEPT ![s] = Append(@, [c EXCEPT !.op = "expire", !.name = ExpireName(c), !.done = FALSE])]
                  ELSE rest
           /\ IF c.op = "expire" THEN UNCHANGED result ELSE Tell(c.id, "told")
           /\ acked' = IF told /\ c.op \in Counts
                          /\ c.says = "ok" /\ c.gen = gen[c.name]
                       THEN [acked EXCEPT ![c.name] = @ + 1] ELSE acked
           /\ granted' = IF told /\ c.op = "setNX" /\ c.says = "ok"
                         THEN granted \cup {<<c.id, c.name, c.gen>>} ELSE granted
           /\ UNCHANGED <<db, calls, losses, gen, last, orphaned>>

\* The counters that some commands are to count up or to give a lifetime.
Counters(cs) == {c.name : c \in {d \in cs : d.op \in {"increaseDeliveryCount", "expire"}}}

\* commandTimeout rejects the call; its command stays in the queue.
TimeOut(s) ==
    /\ \E i \in DOMAIN queue[s] :
          /\ queue[s][i].op # "expire" /\ result[queue[s][i].id] = "none"
          /\ Tell(queue[s][i].id, "timeout")
          /\ orphaned' = orphaned \cup Counters({queue[s][i]})
    /\ UNCHANGED <<db, queue, calls, losses, gen, acked, granted, last>>

\* The elements of a sequence at some of its positions, in order.
Rank(P, i)  == Cardinality({j \in P : j <= i})
Kept(cs, P) == [n \in 1..Cardinality(P) |-> cs[CHOOSE i \in P : Rank(P, i) = n]]

Again(cs) == [i \in DOMAIN cs |-> [cs[i] EXCEPT !.done = FALSE, !.says = "none"]]

MutantReconnect(s, m) ==   \* Mutant: commands without a reply are dropped and taken for done
    /\ queue' = [queue EXCEPT ![s] = <<>>]
    /\ result' = [i \in 1..MaxCommands |->
          IF \E j \in DOMAIN queue[s] : queue[s][j].id = i THEN "told" ELSE result[i]]
    /\ acked' = [n \in Name |-> acked[n] + Cardinality({j \in DOMAIN queue[s] :
          queue[s][j].name = n /\ queue[s][j].op \in Counts /\ result[queue[s][j].id] = "none"})]

MutantResend(s, m) ==   \* Mutant: each command without a reply goes in front of those sent before it
    /\ queue' = [queue EXCEPT ![s] = Again([i \in 1..m |-> queue[s][m + 1 - i]])]
    /\ UNCHANGED <<result, acked>>

\* Of the commands without a reply the first m are sent once more, executed or not, but a
\* MULTI is aborted; the others are given up and their calls rejected.
Reconnect(s, m) ==
    LET single  == {i \in 1..m : queue[s][i].op # "hSetWithExpire"}
        aborted == {queue[s][i].id : i \in (1..m) \ single}
        gone    == {queue[s][i].id : i \in DOMAIN queue[s] \ (1..m)}
    IN  /\ queue' = [queue EXCEPT ![s] = Again(Kept(@, single))]
        /\ result' = [i \in 1..MaxCommands |->
              IF result[i] # "none" THEN result[i]
              ELSE IF i \in aborted THEN "told" ELSE IF i \in gone THEN "rejected" ELSE "none"]
        /\ UNCHANGED acked

\* A connection is lost.  Given up are those without a reply at the 21st attempt to have
\* one again, none of them in a shorter outage, and perhaps only those called for in it.
\* An EXPIRE given up is a rejection nobody handles, which ends the process: see Crash.
Lose(s) ==
    /\ losses < MaxLosses /\ queue[s] # <<>>   \* bound
    /\ losses' = losses + 1
    /\ \E m \in 0..Len(queue[s]) :
          LET gone == {queue[s][i] : i \in DOMAIN queue[s] \ (1..m)} IN
          /\ \A c \in gone : c.op # "expire"
          /\ Reconnect(s, m)
          /\ last' = [n \in Name |-> IF \E c \in gone : c.id = last[n] THEN 0 ELSE last[n]]
          /\ orphaned' = orphaned \cup Counters(gone)
    /\ UNCHANGED <<db, calls, gen, granted>>

\* The process dies with its connections and what was waiting on them.
Crash ==
    /\ losses < MaxLosses   \* bound
    /\ losses' = losses + 1
    /\ queue' = [s \in Service |-> <<>>]
    /\ last' = [n \in Name |-> 0]
    /\ orphaned' = orphaned \cup UNION {Counters({queue[s][i] : i \in DOMAIN queue[s]}) : s \in Service}
    /\ UNCHANGED <<db, result, calls, gen, acked, granted>>

\* Redis drops an entry at the end of its lifetime.
Tick ==
    /\ \E n \in Name : db[n].ttl > 0
    /\ db' = [n \in Name |-> IF db[n].ttl > 1 THEN [db[n] EXCEPT !.ttl = @ - 1]
                             ELSE IF db[n].ttl = 1 THEN NoEntry ELSE db[n]]
    /\ gen' = [n \in Name |-> IF db[n].ttl = 1 THEN gen[n] + 1 ELSE gen[n]]
    /\ acked' = [n \in Name |-> IF db[n].ttl = 1 THEN 0 ELSE acked[n]]
    /\ UNCHANGED <<queue, result, calls, losses, granted, last, orphaned>>

Next ==
    \/ \E s \in Service, op \in Called, k \in Key : Call(s, op, k)
    \/ \E s \in Service : Execute(s) \/ Receive(s) \/ TimeOut(s) \/ Lose(s)
    \/ Tick
    \/ Crash

Spec == Init /\ [][Next]_vars

\* Redis answers.
Fairness == \A s \in Service : WF_vars(Execute(s)) /\ WF_vars(Receive(s))

FairSpec == Spec /\ Fairness

-----------------------------------------------------------------------------
(* Properties.                                                             *)

\* setNX is TRUE for one caller per value, also when its command was sent twice.
OneGrant == \A g, h \in granted : g[2] = h[2] /\ g[3] = h[3] => g = h

\* Every increment that a caller was told of is in the count, until it is overwritten.
AckedCounted == \A n \in Name : acked[n] <= db[n].num

\* Overtaken writes stay overtaken: when a connection has nothing left to send, the
\* name written last holds what that last call wrote, or is gone.  A write that ioredis
\* gave up in a long outage is not the last: what it overtook may be in place.
LastWriteWins ==
    \A s \in Service, k \in Key :
        LET n == cacheKey(s, k) IN
        queue[s] = <<>> /\ last[n] # 0 => db[n] = NoEntry \/ db[n].num = last[n]

\* A delivery counter gets its lifetime, unless one of its INCR timed out or was given up,
\* or the process died with its INCR or EXPIRE without a reply (increaseDeliveryCount).
CounterExpires ==
    \A k \in Key : LET n == cacheKey(AmqpCache, k) IN
        (db[n].num > 0 /\ db[n].ttl = 0) ~> (db[n].ttl > 0 \/ db[n] = NoEntry \/ n \in orphaned)

=============================================================================
