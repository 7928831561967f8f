-------------------------- MODULE RedisServiceProofs --------------------------
(***************************************************************************)
(* Proofs about RedisService, for any services, keys, methods called,      *)
(* lifetimes and bounds: type correctness, and the three invariants of     *)
(* callers whose commands are sent again after a lost connection.          *)
(***************************************************************************)
EXTENDS RedisService, SequenceTheorems, FiniteSetTheorems, TLAPS

-----------------------------------------------------------------------------
(* Sequences.                                                              *)

\* The positions of a selection in a sequence, counted in order: each is reached, once.
LEMMA KeptOrder ==
    ASSUME NEW n \in Nat, NEW P \in SUBSET (1..n)
    PROVE  /\ Cardinality(P) \in Nat
           /\ \E f \in [1..Cardinality(P) -> P] :
                 /\ \A a \in 1..Cardinality(P) : f[a] = CHOOSE i \in P : Rank(P, i) = a
                 /\ \A a, b \in 1..Cardinality(P) : a < b => f[a] < f[b]
                 /\ \A i \in P : \E a \in 1..Cardinality(P) : f[a] = i
<1> DEFINE k == Cardinality(P)
           Upto(i) == {j \in P : j <= i}
           R == [i \in P |-> Rank(P, i)]
           f == [a \in 1..k |-> CHOOSE i \in P : Rank(P, i) = a]
<1>0. \A i \in P : i \in Int
  OBVIOUS
<1>1. IsFiniteSet(P) /\ k \in Nat
  <2>1. IsFiniteSet(1..n)
    BY FS_Interval
  <2>2. QED
    BY <2>1, FS_Subset, FS_CardinalityType
<1>2. \A i \in P : IsFiniteSet(Upto(i)) /\ Rank(P, i) = Cardinality(Upto(i))
  BY <1>1, FS_Subset DEF Rank
<1>3. ASSUME NEW i \in P PROVE Rank(P, i) \in 1..k
  <2>1. Cardinality(Upto(i)) \in Nat /\ Cardinality(Upto(i)) <= k
    BY <1>1, FS_Subset, FS_CardinalityType
  <2>2. i \in Upto(i)
    OBVIOUS
  <2>3. Cardinality(Upto(i)) # 0
    BY <1>2, <2>2, FS_EmptySet
  <2>4. QED
    BY <1>1, <1>2, <2>1, <2>3
<1>4. ASSUME NEW i \in P, NEW j \in P, i < j PROVE Rank(P, i) < Rank(P, j)
  <2>0. i \in Int /\ j \in Int
    BY <1>0
  <2>1. Upto(i) \subseteq Upto(j) /\ j \in Upto(j) /\ j \notin Upto(i)
    <3>1. ASSUME NEW m \in P, m <= i PROVE m <= j
      <4>1. m \in Int
        BY <1>0
      <4>2. QED
        BY <1>4, <2>0, <3>1, <4>1
    <3>2. j <= j /\ ~(j <= i)
      BY <1>4, <2>0
    <3>3. QED
      BY <3>1, <3>2
  <2>2. Cardinality(Upto(i)) <= Cardinality(Upto(j)) /\ Cardinality(Upto(i)) # Cardinality(Upto(j))
    BY <1>2, <2>1, FS_Subset
  <2>3. QED
    BY <1>2, <1>3, <2>2
<1>5. R \in Injection(P, 1..k)
  <2>1. R \in [P -> 1..k]
    BY <1>3
  <2>2. \A i, j \in P : R[i] = R[j] => i = j
    BY <1>3, <1>4
  <2>3. QED
    BY <2>1, <2>2 DEF Injection, IsInjective
<1>6. R \in Surjection(P, 1..k)
  <2>1. IsFiniteSet(1..k) /\ Cardinality(1..k) = k
    BY <1>1, FS_Interval
  <2>2. QED
    BY <1>5, <2>1, FS_Injection
<1>7. ASSUME NEW a \in 1..k PROVE f[a] \in P /\ Rank(P, f[a]) = a
  <2>1. \E i \in P : Rank(P, i) = a
    <3>1. PICK i \in P : R[i] = a
      BY <1>6 DEF Surjection
    <3>2. QED
      BY <3>1
  <2>2. f[a] = CHOOSE i \in P : Rank(P, i) = a
    OBVIOUS
  <2>3. PICK i \in P : Rank(P, i) = a
    BY <2>1
  <2> HIDE DEF f
  <2>4. QED
    BY <2>2, <2>3
<1>8. f \in [1..k -> P]
  BY <1>7
<1>9. ASSUME NEW a \in 1..k, NEW b \in 1..k, a < b PROVE f[a] < f[b]
  <2>1. f[a] \in P /\ f[b] \in P /\ Rank(P, f[a]) = a /\ Rank(P, f[b]) = b
    BY <1>7
  <2>2. f[a] \in Int /\ f[b] \in Int
    BY <1>0, <2>1
  <2>3. CASE f[a] = f[b]
    BY <1>9, <2>1, <2>3
  <2>4. CASE f[b] < f[a]
    <3>1. Rank(P, f[b]) < Rank(P, f[a])
      BY <1>4, <2>1, <2>4
    <3>2. QED
      BY <1>9, <2>1, <3>1
  <2> HIDE DEF f
  <2>5. QED
    BY <2>2, <2>3, <2>4
<1>10. ASSUME NEW i \in P PROVE f[Rank(P, i)] = i
  <2>1. Rank(P, i) \in 1..k
    BY <1>3
  <2>2. f[Rank(P, i)] \in P /\ Rank(P, f[Rank(P, i)]) = Rank(P, i)
    BY <1>7, <2>1
  <2> HIDE DEF f
  <2> DEFINE j == f[Rank(P, i)]
  <2>3. j \in P /\ Rank(P, j) = Rank(P, i)
    BY <2>2
  <2> HIDE DEF j
  <2>3a. i \in Int /\ j \in Int
    BY <1>0, <2>3
  <2>3b. Rank(P, i) \in Int
    BY <1>1, <2>1
  <2>4. ~(i < j) /\ ~(j < i)
    BY <1>4, <2>3, <2>3a, <2>3b
  <2>5. j = i
    BY <2>3a, <2>4
  <2>6. QED
    BY <2>5 DEF j
<1>11. \A a \in 1..k : f[a] = CHOOSE i \in P : Rank(P, i) = a
  OBVIOUS
<1> HIDE DEF f
<1>12. QED
  BY <1>1, <1>3, <1>8, <1>9, <1>10, <1>11

-----------------------------------------------------------------------------
(* Queues.                                                                 *)

At(s) == 1..Len(queue[s])

\* What a connection has waiting is a sequence of commands, whose names Redis knows.
LEMMA QueueType ==
    ASSUME TypeOK, NEW s \in Service
    PROVE  /\ queue[s] \in Seq(Command) /\ Len(queue[s]) \in Nat /\ DOMAIN queue[s] = At(s)
           /\ \A i \in At(s) :
                 /\ queue[s][i] \in Command
                 /\ queue[s][i].op \in Ops /\ queue[s][i].id \in 1..MaxCommands
                 /\ queue[s][i].name \in Name /\ queue[s][i].done \in BOOLEAN
                 /\ queue[s][i].says \in {"none", "ok", "no", "failed"} /\ queue[s][i].gen \in Nat
<1>1. queue[s] \in Seq(Command)
  BY DEF TypeOK
<1>2. Len(queue[s]) \in Nat /\ DOMAIN queue[s] = At(s)
  BY <1>1, LenProperties DEF At
<1>3. ASSUME NEW i \in At(s) PROVE queue[s][i] \in Command
  BY <1>1, ElementOfSeq DEF At
<1>4. QED
  BY <1>1, <1>2, <1>3 DEF Command

\* A queue with one of its commands replaced by another command, one more at its end, or
\* without its first, is a queue.
LEMMA QueueStep ==
    ASSUME TypeOK, NEW s \in Service, NEW q \in Seq(Command), queue' = [queue EXCEPT ![s] = q]
    PROVE  /\ queue' \in [Service -> Seq(Command)] /\ queue'[s] = q
           /\ \A t \in Service : t # s => queue'[t] = queue[t]
BY DEF TypeOK

\* A queue has got one command more, at its end.
Appended(s, op, id, n) ==
    /\ queue' \in [Service -> Seq(Command)]
    /\ \A t \in Service : t # s => queue'[t] = queue[t]
    /\ Len(queue'[s]) = Len(queue[s]) + 1
    /\ \A i \in At(s) : queue'[s][i] = queue[s][i]
    /\ LET c == queue'[s][Len(queue[s]) + 1] IN
          c.op = op /\ c.id = id /\ c.name = n /\ c.done = FALSE

\* A command sent goes behind the others.
LEMMA SendStep ==
    ASSUME TypeOK, NEW s \in Service, NEW op \in Ops, NEW id \in 1..MaxCommands, NEW n \in Name,
           Send(s, op, id, n)
    PROVE  Appended(s, op, id, n)
<1> DEFINE c == [op |-> op, id |-> id, name |-> n, done |-> FALSE, says |-> "none", gen |-> 0]
<1>1. c \in Command
  BY DEF Command
<1>2. c.op = op /\ c.id = id /\ c.name = n /\ c.done = FALSE
  OBVIOUS
<1>3. queue' = [queue EXCEPT ![s] = Append(queue[s], c)]
  BY DEF Send, TypeOK
<1> HIDE DEF c
<1>4. /\ Append(queue[s], c) \in Seq(Command)
      /\ Len(Append(queue[s], c)) = Len(queue[s]) + 1
      /\ \A i \in At(s) : Append(queue[s], c)[i] = queue[s][i]
      /\ Append(queue[s], c)[Len(queue[s]) + 1] = c
  BY <1>1, QueueType, AppendProperties DEF At
<1>5. QED
  BY <1>2, <1>3, <1>4, QueueStep DEF Appended

\* An entry of no type is no entry; a set is seen through one member.
WellFormed(e) == (e.type = "none" => e = NoEntry) /\ (e.type = "set" => e.num = 1)

\* What a command makes of an entry.  Unless the value is renewed, nothing is lost of it;
\* what counts adds one, setNX makes a value of nothing, an overwriting command leaves
\* its own value or none.
LEMMA AfterStep ==
    ASSUME NEW op \in Ops, NEW id \in 1..MaxCommands, NEW e \in Entry, WellFormed(e)
    PROVE  /\ After(op, id, e) \in Entry /\ WellFormed(After(op, id, e))
           /\ Says(op, e) \in {"failed", "no", "ok"}
           /\ ~Renews(op, e) => /\ After(op, id, e).num >= e.num
                                /\ e # NoEntry => After(op, id, e) # NoEntry
           /\ op \in Counts /\ Says(op, e) = "ok" =>
                 ~Renews(op, e) /\ After(op, id, e).num = e.num + 1
           /\ op = "setNX" /\ Says(op, e) = "ok" =>
                 e = NoEntry /\ After(op, id, e) # NoEntry
           /\ op \in Overwrites => After(op, id, e) = NoEntry \/ After(op, id, e).num = id
           /\ op = "read" => After(op, id, e) = e
<1> DEFINE a == After(op, id, e)
<1>e. /\ e.type \in {"none", "string", "hash", "set"} /\ e.num \in Nat /\ e.ttl \in 0..Ttl
      /\ e = [type |-> e.type, num |-> e.num, ttl |-> e.ttl]
      /\ id \in Nat /\ id # 0 /\ Ttl \in Nat /\ Ttl # 0
  BY TtlAssumption, BoundAssumption DEF Entry
<1>n. NoEntry.type = "none" /\ NoEntry.num = 0 /\ NoEntry.ttl = 0 /\ NoEntry \in Entry
  BY TtlAssumption DEF NoEntry, Entry
<1>s. op \in {"set", "setEX", "setNX", "incr", "increaseDeliveryCount", "hSet", "hSetWithExpire",
              "hIncrBy", "hDel", "setAdd", "setRemove", "del", "expire", "read"}
  BY DEF Ops, StringOps, HashOps, SetOps, AnyOps
<1> USE DEF Counts, Overwrites, Renews, Says, WrongType
<1>t. /\ op \in {"set", "setEX", "setNX", "incr", "increaseDeliveryCount"} => Type(op) = "string"
      /\ op \in {"hSet", "hSetWithExpire", "hIncrBy", "hDel"} => Type(op) = "hash"
      /\ op \in {"setAdd", "setRemove"} => Type(op) = "set"
      /\ op \in {"del", "expire", "read"} => Type(op) = "any"
  BY DEF Type, StringOps, HashOps, SetOps
<1>1. CASE WrongType(op, e)
  <2>1. a = e
    BY <1>1 DEF After
  <2>2. op \notin {"set", "setEX", "setNX", "del", "expire", "read"}
    BY <1>1, <1>t
  <2> HIDE DEF a
  <2>3. QED
    BY <1>1, <2>1, <2>2, <1>e DEF a
<1>2. CASE ~WrongType(op, e) /\ op \in {"set", "setEX"}
  <2>1. a.type = "string" /\ a.num = id /\ a.ttl \in {0, Ttl} /\ a \in Entry
    <3>1. CASE op = "set"
      BY <1>2, <3>1, <1>e DEF After, Entry
    <3>2. CASE op = "setEX"
      <4>1. a = [type |-> "string", num |-> id, ttl |-> Ttl]
        BY <1>2, <3>2 DEF After
      <4>2. QED
        BY <4>1, <1>e DEF Entry
    <3>3. QED
      BY <1>2, <3>1, <3>2
  <2> HIDE DEF a
  <2>2. QED
    BY <1>2, <2>1, <1>e, <1>n DEF a, WellFormed
<1>3. CASE ~WrongType(op, e) /\ op = "setNX"
  <2>1. CASE e = NoEntry
    <3>1. a.type = "string" /\ a.num = id /\ a.ttl = 0 /\ a \in Entry
      BY <1>3, <2>1, <1>e DEF After, Entry
    <3> HIDE DEF a
    <3>2. QED
      BY <1>3, <2>1, <3>1, <1>e, <1>n DEF a, WellFormed
  <2>2. CASE e # NoEntry
    <3>1. a = e
      BY <1>3, <2>2 DEF After
    <3> HIDE DEF a
    <3>2. QED
      BY <1>3, <2>2, <3>1, <1>e DEF a
  <2>3. QED
    BY <2>1, <2>2
<1>4. CASE ~WrongType(op, e) /\ op \in {"incr", "increaseDeliveryCount", "hIncrBy"}
  <2>1. a.num = e.num + 1 /\ a.type \in {"string", "hash"} /\ a \in Entry
    <3>1. PICK t \in {"string", "hash"} : a = Plus(e, t) /\ Type(op) = t
      BY <1>4, <1>t DEF After
    <3> HIDE DEF a
    <3>2. CASE e.type = "none"
      BY <3>1, <3>2, <1>e, <1>n DEF Plus, Entry, WellFormed
    <3>3. CASE e.type # "none"
      <4>1. e.type = t
        BY <1>4, <3>1, <3>3
      <4>2. QED
        BY <3>1, <3>3, <4>1, <1>e DEF Plus, Entry
    <3>4. QED
      BY <3>2, <3>3
  <2> HIDE DEF a
  <2>2. QED
    BY <1>4, <2>1, <1>e, <1>n DEF a, WellFormed
<1>5. CASE ~WrongType(op, e) /\ op \in {"hSet", "hSetWithExpire", "hDel", "setRemove", "del"}
  <2>1. \/ op \in {"hSet", "hSetWithExpire"} /\ a.type = "hash" /\ a.num = id /\ a.ttl \in 0..Ttl /\ a \in Entry
        \/ a = NoEntry
    <3>1. CASE op = "hSet"
      BY <1>5, <3>1, <1>e DEF After, Entry
    <3>2. CASE op = "hSetWithExpire"
      <4>1. a = [type |-> "hash", num |-> id, ttl |-> Ttl]
        BY <1>5, <3>2 DEF After
      <4>2. QED
        BY <3>2, <4>1, <1>e DEF Entry
    <3>3. CASE op \in {"hDel", "setRemove", "del"}
      BY <1>5, <3>3 DEF After
    <3>4. QED
      BY <1>5, <3>1, <3>2, <3>3
  <2> HIDE DEF a
  <2>2. e = NoEntry => a # NoEntry \/ a.num = 0
    BY <2>1, <1>n
  <2>3. QED
    BY <1>5, <2>1, <2>2, <1>e, <1>n DEF a, WellFormed
<1>6. CASE ~WrongType(op, e) /\ op = "setAdd"
  <2>1. a.type = "set" /\ a.num = 1 /\ a \in Entry
    BY <1>6, <1>e DEF After, Entry
  <2>2. e.num <= 1
    BY <1>6, <1>t, <1>e, <1>n DEF WellFormed
  <2> HIDE DEF a
  <2>3. QED
    BY <1>6, <2>1, <2>2, <1>e, <1>n DEF a, WellFormed
<1>7. CASE ~WrongType(op, e) /\ op = "expire"
  <2>1. a.type = e.type /\ a.num = e.num /\ a \in Entry /\ (e = NoEntry => a = e) /\ (e # NoEntry => a.type # "none")
    BY <1>7, <1>e, <1>n DEF After, Entry, WellFormed
  <2> HIDE DEF a
  <2>2. QED
    BY <1>7, <2>1, <1>e, <1>n DEF a, WellFormed
<1>8. CASE ~WrongType(op, e) /\ op = "read"
  <2>1. a = e
    BY <1>8 DEF After
  <2> HIDE DEF a
  <2>2. QED
    BY <1>8, <2>1, <1>e DEF a
<1>9. QED
  BY <1>1, <1>2, <1>3, <1>4, <1>5, <1>6, <1>7, <1>8, <1>s

\* Redis executes one command: the oldest not executed, on the entry under its name.
Executed(s, i) ==
    LET c == queue[s][i]
        d == queue'[s][i]
        e == db[c.name]
    IN  /\ c.done = FALSE /\ \A j \in At(s) : j < i => queue[s][j].done
        /\ queue' \in [Service -> Seq(Command)]
        /\ \A t \in Service : t # s => queue'[t] = queue[t]
        /\ Len(queue'[s]) = Len(queue[s])
        /\ \A j \in At(s) : j # i => queue'[s][j] = queue[s][j]
        /\ d.op = c.op /\ d.id = c.id /\ d.name = c.name /\ d.done = TRUE
        /\ d.says = Says(c.op, e) /\ d.gen = gen[c.name]
        /\ db' = [db EXCEPT ![c.name] = After(c.op, c.id, e)]
        /\ gen' = [gen EXCEPT ![c.name] = IF Renews(c.op, e) THEN @ + 1 ELSE @]
        /\ acked' = [acked EXCEPT ![c.name] = IF Renews(c.op, e) THEN 0 ELSE @]
        /\ UNCHANGED <<result, calls, losses, granted, last, orphaned>>

\* Execute is that of one position.
LEMMA ExecuteStep ==
    ASSUME TypeOK, NEW s \in Service, Execute(s), \A n \in Name : WellFormed(db[n])
    PROVE  \E i \in At(s) : Executed(s, i)
<1>q. queue[s] \in Seq(Command) /\ Len(queue[s]) \in Nat /\ DOMAIN queue[s] = At(s)
  BY QueueType
<1>1. PICK i \in At(s) :
        LET c == queue[s][i]
            e == db[c.name]
            fresh == Renews(c.op, e)
        IN  /\ ~c.done /\ \A j \in 1..(i - 1) : queue[s][j].done
            /\ db' = [db EXCEPT ![c.name] = After(c.op, c.id, e)]
            /\ gen' = IF fresh THEN [gen EXCEPT ![c.name] = @ + 1] ELSE gen
            /\ acked' = IF fresh THEN [acked EXCEPT ![c.name] = 0] ELSE acked
            /\ queue' = [queue EXCEPT ![s][i] =
                  [c EXCEPT !.done = TRUE, !.says = Says(c.op, e), !.gen = gen[c.name]]]
            /\ UNCHANGED <<result, calls, losses, granted, last, orphaned>>
  BY <1>q DEF Execute
<1> DEFINE c == queue[s][i]
           e == db[c.name]
           d == [c EXCEPT !.done = TRUE, !.says = Says(c.op, e), !.gen = gen[c.name]]
           q == [queue[s] EXCEPT ![i] = d]
<1>2. /\ c \in Command /\ c.op \in Ops /\ c.id \in 1..MaxCommands /\ c.name \in Name /\ c.done \in BOOLEAN
      /\ i \in Int
  BY QueueType, <1>q DEF At
<1>3. e \in Entry /\ WellFormed(e) /\ gen[c.name] \in Nat
  BY <1>2 DEF TypeOK
<1>4. Says(c.op, e) \in {"failed", "no", "ok"}
  BY <1>2, <1>3, AfterStep
<1>5. /\ d \in Command /\ d.op = c.op /\ d.id = c.id /\ d.name = c.name /\ d.done = TRUE
      /\ d.says = Says(c.op, e) /\ d.gen = gen[c.name]
  <2> HIDE DEF e
  <2>1. QED
    BY <1>2, <1>3, <1>4 DEF Command
<1>6. queue' = [queue EXCEPT ![s] = q]
  BY <1>1 DEF TypeOK
<1> HIDE DEF d
<1>7. /\ q \in Seq(Command) /\ Len(q) = Len(queue[s])
      /\ \A j \in At(s) : q[j] = IF j = i THEN d ELSE queue[s][j]
  BY <1>q, <1>5, ExceptSeq DEF At
<1> HIDE DEF q
<1>8. /\ queue' \in [Service -> Seq(Command)] /\ queue'[s] = q
      /\ \A t \in Service : t # s => queue'[t] = queue[t]
  BY <1>6, <1>7, QueueStep
<1>9. \A j \in At(s) : j < i => queue[s][j].done
  <2>1. \A j \in At(s) : j < i => j \in 1..(i - 1)
    BY <1>q, <1>2 DEF At
  <2>2. QED
    BY <1>1, <2>1
<1>10. /\ gen' = [gen EXCEPT ![c.name] = IF Renews(c.op, e) THEN @ + 1 ELSE @]
       /\ acked' = [acked EXCEPT ![c.name] = IF Renews(c.op, e) THEN 0 ELSE @]
  BY <1>1, <1>2 DEF TypeOK
<1>11. c.done = FALSE
  BY <1>1, <1>2
<1>12. /\ Len(queue'[s]) = Len(queue[s])
       /\ \A j \in At(s) : j # i => queue'[s][j] = queue[s][j]
       /\ queue'[s][i] = d
  BY <1>7, <1>8
<1>13. /\ db' = [db EXCEPT ![c.name] = After(c.op, c.id, e)]
       /\ UNCHANGED <<result, calls, losses, granted, last, orphaned>>
  BY <1>1
<1>14. Executed(s, i)
  BY <1>5, <1>8, <1>9, <1>10, <1>11, <1>12, <1>13 DEF Executed
<1>15. QED
  BY <1>14

\* The reply to the oldest command is received, and EXPIRE sent behind the others if need be.
Told(s)   == queue[s][1].op # "expire" /\ result[queue[s][1].id] = "none"
GoesOn(s) == queue[s][1].op = "increaseDeliveryCount" /\ Told(s) /\ queue[s][1].says = "ok"

Received(s) ==
    LET c == queue[s][1]
        l == Len(queue[s])
    IN  /\ l \in Nat \ {0} /\ c.done
        /\ queue' \in [Service -> Seq(Command)]
        /\ \A t \in Service : t # s => queue'[t] = queue[t]
        /\ Len(queue'[s]) = IF GoesOn(s) THEN l ELSE l - 1
        /\ \A j \in 1..(l - 1) : queue'[s][j] = queue[s][j + 1]
        /\ GoesOn(s) => LET d == queue'[s][l] IN
              d.op = "expire" /\ d.id = c.id /\ d.name = c.name /\ d.done = FALSE /\ d.gen = c.gen
        /\ result' = IF Told(s) THEN [result EXCEPT ![c.id] = "told"] ELSE result
        /\ acked' = IF Told(s) /\ c.op \in Counts /\ c.says = "ok" /\ c.gen = gen[c.name]
                    THEN [acked EXCEPT ![c.name] = @ + 1] ELSE acked
        /\ granted' = IF Told(s) /\ c.op = "setNX" /\ c.says = "ok"
                      THEN granted \cup {<<c.id, c.name, c.gen>>} ELSE granted
        /\ UNCHANGED <<db, calls, losses, gen, last, orphaned>>

\* Receive does that.
LEMMA ReceiveStep ==
    ASSUME TypeOK, NEW s \in Service, Receive(s)
    PROVE  Received(s)
<1> DEFINE c == queue[s][1]
           l == Len(queue[s])
           d == [c EXCEPT !.op = "expire", !.name = ExpireName(c), !.done = FALSE]
           tail == Tail(queue[s])
<1>q. queue[s] \in Seq(Command) /\ l \in Nat /\ queue[s] # <<>> /\ c.done
  BY QueueType DEF Receive
<1>1. l \in Nat \ {0} /\ 1 \in At(s)
  BY <1>q, EmptySeq DEF At
<1>2. c \in Command /\ c.op \in Ops /\ c.id \in 1..MaxCommands /\ c.name \in Name
  BY <1>1, QueueType
<1>3. d \in Command /\ d.op = "expire" /\ d.id = c.id /\ d.name = c.name /\ d.done = FALSE /\ d.gen = c.gen
  BY <1>2 DEF Command, ExpireName, Ops, AnyOps
<1> HIDE DEF d
<1>4. tail \in Seq(Command) /\ Len(tail) = l - 1 /\ \A j \in 1..(l - 1) : tail[j] = queue[s][j + 1]
  BY <1>q, HeadTailProperties
<1>5. /\ Append(tail, d) \in Seq(Command) /\ Len(Append(tail, d)) = l
      /\ \A j \in 1..(l - 1) : Append(tail, d)[j] = queue[s][j + 1]
      /\ Append(tail, d)[l] = d
  <2>1. /\ Append(tail, d) \in Seq(Command) /\ Len(Append(tail, d)) = (l - 1) + 1
        /\ \A j \in 1..(l - 1) : Append(tail, d)[j] = tail[j]
        /\ Append(tail, d)[(l - 1) + 1] = d
    <3> HIDE DEF tail, l
    <3>1. QED
      BY <1>3, <1>4, AppendProperties
  <2>2. (l - 1) + 1 = l
    BY <1>q
  <2>3. QED
    BY <1>4, <2>1, <2>2
<1>6. queue' = IF GoesOn(s) THEN [queue EXCEPT ![s] = Append(tail, d)] ELSE [queue EXCEPT ![s] = tail]
  BY DEF Receive, GoesOn, Told, TypeOK, d
<1>7. /\ queue' \in [Service -> Seq(Command)]
      /\ \A t \in Service : t # s => queue'[t] = queue[t]
      /\ queue'[s] = IF GoesOn(s) THEN Append(tail, d) ELSE tail
  <2> HIDE DEF tail
  <2>1. CASE GoesOn(s)
    BY <1>5, <1>6, <2>1, QueueStep
  <2>2. CASE ~GoesOn(s)
    BY <1>4, <1>6, <2>2, QueueStep
  <2>3. QED
    BY <2>1, <2>2
<1>8. result' = IF Told(s) THEN [result EXCEPT ![c.id] = "told"] ELSE result
  BY DEF Receive, Tell, Told
<1>9. /\ acked' = IF Told(s) /\ c.op \in Counts /\ c.says = "ok" /\ c.gen = gen[c.name]
                  THEN [acked EXCEPT ![c.name] = @ + 1] ELSE acked
      /\ granted' = IF Told(s) /\ c.op = "setNX" /\ c.says = "ok"
                    THEN granted \cup {<<c.id, c.name, c.gen>>} ELSE granted
      /\ UNCHANGED <<db, calls, losses, gen, last, orphaned>>
  BY DEF Receive, Told
<1> HIDE DEF tail
<1>10. QED
  BY <1>q, <1>1, <1>3, <1>4, <1>5, <1>7, <1>8, <1>9 DEF Received

\* A lost connection: of the first m commands what is not a MULTI is to be executed
\* again, in the order it had.  f gives the position each command kept had.
Resent(s, m, f) ==
    /\ queue' \in [Service -> Seq(Command)]
    /\ \A t \in Service : t # s => queue'[t] = queue[t]
    /\ Len(queue'[s]) \in Nat
    /\ f \in [1..Len(queue'[s]) -> At(s)]
    /\ \A a, b \in 1..Len(queue'[s]) : a < b => f[a] < f[b]
    /\ \A i \in 1..m : queue[s][i].op # "hSetWithExpire" => \E a \in 1..Len(queue'[s]) : f[a] = i
    /\ \A a \in 1..Len(queue'[s]) :
          LET c == queue[s][f[a]]
              d == queue'[s][a]
          IN  d.op = c.op /\ d.id = c.id /\ d.name = c.name /\ d.done = FALSE

\* Reconnect does that.
LEMMA ReconnectStep ==
    ASSUME TypeOK, NEW s \in Service, NEW m \in 0..Len(queue[s]), Reconnect(s, m)
    PROVE  /\ \E f : Resent(s, m, f)
           /\ result' \in [1..MaxCommands -> Answer]
           /\ acked' = acked
<1> DEFINE cs == queue[s]
           P == {i \in 1..m : queue[s][i].op # "hSetWithExpire"}
           k == Cardinality(P)
           kept == Kept(cs, P)
           q == Again(kept)
<1>q. cs \in Seq(Command) /\ Len(cs) \in Nat /\ DOMAIN cs = At(s) /\ P \in SUBSET (1..Len(cs))
  BY QueueType DEF At
<1>1. k \in Nat
  BY <1>q, KeptOrder
<1>2. PICK f \in [1..k -> P] :
        /\ \A a \in 1..k : f[a] = CHOOSE i \in P : Rank(P, i) = a
        /\ \A a, b \in 1..k : a < b => f[a] < f[b]
        /\ \A i \in P : \E a \in 1..k : f[a] = i
  <2> HIDE DEF P
  <2>1. QED
    BY <1>q, KeptOrder
<1>3. kept = [a \in 1..k |-> cs[f[a]]]
  <2> HIDE DEF P
  <2>1. kept = [a \in 1..k |-> cs[CHOOSE i \in P : Rank(P, i) = a]]
    BY DEF Kept
  <2>2. \A a \in 1..k : cs[CHOOSE i \in P : Rank(P, i) = a] = cs[f[a]]
    BY <1>2
  <2> HIDE DEF kept, k
  <2>3. QED
    BY <2>1, <2>2
<1> HIDE DEF kept
<1>4. q = [a \in 1..k |-> [cs[f[a]] EXCEPT !.done = FALSE, !.says = "none"]]
  BY <1>3 DEF Again
<1> HIDE DEF q
<1>5. ASSUME NEW a \in 1..k
      PROVE  LET c == queue[s][f[a]] IN
             q[a] \in Command /\ q[a].op = c.op /\ q[a].id = c.id /\ q[a].name = c.name /\ q[a].done = FALSE
  <2>0. f[a] \in At(s)
    <3> HIDE DEF P, k
    <3>1. QED
      BY <1>2, <1>q DEF At
  <2>1. f[a] \in At(s) /\ cs[f[a]] \in Command
    BY <2>0, QueueType
  <2>2. q[a] = [cs[f[a]] EXCEPT !.done = FALSE, !.says = "none"]
    BY <1>4
  <2>3. QED
    BY <2>1, <2>2 DEF Command
<1>6. q \in [1..k -> Command]
  BY <1>4, <1>5
<1>7. q \in Seq(Command) /\ Len(q) = k
  <2>1. q \in Seq(Command)
    <3> HIDE DEF k
    <3>1. Seq(Command) = UNION {[1..n -> Command] : n \in Nat}
      BY SeqDef
    <3>2. QED
      BY <1>1, <1>6, <3>1
  <2>2. DOMAIN q = 1..k
    BY <1>6
  <2>3. QED
    BY <1>1, <2>1, <2>2, LenProperties
<1>8. queue' = [queue EXCEPT ![s] = q]
  BY DEF Reconnect, q, kept, TypeOK
<1>9. queue' \in [Service -> Seq(Command)] /\ queue'[s] = q /\ \A t \in Service : t # s => queue'[t] = queue[t]
  BY <1>7, <1>8, QueueStep
<1>10. f \in [1..k -> At(s)]
  BY <1>2, <1>q
<1>11. \A i \in 1..m : queue[s][i].op # "hSetWithExpire" => \E a \in 1..k : f[a] = i
  BY <1>2, <1>q
<1>12. Resent(s, m, f)
  <2> HIDE DEF P, k
  <2>1. QED
    BY <1>1, <1>2, <1>5, <1>7, <1>9, <1>10, <1>11 DEF Resent
<1>13. result' \in [1..MaxCommands -> Answer] /\ acked' = acked
  <2>1. result \in [1..MaxCommands -> Answer] /\ {"none", "told", "rejected"} \subseteq Answer
    BY DEF TypeOK, Answer
  <2>2. QED
    BY <2>1 DEF Reconnect
<1>14. QED
  BY <1>12, <1>13

-----------------------------------------------------------------------------
(* Steps.                                                                  *)

\* Entries are well formed.
Shaped == \A n \in Name : WellFormed(db[n])

\* A call sends its command and takes the next number.
Sent(s, op, k) ==
    LET n == NameOf(s, op, k)
        l == Len(queue[s])
        d == queue'[s][l + 1]
    IN  /\ n \in Name /\ n = <<IF op = "incr" THEN Raw ELSE s, k>>
        /\ (s = AmqpCache) <=> (op = "increaseDeliveryCount")
        /\ calls < MaxCommands /\ calls' = calls + 1
        /\ queue' \in [Service -> Seq(Command)]
        /\ \A t \in Service : t # s => queue'[t] = queue[t]
        /\ Len(queue'[s]) = l + 1
        /\ \A i \in At(s) : queue'[s][i] = queue[s][i]
        /\ d.op = op /\ d.id = calls' /\ d.name = n /\ d.done = FALSE
        /\ last' = [last EXCEPT ![n] = IF op = "read" THEN @ ELSE IF op \in Overwrites THEN calls' ELSE 0]
        /\ UNCHANGED <<db, result, losses, gen, acked, granted, orphaned>>

\* A lost connection changes nothing but what waits on it, tells of aborted MULTIs and
\* rejects the rest, whose writes are the last of nothing any more.
Gone(s, m) == {queue[s][i] : i \in At(s) \ (1..m)}

Lost(s, m, f) ==
    /\ losses < MaxLosses /\ losses' = losses + 1
    /\ m \in 0..Len(queue[s])
    /\ Resent(s, m, f)
    /\ result' \in [1..MaxCommands -> Answer]
    /\ last' = [n \in Name |-> IF \E c \in Gone(s, m) : c.id = last[n] THEN 0 ELSE last[n]]
    /\ orphaned' \subseteq Name
    /\ UNCHANGED <<db, calls, gen, acked, granted>>

\* A call that is given up, or nothing.
Quiet ==
    /\ result' \in [1..MaxCommands -> Answer]
    /\ orphaned' \subseteq Name
    /\ UNCHANGED <<db, queue, calls, losses, gen, acked, granted, last>>

Step ==
    \/ \E s \in Service, op \in Ops \ {"expire"}, k \in Key : Sent(s, op, k)
    \/ \E s \in Service : \E i \in At(s) : Executed(s, i)
    \/ \E s \in Service : Received(s)
    \/ \E s \in Service : \E m, f : Lost(s, m, f)
    \/ Tick
    \/ Crash
    \/ Quiet

\* What each of them leaves alone, of entries, values, calls and last writes.
LEMMA Frames ==
    /\ \A s \in Service, op \in Ops \ {"expire"}, k \in Key :
          Sent(s, op, k) => calls' = calls + 1 /\ UNCHANGED <<db, gen>>
    /\ \A s \in Service : \A i \in At(s) : Executed(s, i) => UNCHANGED <<calls, last>>
    /\ \A s \in Service : Received(s) => UNCHANGED <<db, gen, calls, last>>
    /\ \A s \in Service : \A m, f : Lost(s, m, f) => UNCHANGED <<db, gen, calls>>
    /\ Tick => UNCHANGED <<calls, last>>
    /\ Crash => UNCHANGED <<db, gen, calls>>
    /\ Quiet => UNCHANGED <<db, gen, calls, last>>
<1>1. ASSUME NEW s \in Service, NEW op \in Ops \ {"expire"}, NEW k \in Key, Sent(s, op, k)
      PROVE  calls' = calls + 1 /\ UNCHANGED <<db, gen>>
  BY <1>1 DEF Sent
<1>2. ASSUME NEW s \in Service, NEW i \in At(s), Executed(s, i)
      PROVE  UNCHANGED <<calls, last>>
  BY <1>2 DEF Executed
<1>3. ASSUME NEW s \in Service, Received(s)
      PROVE  UNCHANGED <<db, gen, calls, last>>
  BY <1>3 DEF Received
<1>4. ASSUME NEW s \in Service, NEW m, NEW f, Lost(s, m, f)
      PROVE  UNCHANGED <<db, gen, calls>>
  BY <1>4 DEF Lost
<1>5. Tick => UNCHANGED <<calls, last>>
  BY DEF Tick
<1>6. Crash => UNCHANGED <<db, gen, calls>>
  BY DEF Crash
<1>7. Quiet => UNCHANGED <<db, gen, calls, last>>
  BY DEF Quiet
<1>8. QED
  BY <1>1, <1>2, <1>3, <1>4, <1>5, <1>6, <1>7

\* Every step is one of these.
LEMMA Steps ==
    ASSUME TypeOK, Shaped, [Next]_vars
    PROVE  Step
<1>1. CASE \E s \in Service, op \in Called, k \in Key : Call(s, op, k)
  <2>1. PICK s \in Service, op \in Called, k \in Key : Call(s, op, k)
    BY <1>1
  <2>2. op \in Ops \ {"expire"} /\ op \in Ops
    BY CalledAssumption
  <2> DEFINE n == NameOf(s, op, k)
  <2>3. n \in Name /\ n = <<IF op = "incr" THEN Raw ELSE s, k>>
    BY DEF NameOf, cacheKey, Name
  <2>4. calls \in 0..MaxCommands /\ calls < MaxCommands /\ calls' = calls + 1 /\ calls + 1 \in 1..MaxCommands
    BY <2>1, BoundAssumption DEF Call, TypeOK
  <2>5. Send(s, op, calls + 1, n)
    BY <2>1 DEF Call
  <2> HIDE DEF n
  <2>6. /\ queue' \in [Service -> Seq(Command)]
        /\ \A t \in Service : t # s => queue'[t] = queue[t]
        /\ Len(queue'[s]) = Len(queue[s]) + 1
        /\ \A i \in At(s) : queue'[s][i] = queue[s][i]
        /\ LET d == queue'[s][Len(queue[s]) + 1] IN
              d.op = op /\ d.id = calls + 1 /\ d.name = n /\ d.done = FALSE
    <3> DEFINE id == calls + 1
    <3>1. id \in 1..MaxCommands /\ Send(s, op, id, n)
      BY <2>4, <2>5
    <3> HIDE DEF id
    <3>2. Appended(s, op, id, n)
      BY <2>2, <2>3, <3>1, SendStep
    <3>3. QED
      BY <3>2 DEF Appended, id
  <2>7. last' = [last EXCEPT ![n] = IF op = "read" THEN @ ELSE IF op \in Overwrites THEN calls' ELSE 0]
    BY <2>1, <2>4 DEF Call, TypeOK, n
  <2>8. (s = AmqpCache) <=> (op = "increaseDeliveryCount")
    BY <2>1 DEF Call
  <2>9. UNCHANGED <<db, result, losses, gen, acked, granted, orphaned>>
    BY <2>1 DEF Call
  <2>10. Sent(s, op, k)
    BY <2>3, <2>4, <2>6, <2>7, <2>8, <2>9 DEF Sent, n
  <2>11. QED
    BY <2>2, <2>10 DEF Step
<1>2. CASE \E s \in Service : Execute(s)
  <2>1. \E s \in Service : \E i \in At(s) : Executed(s, i)
    BY <1>2, ExecuteStep DEF Shaped
  <2>2. QED
    BY <2>1 DEF Step
<1>3. CASE \E s \in Service : Receive(s)
  BY <1>3, ReceiveStep DEF Step
<1>4. CASE \E s \in Service : TimeOut(s)
  <2>1. Quiet
    <3>1. PICK s \in Service : TimeOut(s)
      BY <1>4
    <3>2. PICK i \in DOMAIN queue[s] : Tell(queue[s][i].id, "timeout")
      BY <3>1 DEF TimeOut
    <3>3. queue[s][i].id \in 1..MaxCommands
      BY <3>2, QueueType
    <3>4. result' \in [1..MaxCommands -> Answer]
      BY <3>2, <3>3 DEF Tell, TypeOK, Answer
    <3>5. orphaned' \subseteq Name
      <4>1. PICK j \in DOMAIN queue[s] : orphaned' = orphaned \cup Counters({queue[s][j]})
        BY <3>1 DEF TimeOut
      <4>2. queue[s][j].name \in Name
        BY <4>1, QueueType
      <4>3. QED
        BY <4>1, <4>2 DEF Counters, TypeOK
    <3>6. QED
      BY <3>1, <3>4, <3>5 DEF Quiet, TimeOut
  <2>2. QED
    BY <2>1 DEF Step
<1>5. CASE \E s \in Service : Lose(s)
  <2>1. PICK s \in Service : Lose(s)
    BY <1>5
  <2> DEFINE gone(m) == {queue[s][i] : i \in DOMAIN queue[s] \ (1..m)}
  <2>2. PICK m \in 0..Len(queue[s]) :
          /\ Reconnect(s, m)
          /\ last' = [n \in Name |-> IF \E c \in gone(m) : c.id = last[n] THEN 0 ELSE last[n]]
          /\ orphaned' = orphaned \cup Counters(gone(m))
    BY <2>1 DEF Lose
  <2>3. gone(m) = Gone(s, m)
    BY QueueType DEF Gone
  <2>4. orphaned' \subseteq Name
    <3>1. \A c \in Gone(s, m) : c.name \in Name
      BY QueueType DEF Gone
    <3> HIDE DEF gone
    <3>2. QED
      BY <2>2, <2>3, <3>1 DEF Counters, TypeOK
  <2> HIDE DEF gone
  <2>6. /\ \E f : Resent(s, m, f)
        /\ result' \in [1..MaxCommands -> Answer]
        /\ acked' = acked
    BY <2>2, ReconnectStep
  <2>7. losses < MaxLosses /\ losses' = losses + 1 /\ UNCHANGED <<db, calls, gen, granted>>
    BY <2>1 DEF Lose
  <2>8. \E f : Lost(s, m, f)
    BY <2>2, <2>3, <2>4, <2>6, <2>7 DEF Lost
  <2>5. QED
    BY <2>8 DEF Step
<1>6. CASE Tick
  BY <1>6 DEF Step
<1>7. CASE Crash
  BY <1>7 DEF Step
<1>8. CASE UNCHANGED vars
  <2>1. Quiet
    BY <1>8 DEF vars, Quiet, TypeOK
  <2>2. QED
    BY <2>1 DEF Step
<1>9. QED
  BY <1>1, <1>2, <1>3, <1>4, <1>5, <1>6, <1>7, <1>8 DEF Next

-----------------------------------------------------------------------------
(* Types.                                                                  *)

TInv == TypeOK /\ Shaped

\* Nothing has been sent, and there is no entry.
LEMMA InitTypes ==
    ASSUME Init
    PROVE  TInv
<1>1. NoEntry \in Entry /\ WellFormed(NoEntry)
  BY TtlAssumption DEF NoEntry, Entry, WellFormed
<1>2. <<>> \in Seq(Command)
  BY EmptySeq
<1>3. db \in [Name -> Entry] /\ Shaped
  BY <1>1 DEF Init, Shaped
<1>4. queue \in [Service -> Seq(Command)]
  BY <1>2 DEF Init
<1>5. calls \in 0..MaxCommands /\ losses \in 0..MaxLosses /\ 0 \in 0..MaxCommands
  BY BoundAssumption DEF Init
<1>6. /\ result \in [1..MaxCommands -> Answer]
      /\ gen \in [Name -> Nat] /\ acked \in [Name -> Nat]
      /\ last \in [Name -> 0..MaxCommands]
  BY <1>5 DEF Init, Answer
<1>7. granted \subseteq (1..MaxCommands) \X Name \X Nat /\ orphaned \subseteq Name
  BY DEF Init
<1>8. QED
  BY <1>3, <1>4, <1>5, <1>6, <1>7 DEF TInv, TypeOK

\* What a step makes of entries, numbers and histories is of their kind.
LEMMA StepTypes ==
    ASSUME TInv, Step
    PROVE  TInv'
<1>t. TypeOK /\ Shaped /\ MaxCommands \in Nat /\ MaxLosses \in Nat
  BY BoundAssumption DEF TInv
<1>n. NoEntry \in Entry /\ WellFormed(NoEntry)
  BY TtlAssumption DEF NoEntry, Entry, WellFormed
<1>1. ASSUME NEW s \in Service, NEW op \in Ops \ {"expire"}, NEW k \in Key, Sent(s, op, k)
      PROVE  TInv'
  <2>1. calls' \in 0..MaxCommands
    BY <1>t, <1>1 DEF TypeOK, Sent
  <2>2. last' \in [Name -> 0..MaxCommands]
    BY <1>t, <1>1, <2>1 DEF TypeOK, Sent
  <2>3. QED
    BY <1>t, <1>1, <2>1, <2>2 DEF TypeOK, Shaped, TInv, Sent
<1>2. ASSUME NEW s \in Service, NEW i \in At(s), Executed(s, i)
      PROVE  TInv'
  <2> DEFINE c == queue[s][i]
             a == After(c.op, c.id, db[c.name])
  <2>1. c.op \in Ops /\ c.id \in 1..MaxCommands /\ c.name \in Name
    BY <1>t, QueueType
  <2>2. db[c.name] \in Entry /\ WellFormed(db[c.name])
    BY <1>t, <2>1 DEF TypeOK, Shaped
  <2>3. a \in Entry /\ WellFormed(a)
    BY <2>1, <2>2, AfterStep
  <2>4. db' = [db EXCEPT ![c.name] = a]
    BY <1>2 DEF Executed
  <2> HIDE DEF a
  <2>5. db' \in [Name -> Entry] /\ Shaped'
    BY <1>t, <2>1, <2>3, <2>4 DEF TypeOK, Shaped
  <2>6. gen' \in [Name -> Nat] /\ acked' \in [Name -> Nat]
    BY <1>t, <1>2, <2>1 DEF TypeOK, Executed
  <2>7. QED
    BY <1>t, <1>2, <2>5, <2>6 DEF TypeOK, TInv, Executed
<1>3. ASSUME NEW s \in Service, Received(s)
      PROVE  TInv'
  <2> DEFINE c == queue[s][1]
  <2>1. c.op \in Ops /\ c.id \in 1..MaxCommands /\ c.name \in Name /\ c.gen \in Nat
    <3>1. 1 \in At(s)
      BY <1>3 DEF Received, At
    <3>2. QED
      BY <1>t, <3>1, QueueType
  <2>r. /\ result' \in {result, [result EXCEPT ![c.id] = "told"]}
        /\ acked' \in {acked, [acked EXCEPT ![c.name] = @ + 1]}
        /\ granted' \in {granted, granted \cup {<<c.id, c.name, c.gen>>}}
    BY <1>3 DEF Received
  <2>t. /\ result \in [1..MaxCommands -> Answer] /\ acked \in [Name -> Nat]
        /\ granted \subseteq (1..MaxCommands) \X Name \X Nat
    BY <1>t DEF TypeOK
  <2> HIDE DEF c
  <2>2. result' \in [1..MaxCommands -> Answer]
    BY <2>r, <2>t DEF Answer
  <2>3. acked' \in [Name -> Nat]
    BY <2>r, <2>t
  <2>4. granted' \subseteq (1..MaxCommands) \X Name \X Nat
    BY <2>1, <2>r, <2>t
  <2>5. QED
    BY <1>t, <1>3, <2>2, <2>3, <2>4 DEF TypeOK, Shaped, TInv, Received
<1>4. ASSUME NEW s \in Service, NEW m, NEW f, Lost(s, m, f)
      PROVE  TInv'
  BY <1>t, <1>4 DEF TypeOK, Shaped, TInv, Lost, Resent
<1>5. CASE Tick
  <2>1. ASSUME NEW n \in Name
        PROVE  db'[n] \in Entry /\ WellFormed(db'[n])
    <3>1. db[n] \in Entry /\ WellFormed(db[n]) /\ Ttl \in Nat
      BY <1>t, TtlAssumption DEF TypeOK, Shaped
    <3>2. CASE db[n].ttl > 1
      <4>1. db'[n] = [db[n] EXCEPT !.ttl = @ - 1]
        BY <1>5, <3>2 DEF Tick
      <4>2. db'[n] \in Entry
        BY <3>1, <3>2, <4>1 DEF Entry
      <4>3. db[n].type # "none"
        BY <3>1, <3>2 DEF WellFormed, NoEntry
      <4>4. QED
        BY <3>1, <4>1, <4>2, <4>3 DEF WellFormed, Entry
    <3>3. CASE ~(db[n].ttl > 1)
      <4>1. db'[n] \in {db[n], NoEntry}
        BY <1>5, <3>3 DEF Tick
      <4>2. QED
        BY <1>n, <3>1, <4>1
    <3>4. QED
      BY <3>2, <3>3
  <2>2. db' \in [Name -> Entry] /\ Shaped'
    <3>1. db' = [n \in Name |-> db'[n]]
      BY <1>5 DEF Tick
    <3>2. QED
      BY <2>1, <3>1 DEF Shaped
  <2>3. gen' \in [Name -> Nat] /\ acked' \in [Name -> Nat]
    BY <1>t, <1>5 DEF TypeOK, Tick
  <2>4. QED
    BY <1>t, <1>5, <2>2, <2>3 DEF TypeOK, TInv, Tick
<1>6. CASE Crash
  <2>1. <<>> \in Seq(Command)
    BY EmptySeq
  <2>2. orphaned' \subseteq Name
    <3>1. \A s \in Service : \A i \in DOMAIN queue[s] : queue[s][i].name \in Name
      BY <1>t, QueueType
    <3>2. orphaned \subseteq Name
      BY <1>t DEF TypeOK
    <3>3. QED
      BY <1>6, <3>1, <3>2 DEF Counters, Crash
  <2>3. /\ queue' \in [Service -> Seq(Command)] /\ last' \in [Name -> 0..MaxCommands]
        /\ losses' \in 0..MaxLosses
        /\ UNCHANGED <<db, result, calls, gen, acked, granted>>
    BY <1>t, <1>6, <2>1 DEF TypeOK, Crash
  <2>4. QED
    BY <1>t, <2>2, <2>3 DEF TypeOK, Shaped, TInv
<1>7. CASE Quiet
  BY <1>t, <1>7 DEF TypeOK, Shaped, TInv, Quiet
<1>8. QED
  BY <1>1, <1>2, <1>3, <1>4, <1>5, <1>6, <1>7 DEF Step

\* TypeOK is an invariant, for any services, keys, methods called and bounds: queues
\* stay sequences of commands, also when they are built anew after a lost connection.
THEOREM TypeCorrect == Spec => []TypeOK
<1>1. Init => TInv
  BY InitTypes
<1>2. TInv /\ [Next]_vars => TInv'
  BY Steps, StepTypes DEF TInv
<1>3. TInv => TypeOK
  BY DEF TInv
<1>4. QED
  BY <1>1, <1>2, <1>3, PTL DEF Spec

-----------------------------------------------------------------------------
(* The order of a connection, and the names on it.                         *)

\* The positions after a step, where they are those before it, or one more or less.
LEMMA Positions ==
    ASSUME TInv, TInv', NEW s \in Service
    PROVE  /\ Len(queue[s]) \in Nat /\ Len(queue'[s]) \in Nat
           /\ \A i \in At(s) : i \in Int /\ 1 <= i /\ i <= Len(queue[s])
           /\ \A i \in At(s)' : i \in Int /\ 1 <= i /\ i <= Len(queue'[s])
           /\ Len(queue'[s]) = Len(queue[s]) => At(s)' = At(s)
           /\ Len(queue'[s]) = Len(queue[s]) + 1 => At(s)' = At(s) \cup {Len(queue[s]) + 1}
           /\ Len(queue'[s]) = Len(queue[s]) - 1 /\ Len(queue[s]) # 0 =>
                 At(s)' = 1..(Len(queue[s]) - 1)
<1>1. Len(queue[s]) \in Nat
  BY QueueType DEF TInv
<1>2. Len(queue'[s]) \in Nat
  <2>1. queue'[s] \in Seq(Command)
    BY DEF TInv, TypeOK
  <2>2. QED
    BY <2>1, LenProperties
<1>3. QED
  BY <1>1, <1>2 DEF At

\* A step leaves a queue as it is, or is a step of its service, or a crash.
LEMMA OneQueue ==
    ASSUME Step, NEW t \in Service
    PROVE  \/ queue'[t] = queue[t]
           \/ \E op \in Ops \ {"expire"}, k \in Key : Sent(t, op, k)
           \/ \E i \in At(t) : Executed(t, i)
           \/ Received(t)
           \/ \E m, f : Lost(t, m, f)
           \/ Crash
<1> SUFFICES ASSUME queue'[t] # queue[t], ~Crash
             PROVE  \/ \E op \in Ops \ {"expire"}, k \in Key : Sent(t, op, k)
                    \/ \E i \in At(t) : Executed(t, i)
                    \/ Received(t)
                    \/ \E m, f : Lost(t, m, f)
  OBVIOUS
<1>1. \A s \in Service, op \in Ops \ {"expire"}, k \in Key : Sent(s, op, k) => s = t
  BY DEF Sent
<1>2. \A s \in Service : \A i \in At(s) : Executed(s, i) => s = t
  BY DEF Executed
<1>3. \A s \in Service : Received(s) => s = t
  BY DEF Received
<1>4. \A s \in Service : \A m, f : Lost(s, m, f) => s = t
  BY DEF Lost, Resent
<1>5. ~Tick /\ ~Quiet
  BY DEF Tick, Quiet
<1>6. QED
  BY <1>1, <1>2, <1>3, <1>4, <1>5, Zenon DEF Step

\* Redis executes the commands of a connection in turn.
InTurn == \A s \in Service : \A i, j \in At(s) : j < i /\ queue[s][i].done => queue[s][j].done

\* A step leaves executed commands in front of the others.
LEMMA TurnKept ==
    ASSUME TInv, TInv', InTurn, Step
    PROVE  InTurn'
<1> SUFFICES ASSUME NEW t \in Service, NEW i \in At(t)', NEW j \in At(t)', j < i, queue'[t][i].done
             PROVE  queue'[t][j].done
  BY DEF InTurn
<1>p. /\ Len(queue[t]) \in Nat
      /\ \A m \in At(t) : m \in Int /\ 1 <= m /\ m <= Len(queue[t])
      /\ i \in Int /\ 1 <= i /\ i <= Len(queue'[t])
      /\ j \in Int /\ 1 <= j /\ j <= Len(queue'[t])
  BY Positions
<1>i. \A m, o \in At(t) : o < m /\ queue[t][m].done => queue[t][o].done
  BY DEF InTurn
<1>u. CASE queue'[t] = queue[t]
  BY <1>u, <1>i DEF At
<1>1. ASSUME NEW op \in Ops \ {"expire"}, NEW k \in Key, Sent(t, op, k)
      PROVE  queue'[t][j].done
  <2>1. i \in At(t) /\ j \in At(t)
    BY <1>1, <1>p DEF Sent, At
  <2>2. QED
    BY <1>1, <1>i, <2>1 DEF Sent
<1>2. ASSUME NEW m \in At(t), Executed(t, m)
      PROVE  queue'[t][j].done
  <2>1. i \in At(t) /\ j \in At(t) /\ m \in Int
    BY <1>2, <1>p DEF Executed, At
  <2>2. CASE i = m
    BY <1>2, <1>p, <2>1, <2>2 DEF Executed
  <2>3. CASE i # m
    <3>1. queue[t][i].done /\ queue[t][j].done
      BY <1>2, <1>i, <2>1, <2>3 DEF Executed
    <3>2. QED
      BY <1>2, <2>1, <3>1 DEF Executed
  <2>4. QED
    BY <2>2, <2>3
<1>3. ASSUME Received(t)
      PROVE  queue'[t][j].done
  <2> DEFINE l == Len(queue[t])
  <2>1. i \in 1..(l - 1)
    <3>1. i \in 1..(l - 1) \/ (i = l /\ GoesOn(t))
      BY <1>3, <1>p DEF Received
    <3>2. QED
      BY <1>3, <3>1 DEF Received
  <2>2. j \in 1..(l - 1) /\ i + 1 \in At(t) /\ j + 1 \in At(t) /\ j + 1 < i + 1
    BY <1>p, <2>1 DEF At
  <2>3. queue'[t][i] = queue[t][i + 1] /\ queue'[t][j] = queue[t][j + 1]
    BY <1>3, <2>1, <2>2 DEF Received
  <2>4. QED
    BY <1>i, <2>2, <2>3
<1>4. ASSUME NEW m, NEW f, Lost(t, m, f)
      PROVE  queue'[t][j].done
  BY <1>4 DEF Lost, Resent, At
<1>5. CASE Crash
  BY <1>5, <1>p, EmptySeq DEF Crash
<1>6. QED
  BY <1>1, <1>2, <1>3, <1>4, <1>5, <1>u, OneQueue

\* Where a command waiting after a step comes from: it waited before, or was called for
\* now, or is the EXPIRE after an INCR.  If it is executed, it was so before, or is now.
LEMMA Origin ==
    ASSUME TInv, TInv', Step, NEW t \in Service, NEW i \in At(t)'
    PROVE  LET d == queue'[t][i] IN
           /\ \/ \E j \in At(t) : d.op = queue[t][j].op /\ d.id = queue[t][j].id /\ d.name = queue[t][j].name
              \/ \E op \in Ops \ {"expire"}, k \in Key :
                    Sent(t, op, k) /\ d.op = op /\ d.id = calls' /\ d.name = NameOf(t, op, k) /\ ~d.done
              \/ /\ Received(t) /\ GoesOn(t) /\ d.op = "expire" /\ ~d.done
                 /\ d.id = queue[t][1].id /\ d.name = queue[t][1].name
           /\ d.done => \/ \E j \in At(t) : d = queue[t][j]
                        \/ i \in At(t) /\ Executed(t, i)
<1> DEFINE d == queue'[t][i]
           Goal == /\ \/ \E j \in At(t) : d.op = queue[t][j].op /\ d.id = queue[t][j].id /\ d.name = queue[t][j].name
                      \/ \E op \in Ops \ {"expire"}, k \in Key :
                            Sent(t, op, k) /\ d.op = op /\ d.id = calls' /\ d.name = NameOf(t, op, k) /\ ~d.done
                      \/ /\ Received(t) /\ GoesOn(t) /\ d.op = "expire" /\ ~d.done
                         /\ d.id = queue[t][1].id /\ d.name = queue[t][1].name
                   /\ d.done => \/ \E j \in At(t) : d = queue[t][j]
                                \/ i \in At(t) /\ Executed(t, i)
<1>p. /\ Len(queue[t]) \in Nat /\ Len(queue'[t]) \in Nat
      /\ i \in Int /\ 1 <= i /\ i <= Len(queue'[t])
  BY Positions
<1>u. ASSUME NEW j \in At(t), d = queue[t][j]
      PROVE  Goal
  BY <1>u
<1>1. ASSUME NEW op \in Ops \ {"expire"}, NEW k \in Key, Sent(t, op, k)
      PROVE  Goal
  <2>1. CASE i \in At(t)
    <3>1. d = queue[t][i]
      BY <1>1, <2>1 DEF Sent
    <3>2. QED
      BY <1>u, <2>1, <3>1
  <2>2. CASE i \notin At(t)
    <3>1. i = Len(queue[t]) + 1
      BY <1>1, <1>p, <2>2 DEF Sent, At
    <3>2. d.op = op /\ d.id = calls' /\ d.name = NameOf(t, op, k) /\ d.done = FALSE
      BY <1>1, <3>1 DEF Sent
    <3> HIDE DEF d
    <3>3. QED
      BY <1>1, <3>2
  <2>3. QED
    BY <2>1, <2>2
<1>2. ASSUME NEW m \in At(t), Executed(t, m)
      PROVE  Goal
  <2>1. i \in At(t)
    BY <1>2, <1>p DEF Executed, At
  <2>2. CASE i = m
    <3>1. d.op = queue[t][i].op /\ d.id = queue[t][i].id /\ d.name = queue[t][i].name
      BY <1>2, <2>2 DEF Executed
    <3>2. Executed(t, i)
      BY <1>2, <2>2
    <3>3. QED
      BY <2>1, <3>1, <3>2
  <2>3. CASE i # m
    <3>1. d = queue[t][i]
      BY <1>2, <2>1, <2>3 DEF Executed
    <3>2. QED
      BY <1>u, <2>1, <3>1
  <2>4. QED
    BY <2>2, <2>3
<1>3. ASSUME Received(t)
      PROVE  Goal
  <2> DEFINE l == Len(queue[t])
  <2>1. CASE i \in 1..(l - 1)
    <3>1. i + 1 \in At(t)
      BY <1>p, <2>1 DEF At
    <3>2. d = queue[t][i + 1]
      BY <1>3, <2>1 DEF Received
    <3>3. QED
      BY <1>u, <3>1, <3>2
  <2>2. CASE i \notin 1..(l - 1)
    <3>1. i = l /\ GoesOn(t)
      BY <1>3, <1>p, <2>2 DEF Received
    <3>2. d.op = "expire" /\ d.id = queue[t][1].id /\ d.name = queue[t][1].name /\ d.done = FALSE
      BY <1>3, <3>1 DEF Received
    <3> HIDE DEF d
    <3>3. QED
      BY <1>3, <3>1, <3>2
  <2>3. QED
    BY <2>1, <2>2
<1>4. ASSUME NEW m, NEW f, Lost(t, m, f)
      PROVE  Goal
  <2>1. /\ f[i] \in At(t) /\ d.op = queue[t][f[i]].op /\ d.id = queue[t][f[i]].id
        /\ d.name = queue[t][f[i]].name /\ d.done = FALSE
    BY <1>4 DEF Lost, Resent, At
  <2> HIDE DEF d
  <2>2. QED
    BY <2>1
<1>5. ASSUME Crash
      PROVE  FALSE
  BY <1>5, <1>p, EmptySeq DEF Crash
<1>6. ASSUME queue'[t] = queue[t]
      PROVE  Goal
  BY <1>6, <1>u DEF At
<1>7. Goal
  <2> HIDE DEF Goal
  <2>1. \/ queue'[t] = queue[t]
        \/ \E op \in Ops \ {"expire"}, k \in Key : Sent(t, op, k)
        \/ \E m \in At(t) : Executed(t, m)
        \/ Received(t)
        \/ \E m, f : Lost(t, m, f)
        \/ Crash
    BY OneQueue
  <2>2. QED
    BY <1>1, <1>2, <1>3, <1>4, <1>5, <1>6, <2>1
<1>8. QED
  BY <1>7

\* A service's commands are for its own names, or raw ones; the counter's INCR are on the
\* connection of AmqpCache, on whose names nothing else is called.
HomedAt(s, c) == c.name[1] \in {s, Raw} /\ (c.op = "increaseDeliveryCount" => s = AmqpCache)

Homed ==
    /\ \A s \in Service : \A i \in At(s) : HomedAt(s, queue[s][i])
    /\ \A k \in Key : last[<<AmqpCache, k>>] = 0

\* Calls see to that, EXPIRE is for the name of its INCR.
LEMMA HomedKept ==
    ASSUME TInv, TInv', Homed, Step
    PROVE  Homed'
<1>1. ASSUME NEW s \in Service, NEW i \in At(s)'
      PROVE  HomedAt(s, queue'[s][i])
  <2> DEFINE d == queue'[s][i]
  <2>1. CASE \E j \in At(s) : d.op = queue[s][j].op /\ d.name = queue[s][j].name
    BY <2>1 DEF Homed, HomedAt
  <2>2. CASE \E op \in Ops \ {"expire"}, k \in Key : Sent(s, op, k) /\ d.op = op /\ d.name = NameOf(s, op, k)
    <3>1. PICK op \in Ops \ {"expire"}, k \in Key : Sent(s, op, k) /\ d.op = op /\ d.name = NameOf(s, op, k)
      BY <2>2
    <3>2. d.name = <<IF op = "incr" THEN Raw ELSE s, k>> /\ (op = "increaseDeliveryCount" => s = AmqpCache)
      BY <3>1 DEF Sent
    <3> HIDE DEF d
    <3>3. QED
      BY <3>1, <3>2 DEF HomedAt, d
  <2>3. CASE Received(s) /\ d.op = "expire" /\ d.name = queue[s][1].name
    <3>1. 1 \in At(s)
      BY <2>3 DEF Received, At
    <3>2. QED
      BY <2>3, <3>1 DEF Homed, HomedAt
  <2> HIDE DEF d
  <2>4. QED
    BY <2>1, <2>2, <2>3, Origin DEF d
<1>2. ASSUME NEW k \in Key
      PROVE  last'[<<AmqpCache, k>>] = 0
  <2>1. <<AmqpCache, k>> \in Name /\ last[<<AmqpCache, k>>] = 0 /\ AmqpCache # Raw
    BY AmqpAssumption, RawAssumption DEF Name, Homed, Raw
  <2>2. ASSUME NEW s \in Service, NEW op \in Ops \ {"expire"}, NEW h \in Key, Sent(s, op, h)
        PROVE  last'[<<AmqpCache, k>>] = 0
    <3>1. CASE NameOf(s, op, h) = <<AmqpCache, k>>
      <4>1. s = AmqpCache
        BY <2>1, <2>2, <3>1 DEF Sent
      <4>2. op = "increaseDeliveryCount" /\ op \notin Overwrites
        BY <2>2, <4>1 DEF Sent, Overwrites
      <4>3. QED
        BY <2>1, <2>2, <3>1, <4>2 DEF Sent, TInv, TypeOK
    <3>2. CASE NameOf(s, op, h) # <<AmqpCache, k>>
      BY <2>1, <2>2, <3>2 DEF Sent, TInv, TypeOK
    <3>3. QED
      BY <3>1, <3>2
  <2>3. CASE Crash
    BY <2>1, <2>3 DEF Crash
  <2>4. CASE last' = last
    BY <2>1, <2>4
  <2>5. ASSUME NEW s \in Service, NEW m, NEW f, Lost(s, m, f)
        PROVE  last'[<<AmqpCache, k>>] = 0
    BY <2>1, <2>5 DEF Lost
  <2>6. QED
    BY <2>2, <2>3, <2>4, <2>5, Frames DEF Step
<1>3. QED
  BY <1>1, <1>2 DEF Homed

-----------------------------------------------------------------------------
(* Values: what is under a name from one renewal to the next.              *)

\* A value is counted up, never down, until it is renewed; then its count starts anew.
LEMMA ValueStep ==
    ASSUME TInv, Step, NEW n \in Name
    PROVE  /\ gen'[n] \in Nat /\ gen'[n] >= gen[n]
           /\ gen'[n] = gen[n] => /\ db'[n].num >= db[n].num
                                  /\ db[n] # NoEntry => db'[n] # NoEntry
           /\ gen'[n] # gen[n] => acked'[n] = 0
<1>t. /\ TypeOK /\ Shaped /\ gen[n] \in Nat /\ acked[n] \in Nat
      /\ db[n] \in Entry /\ WellFormed(db[n]) /\ db[n].num \in Nat /\ db[n].ttl \in 0..Ttl /\ Ttl \in Nat
  BY TtlAssumption DEF TInv, TypeOK, Shaped, Entry
<1>1. CASE gen' = gen /\ db' = db
  BY <1>1, <1>t
<1>2. ASSUME NEW s \in Service, NEW i \in At(s), Executed(s, i)
      PROVE  /\ gen'[n] \in Nat /\ gen'[n] >= gen[n]
             /\ gen'[n] = gen[n] => /\ db'[n].num >= db[n].num
                                    /\ db[n] # NoEntry => db'[n] # NoEntry
             /\ gen'[n] # gen[n] => acked'[n] = 0
  <2> DEFINE c == queue[s][i]
             a == After(c.op, c.id, db[c.name])
             r == Renews(c.op, db[c.name])
  <2>1. c.op \in Ops /\ c.id \in 1..MaxCommands /\ c.name \in Name
    BY <1>t, QueueType
  <2>2. /\ db' = [db EXCEPT ![c.name] = a]
        /\ gen' = [gen EXCEPT ![c.name] = IF r THEN @ + 1 ELSE @]
        /\ acked' = [acked EXCEPT ![c.name] = IF r THEN 0 ELSE @]
    BY <1>2 DEF Executed
  <2>3. CASE c.name # n
    <3> HIDE DEF a, r
    <3>1. db'[n] = db[n] /\ gen'[n] = gen[n]
      BY <1>t, <2>1, <2>2, <2>3 DEF TypeOK
    <3>2. QED
      BY <1>t, <3>1
  <2>4. CASE c.name = n
    <3>1. a \in Entry /\ (~r => a.num >= db[n].num /\ (db[n] # NoEntry => a # NoEntry))
      BY <1>t, <2>1, <2>4, AfterStep
    <3> HIDE DEF a, r
    <3>2. db'[n] = a /\ gen'[n] = (IF r THEN gen[n] + 1 ELSE gen[n]) /\ (r => acked'[n] = 0)
      BY <1>t, <2>1, <2>2, <2>4 DEF TypeOK
    <3>3. QED
      BY <1>t, <3>1, <3>2
  <2>5. QED
    BY <2>3, <2>4
<1>3. CASE Tick
  <2>1. /\ db'[n] = (IF db[n].ttl > 1 THEN [db[n] EXCEPT !.ttl = @ - 1]
                     ELSE IF db[n].ttl = 1 THEN NoEntry ELSE db[n])
        /\ gen'[n] = (IF db[n].ttl = 1 THEN gen[n] + 1 ELSE gen[n])
        /\ acked'[n] = (IF db[n].ttl = 1 THEN 0 ELSE acked[n])
    BY <1>3 DEF Tick
  <2>2. CASE db[n].ttl = 1
    BY <1>t, <2>1, <2>2
  <2>3. CASE db[n].ttl > 1
    <3>1. db'[n].num = db[n].num /\ db'[n].type = db[n].type /\ db[n].type # "none" /\ NoEntry.type = "none"
      BY <1>t, <2>1, <2>3 DEF WellFormed, NoEntry, Entry
    <3>2. gen'[n] = gen[n]
      BY <1>t, <2>1, <2>3
    <3>3. QED
      BY <1>t, <3>1, <3>2
  <2>4. CASE ~(db[n].ttl > 1) /\ db[n].ttl # 1
    BY <1>t, <2>1, <2>4
  <2>5. QED
    BY <2>2, <2>3, <2>4
<1>4. QED
  BY <1>1, <1>2, <1>3, Frames DEF Step

\* A command was executed on the present value or one before it.
Dated == \A s \in Service : \A i \in At(s) : queue[s][i].done => queue[s][i].gen <= gen[queue[s][i].name]

\* It stays so.
LEMMA DatedKept ==
    ASSUME TInv, TInv', Dated, Step
    PROVE  Dated'
<1> SUFFICES ASSUME NEW s \in Service, NEW i \in At(s)', queue'[s][i].done
             PROVE  queue'[s][i].gen <= gen'[queue'[s][i].name]
  BY DEF Dated
<1>1. ASSUME NEW j \in At(s), queue'[s][i] = queue[s][j]
      PROVE  queue'[s][i].gen <= gen'[queue'[s][i].name]
  <2> DEFINE c == queue[s][j]
  <2>1. c.name \in Name /\ c.gen \in Nat /\ c.done
    BY <1>1, QueueType DEF TInv
  <2>2. c.gen <= gen[c.name]
    BY <2>1 DEF Dated
  <2>3. gen'[c.name] \in Nat /\ gen'[c.name] >= gen[c.name] /\ gen[c.name] \in Nat
    BY <2>1, ValueStep DEF TInv, TypeOK
  <2> HIDE DEF c
  <2>4. c.gen <= gen'[c.name]
    BY <2>1, <2>2, <2>3
  <2>5. QED
    BY <1>1, <2>4 DEF c
<1>2. ASSUME i \in At(s), Executed(s, i)
      PROVE  queue'[s][i].gen <= gen'[queue'[s][i].name]
  <2>1. queue[s][i].name \in Name
    BY <1>2, QueueType DEF TInv
  <2>2. queue'[s][i].name = queue[s][i].name /\ queue'[s][i].gen = gen[queue[s][i].name]
    BY <1>2 DEF Executed
  <2>3. gen'[queue[s][i].name] \in Nat /\ gen'[queue[s][i].name] >= gen[queue[s][i].name]
    BY <2>1, ValueStep
  <2>4. gen[queue[s][i].name] \in Nat
    BY <2>1 DEF TInv, TypeOK
  <2>5. QED
    BY <2>2, <2>3, <2>4
<1>3. QED
  BY <1>1, <1>2, Origin

-----------------------------------------------------------------------------
(* One grant for a value.                                                  *)

\* A setNX that made the value, answered or not.
Grants == (1..MaxCommands) \X Name \X Nat
Granting(c) == c.op = "setNX" /\ c.done /\ c.says = "ok"
ClaimOf(c) == <<c.id, c.name, c.gen>>
Claim(g) == \/ g \in granted
            \/ \E s \in Service : \E i \in At(s) : Granting(queue[s][i]) /\ g = ClaimOf(queue[s][i])

\* A value has one such claim at most, is there as long as it is the present one, and no
\* claim is for a value to come.
Exclusive ==
    /\ \A g, h \in Grants : Claim(g) /\ Claim(h) /\ g[2] = h[2] /\ g[3] = h[3] => g = h
    /\ \A g \in Grants : Claim(g) => g[3] <= gen[g[2]] /\ (g[3] = gen[g[2]] => db[g[2]] # NoEntry)

\* The claim that executing a command makes, if it makes one.
NewClaim(g) ==
    \E s \in Service : \E i \in At(s) :
        /\ Executed(s, i) /\ queue[s][i].op = "setNX" /\ Says("setNX", db[queue[s][i].name]) = "ok"
        /\ g = <<queue[s][i].id, queue[s][i].name, gen[queue[s][i].name]>>

\* Claims come from Redis only; being told of one does not make another.
LEMMA ClaimStep ==
    ASSUME TInv, TInv', Step, NEW g \in Grants, Claim(g)'
    PROVE  Claim(g) \/ NewClaim(g)
<1>1. CASE g \in granted'
  <2>1. CASE granted' = granted
    BY <1>1, <2>1 DEF Claim
  <2>2. ASSUME NEW s \in Service, Received(s), granted' # granted
        PROVE  Claim(g)
    <3>1. 1 \in At(s)
      BY <2>2 DEF Received, At
    <3>2. Granting(queue[s][1]) /\ granted' = granted \cup {ClaimOf(queue[s][1])}
      BY <2>2 DEF Received, Granting, ClaimOf
    <3>3. QED
      BY <1>1, <3>1, <3>2 DEF Claim
  <2>3. granted' = granted \/ \E s \in Service : Received(s)
    <3>1. \A t \in Service, op \in Ops \ {"expire"}, k \in Key : Sent(t, op, k) => granted' = granted
      BY DEF Sent
    <3>2. \A t \in Service : \A i \in At(t) : Executed(t, i) => granted' = granted
      BY DEF Executed
    <3>3. \A t \in Service : \A m, f : Lost(t, m, f) => granted' = granted
      BY DEF Lost
    <3>4. Tick \/ Crash \/ Quiet => granted' = granted
      BY DEF Tick, Crash, Quiet
    <3>5. QED
      BY <3>1, <3>2, <3>3, <3>4, Zenon DEF Step
  <2>4. QED
    BY <2>1, <2>2, <2>3
<1>2. CASE g \notin granted'
  <2>0. PICK s \in Service : \E i \in At(s)' : Granting(queue'[s][i]) /\ g = ClaimOf(queue'[s][i])
    BY <1>2 DEF Claim
  <2>1. PICK i \in At(s)' : Granting(queue'[s][i]) /\ g = ClaimOf(queue'[s][i])
    BY <2>0
  <2>2. CASE \E j \in At(s) : queue'[s][i] = queue[s][j]
    BY <2>1, <2>2 DEF Claim
  <2>3. CASE i \in At(s) /\ Executed(s, i)
    <3>1. /\ queue'[s][i].op = queue[s][i].op /\ queue'[s][i].id = queue[s][i].id
          /\ queue'[s][i].name = queue[s][i].name
          /\ queue'[s][i].says = Says(queue[s][i].op, db[queue[s][i].name])
          /\ queue'[s][i].gen = gen[queue[s][i].name]
      BY <2>3 DEF Executed
    <3>2. QED
      BY <2>1, <2>3, <3>1 DEF NewClaim, Granting, ClaimOf
  <2>4. QED
    BY <2>1, <2>2, <2>3, Origin DEF Granting
<1>3. QED
  BY <1>1, <1>2

\* Redis executes one command in a step.
LEMMA OneExecution ==
    ASSUME NEW s \in Service, NEW i \in At(s), Executed(s, i)
    PROVE  \A t \in Service : \A j \in At(t) : Executed(t, j) => t = s /\ j = i
<1> SUFFICES ASSUME NEW t \in Service, NEW j \in At(t), Executed(t, j)
             PROVE  t = s /\ j = i
  OBVIOUS
<1>1. queue'[s][i] # queue[s][i]
  BY DEF Executed
<1>2. t = s
  BY <1>1 DEF Executed
<1>3. j = i
  BY <1>1, <1>2 DEF Executed
<1>4. QED
  BY <1>2, <1>3

\* A new claim is for the present value, which its command has made.
LEMMA NewClaimStep ==
    ASSUME TInv, TInv', Step, NEW g, NewClaim(g)
    PROVE  /\ g[2] \in Name /\ g[3] = gen[g[2]] /\ gen'[g[2]] = gen[g[2]]
           /\ db[g[2]] = NoEntry /\ db'[g[2]] # NoEntry
           /\ \A h : NewClaim(h) => h = g
<1>1. PICK s \in Service : \E i \in At(s) :
        /\ Executed(s, i) /\ queue[s][i].op = "setNX" /\ Says("setNX", db[queue[s][i].name]) = "ok"
        /\ g = <<queue[s][i].id, queue[s][i].name, gen[queue[s][i].name]>>
  BY DEF NewClaim
<1>2. PICK i \in At(s) :
        /\ Executed(s, i) /\ queue[s][i].op = "setNX" /\ Says("setNX", db[queue[s][i].name]) = "ok"
        /\ g = <<queue[s][i].id, queue[s][i].name, gen[queue[s][i].name]>>
  BY <1>1
<1> DEFINE c == queue[s][i]
           a == After(c.op, c.id, db[c.name])
           r == Renews(c.op, db[c.name])
<1>3. c.op \in Ops /\ c.id \in 1..MaxCommands /\ c.name \in Name
  BY QueueType DEF TInv
<1>4. db[c.name] \in Entry /\ WellFormed(db[c.name]) /\ gen[c.name] \in Nat
  BY <1>3 DEF TInv, TypeOK, Shaped
<1>5. db[c.name] = NoEntry /\ a # NoEntry
  BY <1>2, <1>3, <1>4, AfterStep
<1>6. ~r
  BY <1>5 DEF Renews
<1>7. db' = [db EXCEPT ![c.name] = a] /\ gen' = [gen EXCEPT ![c.name] = IF r THEN @ + 1 ELSE @]
  BY <1>2 DEF Executed
<1> HIDE DEF a, r
<1>8. db'[c.name] = a /\ gen'[c.name] = gen[c.name]
  BY <1>3, <1>6, <1>7 DEF TInv, TypeOK
<1>9. \A t \in Service : \A j \in At(t) : Executed(t, j) => t = s /\ j = i
  BY <1>2, OneExecution
<1>10. \A h : NewClaim(h) => h = g
  <2> SUFFICES ASSUME NEW h, NewClaim(h) PROVE h = g
    OBVIOUS
  <2>1. PICK t \in Service : \E j \in At(t) :
          Executed(t, j) /\ h = <<queue[t][j].id, queue[t][j].name, gen[queue[t][j].name]>>
    BY DEF NewClaim
  <2>2. PICK j \in At(t) : Executed(t, j) /\ h = <<queue[t][j].id, queue[t][j].name, gen[queue[t][j].name]>>
    BY <2>1
  <2>3. QED
    BY <1>2, <1>9, <2>2
<1>11. g[2] = c.name /\ g[3] = gen[c.name]
  BY <1>2
<1> HIDE DEF c
<1>12. QED
  BY <1>3, <1>5, <1>8, <1>10, <1>11

\* A value keeps to one claim: setNX makes a value only where there is none.
LEMMA ExclusiveKept ==
    ASSUME TInv, TInv', Exclusive, Step
    PROVE  Exclusive'
<1>g. ASSUME NEW g \in Grants
      PROVE  g[2] \in Name /\ g[3] \in Nat /\ gen[g[2]] \in Nat
  BY DEF Grants, TInv, TypeOK
<1>1. ASSUME NEW g \in Grants, NEW h \in Grants, Claim(g)', Claim(h)', g[2] = h[2], g[3] = h[3]
      PROVE  g = h
  <2>1. (Claim(g) \/ NewClaim(g)) /\ (Claim(h) \/ NewClaim(h))
    BY <1>1, ClaimStep
  <2>2. CASE Claim(g) /\ Claim(h)
    BY <1>1, <2>2 DEF Exclusive
  <2>3. CASE NewClaim(g) /\ NewClaim(h)
    BY <2>3, NewClaimStep
  <2>4. CASE NewClaim(g) /\ Claim(h)
    BY <1>1, <2>4, NewClaimStep DEF Exclusive
  <2>5. CASE Claim(g) /\ NewClaim(h)
    BY <1>1, <2>5, NewClaimStep DEF Exclusive
  <2>6. QED
    BY <2>1, <2>2, <2>3, <2>4, <2>5
<1>2. ASSUME NEW g \in Grants, Claim(g)'
      PROVE  g[3] <= gen'[g[2]] /\ (g[3] = gen'[g[2]] => db'[g[2]] # NoEntry)
  <2>1. CASE Claim(g)
    <3>1. g[3] <= gen[g[2]] /\ (g[3] = gen[g[2]] => db[g[2]] # NoEntry)
      BY <2>1 DEF Exclusive
    <3>2. /\ gen'[g[2]] \in Nat /\ gen'[g[2]] >= gen[g[2]]
          /\ gen'[g[2]] = gen[g[2]] /\ db[g[2]] # NoEntry => db'[g[2]] # NoEntry
      BY <1>g, ValueStep
    <3>3. g[3] <= gen'[g[2]]
      BY <1>g, <3>1, <3>2
    <3>4. g[3] = gen'[g[2]] => g[3] = gen[g[2]]
      BY <1>g, <3>1, <3>2
    <3>5. QED
      BY <3>1, <3>2, <3>3, <3>4
  <2>2. CASE NewClaim(g)
    <3>1. g[3] = gen[g[2]] /\ gen'[g[2]] = gen[g[2]] /\ db'[g[2]] # NoEntry
      BY <2>2, NewClaimStep
    <3>2. QED
      BY <1>g, <3>1
  <2>3. QED
    BY <1>2, <2>1, <2>2, ClaimStep
<1>3. QED
  <2>1. \A g, h \in Grants : Claim(g)' /\ Claim(h)' /\ g[2] = h[2] /\ g[3] = h[3] => g = h
    BY <1>1
  <2>2. \A g \in Grants : Claim(g)' => g[3] <= gen'[g[2]] /\ (g[3] = gen'[g[2]] => db'[g[2]] # NoEntry)
    BY <1>2
  <2>3. QED
    BY <2>1, <2>2 DEF Exclusive

\* setNX answers TRUE to one caller per value, whatever is sent twice, lost or given up.
THEOREM SetNXOnce == Spec => []OneGrant
<1> DEFINE GInv == TInv /\ Exclusive
<1>1. Init => GInv
  <2>1. Init => Exclusive
    BY DEF Init, Exclusive, Claim, At
  <2>2. QED
    BY <2>1, InitTypes
<1>2. GInv /\ [Next]_vars => GInv'
  BY Steps, StepTypes, ExclusiveKept DEF TInv
<1>3. GInv => OneGrant
  BY DEF TInv, TypeOK, Exclusive, Claim, Grants, OneGrant
<1> HIDE DEF GInv
<1>4. QED
  BY <1>1, <1>2, <1>3, PTL DEF Spec

-----------------------------------------------------------------------------
(* Increments told are in the count.                                       *)

\* No number waits twice.
Numbered ==
    /\ \A s \in Service : \A i \in At(s) : queue[s][i].id <= calls
    /\ \A s, t \in Service : \A i \in At(s), j \in At(t) : queue[s][i].id = queue[t][j].id => s = t /\ i = j

\* Each position after a step has its number from another position before it, or has the
\* number just taken.
LEMMA Sources ==
    ASSUME TInv, TInv', Step, NEW t \in Service
    PROVE  \E f \in [At(t)' -> 0..Len(queue[t])] :
              /\ \A i \in At(t)' : f[i] # 0 => queue'[t][i].id = queue[t][f[i]].id
              /\ \A i \in At(t)' : f[i] = 0 =>
                    /\ queue'[t][i].id = calls' /\ calls' = calls + 1
                    /\ \A s \in Service : s # t => queue'[s] = queue[s]
                    /\ queue'[t] # queue[t]
              /\ \A i, j \in At(t)' : f[i] = f[j] => i = j
<1> DEFINE l == Len(queue[t])
           Fits(f) ==
              /\ f \in [At(t)' -> 0..l]
              /\ \A i \in At(t)' : f[i] # 0 => queue'[t][i].id = queue[t][f[i]].id
              /\ \A i \in At(t)' : f[i] = 0 =>
                    /\ queue'[t][i].id = calls' /\ calls' = calls + 1
                    /\ \A s \in Service : s # t => queue'[s] = queue[s]
                    /\ queue'[t] # queue[t]
              /\ \A i, j \in At(t)' : f[i] = f[j] => i = j
           Goal == \E f : Fits(f)
<1>p. /\ l \in Nat /\ Len(queue'[t]) \in Nat
      /\ \A i \in At(t)' : i \in Int /\ 1 <= i /\ i <= Len(queue'[t])
      /\ At(t)' = 1..Len(queue'[t])
  BY Positions DEF At
<1>1. ASSUME queue'[t] = queue[t] PROVE Goal
  <2> DEFINE f == [i \in At(t)' |-> i]
  <2>1. At(t)' = 1..l
    BY <1>1 DEF At
  <2>2. f \in [At(t)' -> 0..l] /\ \A i \in At(t)' : f[i] = i /\ f[i] # 0
    BY <1>p, <2>1
  <2> HIDE DEF f
  <2>3. Fits(f)
    BY <1>1, <2>2
  <2>4. QED
    BY <2>3
<1>2. ASSUME NEW op \in Ops \ {"expire"}, NEW k \in Key, Sent(t, op, k) PROVE Goal
  <2> DEFINE f == [i \in At(t)' |-> IF i = l + 1 THEN 0 ELSE i]
  <2>1. Len(queue'[t]) = l + 1 /\ At(t)' = 1..(l + 1)
    BY <1>2, <1>p DEF Sent
  <2>2. f \in [At(t)' -> 0..l] /\ \A i \in At(t)' : f[i] = IF i = l + 1 THEN 0 ELSE i
    BY <1>p, <2>1
  <2>3. \A i \in At(t)' : i # l + 1 => i \in At(t) /\ queue'[t][i] = queue[t][i]
    BY <1>2, <1>p, <2>1 DEF Sent, At
  <2>4. queue'[t][l + 1].id = calls' /\ calls' = calls + 1 /\ \A s \in Service : s # t => queue'[s] = queue[s]
    BY <1>2 DEF Sent
  <2>5. queue'[t] # queue[t]
    BY <1>p, <2>1
  <2> HIDE DEF f
  <2>6. Fits(f)
    BY <1>p, <2>1, <2>2, <2>3, <2>4, <2>5
  <2>7. QED
    BY <2>6
<1>3. ASSUME NEW m \in At(t), Executed(t, m) PROVE Goal
  <2> DEFINE f == [i \in At(t)' |-> i]
  <2>1. At(t)' = 1..l
    BY <1>3 DEF Executed, At
  <2>2. f \in [At(t)' -> 0..l] /\ \A i \in At(t)' : f[i] = i /\ f[i] # 0
    BY <1>p, <2>1
  <2>3. \A i \in At(t)' : queue'[t][i].id = queue[t][i].id
    BY <1>3, <2>1 DEF Executed, At
  <2> HIDE DEF f
  <2>4. Fits(f)
    BY <2>2, <2>3
  <2>5. QED
    BY <2>4
<1>4. ASSUME Received(t) PROVE Goal
  <2> DEFINE f == [i \in At(t)' |-> IF i = l THEN 1 ELSE i + 1]
  <2>1. l # 0 /\ (GoesOn(t) => At(t)' = 1..l) /\ (~GoesOn(t) => At(t)' = 1..(l - 1))
    BY <1>4, <1>p DEF Received
  <2>2. \A i \in At(t)' : i = l \/ i \in 1..(l - 1)
    BY <1>p, <2>1
  <2>3. f \in [At(t)' -> 0..l] /\ \A i \in At(t)' : f[i] = (IF i = l THEN 1 ELSE i + 1) /\ f[i] # 0
    BY <1>p, <2>1, <2>2
  <2>4. \A i \in At(t)' : i # l => queue'[t][i].id = queue[t][i + 1].id
    BY <1>4, <2>2 DEF Received
  <2>5. \A i \in At(t)' : i = l => queue'[t][i].id = queue[t][1].id
    <3>1. l \in At(t)' => GoesOn(t)
      BY <1>p, <2>1
    <3>2. QED
      BY <1>4, <3>1 DEF Received
  <2> HIDE DEF f
  <2>6. \A i, j \in At(t)' : f[i] = f[j] => i = j
    BY <1>p, <2>2, <2>3
  <2>7. Fits(f)
    BY <2>3, <2>4, <2>5, <2>6
  <2>8. QED
    BY <2>7
<1>5. ASSUME NEW m, NEW f, Lost(t, m, f) PROVE Goal
  <2>1. /\ f \in [At(t)' -> At(t)] /\ \A i \in At(t)' : queue'[t][i].id = queue[t][f[i]].id
        /\ \A i, j \in At(t)' : i < j => f[i] < f[j]
    BY <1>5 DEF Lost, Resent, At
  <2>2. f \in [At(t)' -> 0..l] /\ \A i \in At(t)' : f[i] # 0 /\ f[i] \in Int
    BY <1>p, <2>1 DEF At
  <2>3. ASSUME NEW i \in At(t)', NEW j \in At(t)', f[i] = f[j] PROVE i = j
    <3>1. ~(i < j) /\ ~(j < i)
      BY <2>1, <2>2, <2>3
    <3>2. QED
      BY <1>p, <3>1
  <2>4. Fits(f)
    BY <2>1, <2>2, <2>3
  <2>5. QED
    BY <2>4
<1>6. ASSUME Crash PROVE Goal
  <2>1. At(t)' = {}
    BY <1>6, <1>p, EmptySeq DEF Crash
  <2>2. Fits([i \in {} |-> 0])
    BY <2>1
  <2>3. QED
    BY <2>2
<1>7. Goal
  <2> HIDE DEF Goal
  <2>1. QED
    BY <1>1, <1>2, <1>3, <1>4, <1>5, <1>6, OneQueue
<1>8. QED
  BY <1>7

\* So numbers stay apart.
LEMMA NumberedKept ==
    ASSUME TInv, TInv', Numbered, Step
    PROVE  Numbered'
<1>c. calls \in Int /\ calls' \in Int /\ calls <= calls'
  <2>1. calls' = calls \/ calls' = calls + 1
    BY Frames DEF Step
  <2>2. QED
    BY <2>1 DEF TInv, TypeOK
<1>n. \A s \in Service : \A i \in At(s) : queue[s][i].id \in Int
  BY QueueType DEF TInv
<1>p. \A s \in Service : Len(queue[s]) \in Nat /\ \A a \in 0..Len(queue[s]) : a # 0 => a \in At(s)
  BY QueueType DEF TInv, At
<1>1. ASSUME NEW s \in Service, NEW i \in At(s)'
      PROVE  queue'[s][i].id <= calls'
  <2>1. PICK f \in [At(s)' -> 0..Len(queue[s])] :
              /\ \A a \in At(s)' : f[a] # 0 => queue'[s][a].id = queue[s][f[a]].id
              /\ \A a \in At(s)' : f[a] = 0 => queue'[s][a].id = calls'
    BY Sources
  <2>2. CASE f[i] = 0
    BY <2>1, <2>2, <1>c
  <2>3. CASE f[i] # 0
    <3>1. f[i] \in At(s)
      BY <1>p, <2>1, <2>3
    <3>2. queue[s][f[i]].id <= calls /\ queue[s][f[i]].id \in Int
      BY <1>n, <3>1 DEF Numbered
    <3>3. QED
      BY <1>c, <2>1, <2>3, <3>2
  <2>4. QED
    BY <2>2, <2>3
<1>2. ASSUME NEW s \in Service, NEW t \in Service, NEW i \in At(s)', NEW j \in At(t)',
             queue'[s][i].id = queue'[t][j].id
      PROVE  s = t /\ i = j
  <2>1. PICK f \in [At(s)' -> 0..Len(queue[s])] :
              /\ \A a \in At(s)' : f[a] # 0 => queue'[s][a].id = queue[s][f[a]].id
              /\ \A a \in At(s)' : f[a] = 0 =>
                    /\ queue'[s][a].id = calls' /\ calls' = calls + 1
                    /\ \A r \in Service : r # s => queue'[r] = queue[r]
                    /\ queue'[s] # queue[s]
              /\ \A a, b \in At(s)' : f[a] = f[b] => a = b
    BY Sources
  <2>2. PICK g \in [At(t)' -> 0..Len(queue[t])] :
              /\ \A a \in At(t)' : g[a] # 0 => queue'[t][a].id = queue[t][g[a]].id
              /\ \A a \in At(t)' : g[a] = 0 =>
                    /\ queue'[t][a].id = calls' /\ calls' = calls + 1
                    /\ \A r \in Service : r # t => queue'[r] = queue[r]
                    /\ queue'[t] # queue[t]
              /\ \A a, b \in At(t)' : g[a] = g[b] => a = b
    BY Sources
  <2>3. f[i] # 0 => /\ f[i] \in At(s) /\ queue'[s][i].id = queue[s][f[i]].id
                    /\ queue[s][f[i]].id <= calls /\ queue[s][f[i]].id \in Int
    BY <1>n, <1>p, <2>1 DEF Numbered
  <2>4. g[j] # 0 => /\ g[j] \in At(t) /\ queue'[t][j].id = queue[t][g[j]].id
                    /\ queue[t][g[j]].id <= calls /\ queue[t][g[j]].id \in Int
    BY <1>n, <1>p, <2>2 DEF Numbered
  <2>5. s = t => (g[j] = 0 <=> f[j] = 0)
    <3>1. SUFFICES ASSUME s = t PROVE g[j] = 0 <=> f[j] = 0
      OBVIOUS
    <3>2. f[j] # 0 => f[j] \in At(s) /\ queue'[s][j].id = queue[s][f[j]].id /\ queue[s][f[j]].id <= calls
                      /\ queue[s][f[j]].id \in Int
      BY <1>n, <1>p, <2>1, <3>1 DEF Numbered
    <3>3. f[j] = 0 => queue'[s][j].id = calls' /\ calls' = calls + 1
      BY <2>1, <3>1
    <3>4. g[j] = 0 => queue'[s][j].id = calls' /\ calls' = calls + 1
      BY <2>2, <3>1
    <3>5. QED
      BY <1>c, <2>4, <3>1, <3>2, <3>3, <3>4
  <2>6. CASE f[i] # 0 /\ g[j] # 0
    <3>1. s = t /\ f[i] = g[j]
      BY <1>2, <2>3, <2>4, <2>6 DEF Numbered
    <3>2. f[j] # 0 /\ f[j] \in At(s) /\ queue'[s][j].id = queue[s][f[j]].id
      BY <1>p, <2>1, <2>5, <2>6, <3>1
    <3>3. f[j] = g[j]
      BY <2>4, <2>6, <3>1, <3>2 DEF Numbered
    <3>4. QED
      BY <2>1, <3>1, <3>3
  <2>7. CASE f[i] = 0 /\ g[j] = 0
    <3>1. s = t
      BY <2>1, <2>2, <2>7
    <3>2. f[j] = 0
      BY <2>5, <2>7, <3>1
    <3>3. QED
      BY <2>1, <2>7, <3>1, <3>2
  <2>8. CASE f[i] = 0 /\ g[j] # 0
    <3>1. queue'[s][i].id = calls + 1
      BY <2>1, <2>8
    <3>2. QED
      BY <1>2, <1>c, <2>4, <2>8, <3>1
  <2>9. CASE f[i] # 0 /\ g[j] = 0
    <3>1. queue'[t][j].id = calls + 1
      BY <2>2, <2>9
    <3>2. QED
      BY <1>2, <1>c, <2>3, <2>9, <3>1
  <2>10. QED
    BY <2>6, <2>7, <2>8, <2>9
<1>3. QED
  BY <1>1, <1>2 DEF Numbered

\* Increments of the present value that have been executed and not told yet.
IsDue(c, n) == c.done /\ c.op \in Counts /\ c.says = "ok" /\ c.name = n /\ c.gen = gen[n]
Due(n) == {i \in 1..MaxCommands : \E s \in Service : \E p \in At(s) : IsDue(queue[s][p], n) /\ queue[s][p].id = i}

\* What was told and what is due are in the count.
Counted == \A n \in Name : acked[n] + Cardinality(Due(n)) <= db[n].num

\* Sets of numbers, with one more or one less.
LEMMA DueCards ==
    ASSUME NEW D \in SUBSET (1..MaxCommands), NEW E \in SUBSET (1..MaxCommands), NEW i
    PROVE  /\ Cardinality(D) \in Nat /\ Cardinality(E) \in Nat
           /\ E \subseteq D => Cardinality(E) <= Cardinality(D)
           /\ E \subseteq D \cup {i} => Cardinality(E) <= Cardinality(D) + 1
           /\ i \in D /\ E \subseteq D \ {i} => Cardinality(E) + 1 <= Cardinality(D)
           /\ E = {} => Cardinality(E) = 0
<1>1. IsFiniteSet(D) /\ IsFiniteSet(E)
  <2>1. IsFiniteSet(1..MaxCommands)
    BY BoundAssumption, FS_Interval
  <2>2. QED
    BY <2>1, FS_Subset
<1>2. Cardinality(D) \in Nat /\ Cardinality(E) \in Nat
  BY <1>1, FS_CardinalityType
<1>3. E \subseteq D => Cardinality(E) <= Cardinality(D)
  BY <1>1, FS_Subset
<1>4. E \subseteq D \cup {i} => Cardinality(E) <= Cardinality(D) + 1
  <2>1. IsFiniteSet(D \cup {i}) /\ Cardinality(D \cup {i}) \in {Cardinality(D), Cardinality(D) + 1}
    BY <1>1, FS_AddElement
  <2>2. E \subseteq D \cup {i} => Cardinality(E) <= Cardinality(D \cup {i})
    BY <2>1, FS_Subset
  <2>3. QED
    BY <1>2, <2>1, <2>2
<1>5. i \in D /\ E \subseteq D \ {i} => Cardinality(E) + 1 <= Cardinality(D)
  <2>1. IsFiniteSet(D \ {i}) /\ (i \in D => Cardinality(D \ {i}) = Cardinality(D) - 1)
    BY <1>1, FS_RemoveElement
  <2>2. E \subseteq D \ {i} => Cardinality(E) <= Cardinality(D \ {i})
    BY <2>1, FS_Subset
  <2>3. QED
    BY <1>2, <2>1, <2>2
<1>6. QED
  BY <1>2, <1>3, <1>4, <1>5, FS_EmptySet

\* The increment executed in a step, if it succeeds on the value present.
NewDue(s, p, n) ==
    /\ Executed(s, p) /\ queue[s][p].name = n
    /\ queue[s][p].op \in Counts /\ Says(queue[s][p].op, db[n]) = "ok"

\* Only executing an increment makes it due.
LEMMA DueStep ==
    ASSUME TInv, TInv', Step, NEW n \in Name, gen'[n] = gen[n], NEW i \in Due(n)'
    PROVE  i \in Due(n) \/ \E s \in Service : \E p \in At(s) : NewDue(s, p, n) /\ queue[s][p].id = i
<1>1. i \in 1..MaxCommands
  BY DEF Due
<1>2. PICK s \in Service : \E p \in At(s)' : IsDue(queue[s][p], n)' /\ queue'[s][p].id = i
  BY DEF Due
<1>3. PICK p \in At(s)' : IsDue(queue[s][p], n)' /\ queue'[s][p].id = i
  BY <1>2
<1> DEFINE d == queue'[s][p]
<1>4. d.done /\ d.op \in Counts /\ d.says = "ok" /\ d.name = n /\ d.gen = gen[n] /\ d.id = i
  BY <1>3 DEF IsDue
<1>5. ASSUME NEW j \in At(s), d = queue[s][j]
      PROVE  i \in Due(n)
  <2>1. IsDue(queue[s][j], n) /\ queue[s][j].id = i
    BY <1>4, <1>5 DEF IsDue
  <2>2. QED
    BY <1>1, <2>1 DEF Due
<1>6. ASSUME p \in At(s), Executed(s, p)
      PROVE  NewDue(s, p, n) /\ queue[s][p].id = i
  <2>1. d.op = queue[s][p].op /\ d.name = queue[s][p].name /\ d.id = queue[s][p].id
        /\ d.says = Says(queue[s][p].op, db[queue[s][p].name])
    BY <1>6 DEF Executed
  <2> HIDE DEF d
  <2>2. QED
    BY <1>4, <1>6, <2>1 DEF NewDue
<1>7. (\E j \in At(s) : d = queue[s][j]) \/ (p \in At(s) /\ Executed(s, p))
  BY <1>4, Origin
<1> HIDE DEF d
<1>8. QED
  BY <1>5, <1>6, <1>7

\* A reply received is due no more.
LEMMA DueReceived ==
    ASSUME TInv, TInv', Numbered, Step, NEW s \in Service, Received(s), NEW n \in Name, NEW i \in Due(n)'
    PROVE  i \in Due(n) /\ i # queue[s][1].id
<1>1. PICK t \in Service : \E p \in At(t)' : IsDue(queue[t][p], n)' /\ queue'[t][p].id = i
  BY DEF Due
<1>2. PICK p \in At(t)' : IsDue(queue[t][p], n)' /\ queue'[t][p].id = i
  BY <1>1
<1>3. /\ i \in 1..MaxCommands /\ gen' = gen
      /\ Len(queue[s]) \in Nat \ {0} /\ 1 \in At(s)
      /\ \A r \in Service : r # s => queue'[r] = queue[r]
      /\ Len(queue'[s]) = IF GoesOn(s) THEN Len(queue[s]) ELSE Len(queue[s]) - 1
      /\ \A j \in 1..(Len(queue[s]) - 1) : queue'[s][j] = queue[s][j + 1]
      /\ GoesOn(s) => queue'[s][Len(queue[s])].done = FALSE
  BY DEF Received, At, Due
<1>4. \E j \in At(t) : queue'[t][p] = queue[t][j] /\ ~(t = s /\ j = 1)
  <2>1. CASE t # s
    BY <1>3, <2>1 DEF At
  <2>2. CASE t = s
    <3>1. p \in Int /\ 1 <= p /\ p <= Len(queue'[s])
      BY <2>2, Positions
    <3>2. p \in 1..(Len(queue[s]) - 1)
      <4>1. p # Len(queue[s]) \/ ~GoesOn(s)
        BY <1>2, <1>3, <2>2 DEF IsDue
      <4>2. QED
        BY <1>3, <3>1, <4>1
    <3>3. p + 1 \in At(s) /\ p + 1 # 1
      BY <1>3, <3>2 DEF At
    <3>4. QED
      BY <1>3, <2>2, <3>2, <3>3
  <2>3. QED
    BY <2>1, <2>2
<1>5. PICK j \in At(t) : queue'[t][p] = queue[t][j] /\ ~(t = s /\ j = 1)
  BY <1>4
<1>6. IsDue(queue[t][j], n) /\ queue[t][j].id = i
  BY <1>2, <1>3, <1>5 DEF IsDue
<1>7. queue[t][j].id # queue[s][1].id
  BY <1>3, <1>5 DEF Numbered
<1>8. QED
  BY <1>3, <1>6, <1>7 DEF Due

\* Every step keeps the account: an increment is counted when it becomes due, told when
\* it is due no more, and forgotten with the value that it counted.
LEMMA CountedKept ==
    ASSUME TInv, TInv', Dated, Numbered, Counted, Step
    PROVE  Counted'
<1> SUFFICES ASSUME NEW n \in Name
             PROVE  acked'[n] + Cardinality(Due(n)') <= db'[n].num
  BY DEF Counted
<1> DEFINE D == Due(n)
           E == Due(n)'
<1>D. D \in SUBSET (1..MaxCommands) /\ E \in SUBSET (1..MaxCommands)
  BY DEF Due
<1>t. /\ acked[n] \in Nat /\ acked'[n] \in Nat /\ gen[n] \in Nat /\ gen'[n] \in Nat
      /\ db[n].num \in Nat /\ db'[n].num \in Nat
      /\ Cardinality(D) \in Nat /\ Cardinality(E) \in Nat
  <2>1. db[n] \in Entry /\ db'[n] \in Entry
    BY DEF TInv, TypeOK
  <2>2. Cardinality(D) \in Nat /\ Cardinality(E) \in Nat
    <3> HIDE DEF D, E
    <3>1. QED
      BY <1>D, DueCards
  <2> HIDE DEF D, E
  <2>3. QED
    BY <2>1, <2>2 DEF TInv, TypeOK, Entry
<1>c. acked[n] + Cardinality(D) <= db[n].num
  BY DEF Counted
<1>v. /\ gen'[n] >= gen[n]
      /\ gen'[n] = gen[n] => db'[n].num >= db[n].num
      /\ gen'[n] # gen[n] => acked'[n] = 0
  BY ValueStep
<1>1. CASE gen'[n] # gen[n]
  <2>1. ASSUME NEW i \in E PROVE FALSE
    <3>1. PICK s \in Service : \E p \in At(s)' : IsDue(queue[s][p], n)'
      BY <2>1 DEF Due
    <3>2. PICK p \in At(s)' : IsDue(queue[s][p], n)'
      BY <3>1
    <3>3. queue'[s][p].done /\ queue'[s][p].name = n /\ queue'[s][p].gen = gen'[n]
      BY <3>2 DEF IsDue
    <3>4. CASE \E j \in At(s) : queue'[s][p] = queue[s][j]
      <4>1. gen'[n] <= gen[n]
        BY <3>3, <3>4 DEF Dated
      <4>2. QED
        BY <1>1, <1>t, <1>v, <4>1
    <3>5. CASE p \in At(s) /\ Executed(s, p)
      <4>1. queue'[s][p].gen = gen[n]
        BY <3>3, <3>5 DEF Executed
      <4>2. QED
        BY <1>1, <3>3, <4>1
    <3>6. QED
      BY <3>3, <3>4, <3>5, Origin
  <2>2. E = {}
    BY <2>1
  <2> HIDE DEF D, E
  <2>3. Cardinality(E) = 0
    BY <1>D, <2>2, DueCards
  <2>4. acked'[n] + Cardinality(E) <= db'[n].num
    BY <1>1, <1>t, <1>v, <2>3
  <2>5. QED
    BY <2>4 DEF E
<1>2. CASE gen'[n] = gen[n] /\ \E s \in Service : Received(s)
  <2>1. PICK s \in Service : Received(s)
    BY <1>2
  <2> DEFINE c == queue[s][1]
  <2>2. 1 \in At(s)
    BY <2>1 DEF Received, At
  <2>3. c.name \in Name /\ c.id \in 1..MaxCommands
    BY <2>2, QueueType DEF TInv
  <2>4. E \subseteq D \ {c.id}
    BY <2>1, DueReceived
  <2>5. db' = db
    BY <2>1 DEF Received
  <2>6. CASE IsDue(c, n)
    <3>1. c.id \in D
      BY <2>2, <2>3, <2>6 DEF Due
    <3>2. acked'[n] <= acked[n] + 1
      <4>1. acked' \in {acked, [acked EXCEPT ![c.name] = @ + 1]}
        BY <2>1 DEF Received
      <4>2. acked \in [Name -> Nat] /\ acked[n] \in Nat
        BY <1>t DEF TInv, TypeOK
      <4> HIDE DEF c
      <4>3. QED
        BY <2>3, <4>1, <4>2
    <3> HIDE DEF D, E, c
    <3>3. Cardinality(E) + 1 <= Cardinality(D)
      BY <1>D, <2>4, <3>1, DueCards
    <3>4. acked'[n] + Cardinality(E) <= db'[n].num
      BY <1>c, <1>t, <2>5, <3>2, <3>3
    <3>5. QED
      BY <3>4 DEF E
  <2>7. CASE ~IsDue(c, n)
    <3>1. acked'[n] = acked[n]
      <4>1. CASE c.name = n
        BY <2>1, <2>7, <4>1 DEF Received, IsDue
      <4>2. CASE c.name # n
        BY <2>1, <2>3, <4>2 DEF Received, TInv, TypeOK
      <4>3. QED
        BY <4>1, <4>2
    <3> HIDE DEF D, E, c
    <3>2. Cardinality(E) <= Cardinality(D)
      BY <1>D, <2>4, DueCards
    <3>3. acked'[n] + Cardinality(E) <= db'[n].num
      BY <1>c, <1>t, <2>5, <3>1, <3>2
    <3>4. QED
      BY <3>3 DEF E
  <2>8. QED
    BY <2>6, <2>7
<1>3. CASE gen'[n] = gen[n] /\ \E s \in Service : \E p \in At(s) : NewDue(s, p, n)
  <2>1. PICK s \in Service : \E p \in At(s) : NewDue(s, p, n)
    BY <1>3
  <2>2. PICK p \in At(s) : NewDue(s, p, n)
    BY <2>1
  <2> DEFINE c == queue[s][p]
             a == After(c.op, c.id, db[n])
  <2>3. Executed(s, p) /\ c.name = n /\ c.op \in Counts /\ Says(c.op, db[n]) = "ok"
    BY <2>2 DEF NewDue
  <2>4. c.op \in Ops /\ c.id \in 1..MaxCommands /\ db[n] \in Entry /\ WellFormed(db[n])
    BY QueueType DEF TInv, TypeOK, Shaped
  <2>5. a.num = db[n].num + 1 /\ ~Renews(c.op, db[n])
    BY <2>3, <2>4, AfterStep
  <2>6. db'[n] = a /\ acked'[n] = acked[n]
    <3>1. /\ db' = [db EXCEPT ![n] = a]
          /\ acked' = [acked EXCEPT ![n] = IF Renews(c.op, db[n]) THEN 0 ELSE @]
      BY <2>3 DEF Executed
    <3> HIDE DEF a
    <3>2. QED
      BY <2>5, <3>1 DEF TInv, TypeOK
  <2>7. E \subseteq D \cup {c.id}
    <3>1. ASSUME NEW i \in E, i \notin D PROVE i = c.id
      <4>1. PICK t \in Service : \E q \in At(t) : NewDue(t, q, n) /\ queue[t][q].id = i
        BY <1>3, <3>1, DueStep
      <4>2. PICK q \in At(t) : NewDue(t, q, n) /\ queue[t][q].id = i
        BY <4>1
      <4>3. t = s /\ q = p
        BY <2>3, <4>2, OneExecution DEF NewDue
      <4>4. QED
        BY <4>2, <4>3
    <3>2. QED
      BY <3>1
  <2> HIDE DEF D, E, a, c
  <2>8. Cardinality(E) <= Cardinality(D) + 1
    BY <1>D, <2>7, DueCards
  <2>9. acked'[n] + Cardinality(E) <= db'[n].num
    BY <1>c, <1>t, <2>5, <2>6, <2>8
  <2>10. QED
    BY <2>9 DEF E
<1>4. CASE /\ gen'[n] = gen[n] /\ ~(\E s \in Service : Received(s))
           /\ ~(\E s \in Service : \E p \in At(s) : NewDue(s, p, n))
  <2>1. E \subseteq D
    BY <1>4, DueStep
  <2>2. acked'[n] = acked[n]
    <3>1. ASSUME NEW s \in Service, NEW p \in At(s), Executed(s, p)
          PROVE  acked'[n] = acked[n]
      <4>1. queue[s][p].name \in Name
        BY QueueType DEF TInv
      <4>2. PICK r \in BOOLEAN :
              /\ gen' = [gen EXCEPT ![queue[s][p].name] = IF r THEN @ + 1 ELSE @]
              /\ acked' = [acked EXCEPT ![queue[s][p].name] = IF r THEN 0 ELSE @]
        BY <3>1 DEF Executed, Renews
      <4>3. CASE queue[s][p].name = n
        <5>1. ~r
          BY <1>4, <1>t, <4>2, <4>3 DEF TInv, TypeOK
        <5>2. QED
          BY <4>2, <4>3, <5>1 DEF TInv, TypeOK
      <4>4. CASE queue[s][p].name # n
        BY <4>2, <4>4 DEF TInv, TypeOK
      <4>5. QED
        BY <4>3, <4>4
    <3>2. CASE Tick
      BY <1>4, <1>t, <3>2 DEF Tick
    <3>3. CASE acked' = acked
      BY <3>3
    <3>4. QED
      BY <1>4, <3>1, <3>2, <3>3 DEF Step, Sent, Lost, Crash, Quiet
  <2> HIDE DEF D, E
  <2>3. Cardinality(E) <= Cardinality(D)
    BY <1>D, <2>1, DueCards
  <2>4. acked'[n] + Cardinality(E) <= db'[n].num
    BY <1>4, <1>c, <1>t, <1>v, <2>2, <2>3
  <2>5. QED
    BY <2>4 DEF E
<1>5. QED
  BY <1>1, <1>2, <1>3, <1>4

\* An increment whose caller was told of it is in the count until the value is replaced or
\* removed, whatever is sent twice, lost or given up.
THEOREM IncrementsCounted == Spec => []AckedCounted
<1> DEFINE CInv == TInv /\ Dated /\ Numbered /\ Counted
<1>1. Init => CInv
  <2>1. ASSUME Init PROVE Dated /\ Numbered /\ \A n \in Name : Due(n) = {}
    BY <2>1 DEF Init, Dated, Numbered, Due, At
  <2>2. ASSUME Init PROVE Counted
    <3> SUFFICES ASSUME NEW n \in Name PROVE acked[n] + Cardinality(Due(n)) <= db[n].num
      BY DEF Counted
    <3>1. Due(n) = {}
      BY <2>1, <2>2
    <3>2. acked[n] = 0 /\ db[n].num = 0
      BY <2>2 DEF Init, NoEntry
    <3>3. Cardinality(Due(n)) = 0
      BY <3>1, FS_EmptySet
    <3>4. QED
      BY <3>2, <3>3
  <2>3. QED
    BY <2>1, <2>2, InitTypes
<1>2. CInv /\ [Next]_vars => CInv'
  <2>1. TInv /\ [Next]_vars => Step /\ TInv'
    BY Steps, StepTypes DEF TInv
  <2>2. QED
    BY <2>1, DatedKept, NumberedKept, CountedKept
<1>3. CInv => AckedCounted
  <2>1. ASSUME CInv, NEW n \in Name PROVE acked[n] <= db[n].num
    <3> DEFINE D == Due(n)
    <3>1. D \in SUBSET (1..MaxCommands)
      BY DEF Due
    <3>2. acked[n] + Cardinality(D) <= db[n].num
      BY <2>1 DEF Counted
    <3> HIDE DEF D
    <3>3. Cardinality(D) \in Nat
      BY <3>1, DueCards
    <3>4. acked[n] \in Nat /\ db[n].num \in Nat
      BY <2>1 DEF TInv, TypeOK, Entry
    <3>5. QED
      BY <3>2, <3>3, <3>4
  <2>2. QED
    BY <2>1 DEF AckedCounted
<1> HIDE DEF CInv
<1>4. QED
  BY <1>1, <1>2, <1>3, PTL DEF Spec

-----------------------------------------------------------------------------
(* Overtaken writes stay overtaken.                                        *)

Touches(c, n) == c.name = n /\ c.op # "read"
Overwriting(c, n, id) == c.name = n /\ c.op \in Overwrites /\ c.id = id
Settled(n)    == db[n] = NoEntry \/ db[n].num = last[n]

\* Nothing on a name is the last of its connection but the last write of the name; and if
\* all of it is executed, the name holds what that wrote.
Followed(s, n) == \A i \in At(s) : Touches(queue[s][i], n) =>
                     \E p \in At(s) : i <= p /\ Overwriting(queue[s][p], n, last[n])
Resolved(s, n) == (\A i \in At(s) : Touches(queue[s][i], n) => queue[s][i].done) => Settled(n)
Overtaken == \A s \in Service, k \in Key : last[<<s, k>>] # 0 => Followed(s, <<s, k>>) /\ Resolved(s, <<s, k>>)

\* What other connections do leaves a name of this one as it was, or gone.
LEMMA OthersApart ==
    ASSUME TInv, TInv', Homed, Step, NEW s \in Service, NEW k \in Key,
           last'[<<s, k>>] # 0, queue'[s] = queue[s]
    PROVE  last'[<<s, k>>] = last[<<s, k>>] /\ (Settled(<<s, k>>) => Settled(<<s, k>>)')
<1> DEFINE n == <<s, k>>
<1>n. n \in Name /\ s # Raw /\ n[1] = s
  BY RawAssumption DEF Name, Raw
<1> HIDE DEF n
<1>1. ASSUME last'[n] = last[n], db'[n] = db[n]
      PROVE  last'[n] = last[n] /\ (Settled(n) => Settled(n)')
  BY <1>1 DEF Settled
<1>2. ASSUME NEW t \in Service, NEW op \in Ops \ {"expire"}, NEW h \in Key, Sent(t, op, h)
      PROVE  last'[n] = last[n] /\ db'[n] = db[n]
  <2>1. t # s
    <3>1. Len(queue'[t]) = Len(queue[t]) + 1 /\ Len(queue[t]) \in Nat
      BY <1>2, QueueType DEF Sent, TInv
    <3>2. QED
      BY <3>1
  <2>2. NameOf(t, op, h) \in Name /\ NameOf(t, op, h)[1] # s
    BY <1>2, <1>n, <2>1 DEF Sent
  <2>3. NameOf(t, op, h) # n
    BY <1>n, <2>2
  <2>4. QED
    BY <1>2, <1>n, <2>2, <2>3 DEF Sent, TInv, TypeOK
<1>3. ASSUME NEW t \in Service, NEW i \in At(t), Executed(t, i)
      PROVE  last'[n] = last[n] /\ db'[n] = db[n]
  <2>1. t # s
    BY <1>3 DEF Executed
  <2>2. queue[t][i].name \in Name /\ queue[t][i].name[1] \in {t, Raw}
    BY QueueType DEF TInv, Homed, HomedAt
  <2>3. queue[t][i].name # n
    BY <1>n, <2>1, <2>2
  <2>4. db' = [db EXCEPT ![queue[t][i].name] = After(queue[t][i].op, queue[t][i].id, db[queue[t][i].name])]
        /\ last' = last
    BY <1>3 DEF Executed
  <2>5. QED
    BY <1>n, <2>2, <2>3, <2>4 DEF TInv, TypeOK
<1>4. ASSUME Tick
      PROVE  last'[n] = last[n] /\ (Settled(n) => Settled(n)')
  <2>1. last' = last
    BY <1>4 DEF Tick
  <2>2. db'[n] \in {NoEntry, db[n], [db[n] EXCEPT !.ttl = @ - 1]}
    BY <1>4, <1>n DEF Tick
  <2>3. db'[n] = NoEntry \/ db'[n].num = db[n].num
    <3>1. db[n] \in Entry
      BY <1>n DEF TInv, TypeOK
    <3>2. QED
      BY <2>2, <3>1 DEF Entry
  <2>4. db[n] = NoEntry => db'[n] = NoEntry
    BY <1>4, <1>n DEF Tick, NoEntry
  <2>5. QED
    BY <2>1, <2>3, <2>4 DEF Settled
<1>5. ASSUME Crash
      PROVE  FALSE
  <2>1. last'[n] = 0
    BY <1>5, <1>n DEF Crash
  <2>2. QED
    BY <2>1 DEF n
<1>6. \/ last' = last /\ db' = db
      \/ Tick \/ Crash
      \/ last'[n] \in {0, last[n]} /\ db' = db
      \/ \E t \in Service, op \in Ops \ {"expire"}, h \in Key : Sent(t, op, h)
      \/ \E t \in Service : \E i \in At(t) : Executed(t, i)
  <2>1. \A t \in Service : \A m, f : Lost(t, m, f) => last'[n] \in {0, last[n]} /\ db' = db
    BY <1>n DEF Lost
  <2>2. \A t \in Service : Received(t) => last' = last /\ db' = db
    BY DEF Received
  <2>3. Quiet => last' = last /\ db' = db
    BY DEF Quiet
  <2>4. QED
    BY <2>1, <2>2, <2>3 DEF Step
<1>7. last'[n] = last[n] /\ (Settled(n) => Settled(n)')
  <2>1. last'[n] # 0
    BY DEF n
  <2>2. QED
    BY <1>1, <1>2, <1>3, <1>4, <1>5, <1>6, <2>1
<1>8. QED
  BY <1>7 DEF n

\* Each step on the connection keeps the last write of a name the last one on it.
LEMMA OvertakenKept ==
    ASSUME TInv, TInv', InTurn, Homed, Overtaken, Step
    PROVE  Overtaken'
<1> SUFFICES ASSUME NEW s \in Service, NEW k \in Key, last'[<<s, k>>] # 0
             PROVE  Followed(s, <<s, k>>)' /\ Resolved(s, <<s, k>>)'
  BY DEF Overtaken
<1> DEFINE n == <<s, k>>
           l == Len(queue[s])
<1>n. n \in Name /\ last'[n] # 0
  BY DEF Name
<1>p. /\ l \in Nat /\ Len(queue'[s]) \in Nat
      /\ \A i \in At(s) : i \in Int /\ 1 <= i /\ i <= l
      /\ \A i \in At(s)' : i \in Int /\ 1 <= i /\ i <= Len(queue'[s])
      /\ At(s) = 1..l /\ At(s)' = 1..Len(queue'[s])
  BY Positions DEF At
<1>o. last[n] # 0 => Followed(s, n) /\ Resolved(s, n)
  BY DEF Overtaken
<1>r. "read" \notin Overwrites
  BY DEF Overwrites
<1> HIDE DEF n
<1> SUFFICES Followed(s, n)' /\ Resolved(s, n)'
  BY DEF n
<1>1. ASSUME queue'[s] = queue[s]
      PROVE  Followed(s, n)' /\ Resolved(s, n)'
  <2>1. last'[n] = last[n] /\ (Settled(n) => Settled(n)')
    BY <1>1, OthersApart DEF n
  <2>2. QED
    BY <1>1, <1>n, <1>o, <1>p, <2>1 DEF Followed, Resolved, Overwriting
<1>2. ASSUME NEW op \in Ops \ {"expire"}, NEW h \in Key, Sent(s, op, h)
      PROVE  Followed(s, n)' /\ Resolved(s, n)'
  <2> DEFINE d == queue'[s][l + 1]
             v == IF op = "read" THEN last[n] ELSE IF op \in Overwrites THEN calls' ELSE 0
  <2>1. /\ At(s)' = At(s) \cup {l + 1} /\ db' = db
        /\ \A i \in At(s) : queue'[s][i] = queue[s][i]
        /\ d.op = op /\ d.id = calls' /\ d.name = NameOf(s, op, h) /\ d.done = FALSE
        /\ last' = [last EXCEPT ![NameOf(s, op, h)] =
                       IF op = "read" THEN @ ELSE IF op \in Overwrites THEN calls' ELSE 0]
    BY <1>2, <1>p, Positions DEF Sent
  <2>2. \A i \in At(s)' : i <= l + 1
    BY <1>p, <2>1
  <2> HIDE DEF d
  <2>3. CASE NameOf(s, op, h) = n /\ op \in Overwrites
    <3>1. last'[n] = calls'
      BY <1>n, <1>r, <2>1, <2>3 DEF TInv, TypeOK
    <3>2. Overwriting(queue'[s][l + 1], n, last'[n]) /\ Touches(queue'[s][l + 1], n) /\ l + 1 \in At(s)' /\ ~d.done
      BY <1>r, <2>1, <2>3, <3>1 DEF Overwriting, Touches, d
    <3>3. Followed(s, n)'
      BY <2>2, <3>2 DEF Followed
    <3>4. Resolved(s, n)'
      BY <3>2 DEF Resolved, d
    <3>5. QED
      BY <3>3, <3>4
  <2>4. CASE NameOf(s, op, h) # n \/ op = "read"
    <3>1. last'[n] = last[n] /\ ~Touches(queue'[s][l + 1], n)
      BY <1>n, <2>1, <2>4 DEF TInv, TypeOK, Touches, d
    <3>2. Followed(s, n) /\ Resolved(s, n)
      BY <1>n, <1>o, <3>1
    <3>3. Followed(s, n)'
      BY <2>1, <3>1, <3>2 DEF Followed, Overwriting
    <3>4. Resolved(s, n)'
      BY <2>1, <3>1, <3>2 DEF Resolved, Settled
    <3>5. QED
      BY <3>3, <3>4
  <2>5. CASE NameOf(s, op, h) = n /\ op \notin Overwrites /\ op # "read"
    BY <1>n, <2>1, <2>5 DEF TInv, TypeOK
  <2>6. QED
    BY <2>3, <2>4, <2>5
<1>3. ASSUME NEW m \in At(s), Executed(s, m)
      PROVE  Followed(s, n)' /\ Resolved(s, n)'
  <2> DEFINE c == queue[s][m]
             a == After(c.op, c.id, db[c.name])
  <2>1. /\ At(s)' = At(s) /\ last' = last /\ db' = [db EXCEPT ![c.name] = a] /\ c.done = FALSE
        /\ \A i \in At(s) : queue'[s][i].op = queue[s][i].op /\ queue'[s][i].id = queue[s][i].id
                            /\ queue'[s][i].name = queue[s][i].name
        /\ \A i \in At(s) : i # m => queue'[s][i].done = queue[s][i].done
    BY <1>3, <1>p DEF Executed
  <2>2. Followed(s, n) /\ Resolved(s, n)
    BY <1>n, <1>o, <2>1
  <2>3. Followed(s, n)'
    BY <2>1, <2>2 DEF Followed, Overwriting, Touches
  <2>4. c.op \in Ops /\ c.id \in 1..MaxCommands /\ c.name \in Name /\ db[c.name] \in Entry /\ WellFormed(db[c.name])
    BY QueueType DEF TInv, TypeOK, Shaped
  <2>5. (c.op \in Overwrites => a = NoEntry \/ a.num = c.id) /\ (c.op = "read" => a = db[c.name])
    BY <2>4, AfterStep
  <2> HIDE DEF a
  <2>6. ASSUME \A i \in At(s)' : Touches(queue'[s][i], n) => queue'[s][i].done
        PROVE  Settled(n)'
    <3>1. \A i \in At(s) : i # m /\ Touches(queue[s][i], n) => queue[s][i].done
      BY <2>1, <2>6 DEF Touches
    <3>2. CASE Touches(c, n)
      <4>1. PICK p \in At(s) : m <= p /\ Overwriting(queue[s][p], n, last[n])
        BY <2>2, <3>2 DEF Followed
      <4>2. p = m
        <5>1. SUFFICES ASSUME p # m PROVE FALSE
          OBVIOUS
        <5>2. m < p
          BY <1>p, <4>1, <5>1
        <5>3. queue[s][p].done
          BY <1>r, <3>1, <4>1, <5>1 DEF Overwriting, Touches
        <5>4. c.done
          BY <5>2, <5>3 DEF InTurn
        <5>5. QED
          BY <2>1, <5>4
      <4>3. c.name = n /\ c.op \in Overwrites /\ c.id = last[n]
        BY <4>1, <4>2 DEF Overwriting
      <4>4. db'[n] = a
        BY <1>n, <2>1, <4>3 DEF TInv, TypeOK
      <4>5. QED
        BY <2>1, <2>5, <4>3, <4>4 DEF Settled
    <3>3. CASE ~Touches(c, n)
      <4>1. Settled(n)
        BY <2>2, <3>1, <3>3 DEF Resolved
      <4>2. db'[n] = db[n]
        BY <1>n, <2>1, <2>4, <2>5, <3>3 DEF Touches, TInv, TypeOK
      <4>3. QED
        BY <2>1, <4>1, <4>2 DEF Settled
    <3>4. QED
      BY <3>2, <3>3
  <2>7. QED
    BY <2>3, <2>6 DEF Resolved
<1>4. ASSUME Received(s)
      PROVE  Followed(s, n)' /\ Resolved(s, n)'
  <2>1. last' = last /\ db' = db /\ l # 0 /\ 1 \in At(s) /\ queue[s][1].done
    BY <1>4 DEF Received, At
  <2>2. ~GoesOn(s)
    <3>1. s # AmqpCache
      BY <1>n, <2>1 DEF Homed, n
    <3>2. QED
      BY <2>1, <3>1 DEF Homed, HomedAt, GoesOn
  <2>3. At(s)' = 1..(l - 1) /\ \A i \in 1..(l - 1) : queue'[s][i] = queue[s][i + 1]
    BY <1>4, <1>p, <2>2 DEF Received
  <2>4. Followed(s, n) /\ Resolved(s, n)
    BY <1>n, <1>o, <2>1
  <2>5. ASSUME NEW i \in At(s)', Touches(queue'[s][i], n)
        PROVE  \E p \in At(s)' : i <= p /\ Overwriting(queue'[s][p], n, last'[n])
    <3>1. i + 1 \in At(s) /\ Touches(queue[s][i + 1], n) /\ i \in Int /\ 1 <= i
      BY <1>p, <2>3, <2>5
    <3>2. PICK p \in At(s) : i + 1 <= p /\ Overwriting(queue[s][p], n, last[n])
      BY <2>4, <3>1 DEF Followed
    <3>3. p - 1 \in At(s)' /\ i <= p - 1 /\ (p - 1) + 1 = p
      BY <1>p, <2>3, <3>1, <3>2
    <3>4. queue'[s][p - 1] = queue[s][p]
      BY <2>3, <3>3
    <3>5. Overwriting(queue'[s][p - 1], n, last'[n])
      BY <2>1, <3>2, <3>4 DEF Overwriting
    <3>6. QED
      BY <3>3, <3>5
  <2>6. ASSUME \A i \in At(s)' : Touches(queue'[s][i], n) => queue'[s][i].done
        PROVE  Settled(n)'
    <3>1. ASSUME NEW j \in At(s), Touches(queue[s][j], n)
          PROVE  queue[s][j].done
      <4>1. CASE j = 1
        BY <2>1, <4>1
      <4>2. CASE j # 1
        <5>1. j - 1 \in At(s)' /\ (j - 1) + 1 = j
          BY <1>p, <2>3, <4>2
        <5>2. queue'[s][j - 1] = queue[s][j]
          BY <2>3, <5>1
        <5>3. QED
          BY <2>6, <3>1, <5>1, <5>2
      <4>3. QED
        BY <4>1, <4>2
    <3>2. QED
      BY <2>1, <2>4, <3>1 DEF Resolved, Settled
  <2>7. Followed(s, n)'
    BY <2>5 DEF Followed
  <2>8. QED
    BY <2>6, <2>7 DEF Resolved
<1>5. ASSUME NEW m, NEW f, Lost(s, m, f)
      PROVE  Followed(s, n)' /\ Resolved(s, n)'
  <2>0. last'[n] = last[n] /\ \A c \in Gone(s, m) : c.id # last[n]
    BY <1>5, <1>n DEF Lost
  <2>1. /\ db' = db /\ f \in [At(s)' -> At(s)]
        /\ \A i, j \in At(s)' : i < j => f[i] < f[j]
        /\ \A i \in 1..m : queue[s][i].op # "hSetWithExpire" => \E j \in At(s)' : f[j] = i
        /\ \A i \in At(s)' : /\ queue'[s][i].op = queue[s][f[i]].op /\ queue'[s][i].id = queue[s][f[i]].id
                             /\ queue'[s][i].name = queue[s][f[i]].name /\ queue'[s][i].done = FALSE
    BY <1>5 DEF Lost, Resent, At
  <2>2. Followed(s, n) /\ Resolved(s, n)
    BY <1>n, <1>o, <2>0
  <2>3. ASSUME NEW p \in At(s), Overwriting(queue[s][p], n, last[n])
        PROVE  \E j \in At(s)' : f[j] = p /\ Overwriting(queue'[s][j], n, last'[n])
    <3>1. queue[s][p].op # "hSetWithExpire"
      BY <2>3 DEF Overwriting, Overwrites
    <3>2. p \in 1..m
      BY <2>0, <2>3 DEF Overwriting, Gone
    <3>3. PICK j \in At(s)' : f[j] = p
      BY <2>1, <3>1, <3>2
    <3>4. QED
      BY <2>0, <2>1, <2>3, <3>3 DEF Overwriting
  <2>4. ASSUME NEW i \in At(s)', Touches(queue'[s][i], n)
        PROVE  \E p \in At(s)' : i <= p /\ Overwriting(queue'[s][p], n, last'[n])
    <3>1. f[i] \in At(s) /\ Touches(queue[s][f[i]], n)
      BY <2>1, <2>4 DEF Touches
    <3>2. PICK p \in At(s) : f[i] <= p /\ Overwriting(queue[s][p], n, last[n])
      BY <2>2, <3>1 DEF Followed
    <3>3. PICK j \in At(s)' : f[j] = p /\ Overwriting(queue'[s][j], n, last'[n])
      BY <2>3, <3>2
    <3>4. i <= j
      <4>1. ~(j < i)
        BY <1>p, <2>1, <3>1, <3>2, <3>3
      <4>2. QED
        BY <1>p, <4>1
    <3>5. QED
      BY <3>3, <3>4
  <2>5. ASSUME \A i \in At(s)' : Touches(queue'[s][i], n) => queue'[s][i].done
        PROVE  Settled(n)'
    <3>1. ASSUME NEW i \in At(s), Touches(queue[s][i], n)
          PROVE  FALSE
      <4>1. PICK p \in At(s) : Overwriting(queue[s][p], n, last[n])
        BY <2>2, <3>1 DEF Followed
      <4>2. PICK j \in At(s)' : Overwriting(queue'[s][j], n, last'[n])
        BY <2>3, <4>1
      <4>3. Touches(queue'[s][j], n)
        BY <1>r, <4>2 DEF Overwriting, Touches
      <4>4. QED
        BY <2>1, <2>5, <4>3
    <3>2. QED
      BY <2>0, <2>1, <2>2, <3>1 DEF Resolved, Settled
  <2>6. Followed(s, n)'
    BY <2>4 DEF Followed
  <2>7. QED
    BY <2>5, <2>6 DEF Resolved
<1>6. ASSUME Crash
      PROVE  FALSE
  BY <1>6, <1>n DEF Crash
<1>7. QED
  BY <1>1, <1>2, <1>3, <1>4, <1>5, <1>6, OneQueue

\* What was written last under a name, by a call that need not know what was there, is
\* what it holds once its connection has nothing left to send, unless it is gone or was
\* given up: writes sent again after a lost connection do not come back over it.
THEOREM LastWriteKept == Spec => []LastWriteWins
<1> DEFINE OInv == TInv /\ InTurn /\ Homed /\ Overtaken
<1>1. Init => OInv
  <2>1. ASSUME Init PROVE InTurn /\ Homed /\ Overtaken
    <3>1. \A s \in Service : At(s) = {}
      BY <2>1, EmptySeq DEF Init, At
    <3>2. \A s \in Service, k \in Key : <<s, k>> \in Name /\ last[<<s, k>>] = 0
      BY <2>1 DEF Init, Name
    <3>3. QED
      BY <3>1, <3>2, AmqpAssumption DEF InTurn, Homed, Overtaken
  <2>2. QED
    BY <2>1, InitTypes
<1>2. OInv /\ [Next]_vars => OInv'
  <2>1. TInv /\ [Next]_vars => Step /\ TInv'
    BY Steps, StepTypes DEF TInv
  <2>2. QED
    BY <2>1, TurnKept, HomedKept, OvertakenKept
<1>3. OInv => LastWriteWins
  <2>1. ASSUME OInv, NEW s \in Service, NEW k \in Key, queue[s] = <<>>, last[<<s, k>>] # 0
        PROVE  Settled(<<s, k>>)
    <3>1. At(s) = {}
      BY <2>1, EmptySeq DEF At
    <3>2. QED
      BY <2>1, <3>1 DEF Overtaken, Resolved
  <2>2. QED
    BY <2>1 DEF LastWriteWins, cacheKey, Settled
<1> HIDE DEF OInv
<1>4. QED
  BY <1>1, <1>2, <1>3, PTL DEF Spec
=============================================================================
