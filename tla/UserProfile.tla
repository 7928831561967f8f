----------------------------- MODULE UserProfile -----------------------------
(***************************************************************************)
(* The profile of a user: getProfile, which reads through TypeORM's query   *)
(* cache in Redis, and updateProfile and removeUser, which write in a       *)
(* transaction and leave the cache alone.  PostgreSQL (read committed, row  *)
(* locks), Redis and TypeORM 0.3 are external.                              *)
(*                                                                         *)
(* A step ends where the code awaits the database or Redis.                 *)
(***************************************************************************)
EXTENDS Integers

CONSTANTS
    Client,      \* connections to the service, each with one call at a time
    User,        \* ids of users, known or not
    Known,       \* the ids that have a row; the service cannot insert one
    Viewed,      \* bound: the ids that getProfile and updateProfile are called for
    Ttl,         \* lifetime of a cache entry, in ticks
    MaxUpdates,  \* bound: calls of updateProfile
    MaxAge       \* bound: ticks that the history variables count up to

ASSUME UsersAssumption  == Known \subseteq User /\ Viewed \subseteq User
ASSUME TtlAssumption    == Ttl \in Nat \ {0}
ASSUME BoundsAssumption == /\ MaxUpdates \in Nat
                           /\ MaxAge \in Nat /\ MaxAge > Ttl

VARIABLES
    row,      \* the committed row of each user
    lock,     \* the client whose transaction holds a user's row
    cache,    \* Redis: the entry profile:<id> of each user
    stage,    \* where each client's call is
    call,     \* the call itself
    buf,      \* what the call has read or is about to commit
    answer,   \* the answer to the last call
    updates,  \* calls of updateProfile so far, which number what they write
    age       \* history: ticks since each value last was a user's profile, if ever

table   == <<row, lock>>
request == <<stage, call, buf, answer>>
profile == <<table, cache, request, updates, age>>

Null == 0                   \* findOne's null: no row, or one with deleted_at
Profiles == 0..(MaxUpdates + 1)   \* Null, what the row held at first, and what each update writes
Free == "free"
ASSUME FreeAssumption == Free \notin Client
NoEntry == [val |-> Null, left |-> 0, lag |-> 0]
NoCall  == [op |-> "none", id |-> Free, val |-> Null]
NoAnswer == [status |-> "none", val |-> Null]
NoBuf   == [val |-> Null, lag |-> 0]

Ops == {"none", "getProfile", "updateProfile", "removeUser"}
Stages == {"idle", "cache_get", "select", "store", "write", "commit"}
Statuses == {"none", "profile", "affected", "failed"}

TypeOK ==
    /\ row \in [User -> [live: BOOLEAN, ver: Profiles]]
    /\ lock \in [User -> Client \cup {Free}]
    /\ cache \in [User -> [val: Profiles, left: 0..Ttl, lag: 0..MaxAge]]
    /\ stage \in [Client -> Stages]
    /\ call \in [Client -> [op: Ops, id: User \cup {Free}, val: Profiles]]
    /\ buf \in [Client -> [val: Profiles, lag: 0..MaxAge]]
    /\ answer \in [Client -> [status: Statuses, val: Profiles]]
    /\ updates \in 0..MaxUpdates
    /\ age \in [User -> [Profiles -> 0..MaxAge]]

\* What SELECT ... WHERE id = $1 AND deleted_at IS NULL returns.
Visible(u) == IF row[u].live THEN row[u].ver ELSE Null

\* UPDATE and the soft delete match a row by its id, removed or not.
Affected(u) == IF row[u].ver = Null THEN 0 ELSE 1

Older(n) == IF n < MaxAge THEN n + 1 ELSE n

Init ==
    /\ row = [u \in User |-> [live |-> u \in Known, ver |-> IF u \in Known THEN 1 ELSE Null]]
    /\ lock = [u \in User |-> Free]
    /\ cache = [u \in User |-> NoEntry]
    /\ stage = [c \in Client |-> "idle"]
    /\ call = [c \in Client |-> NoCall]
    /\ buf = [c \in Client |-> NoBuf]
    /\ answer = [c \in Client |-> NoAnswer]
    /\ updates = 0
    /\ age = [u \in User |-> [v \in Profiles |-> IF v = Visible(u) THEN 0 ELSE MaxAge]]

-----------------------------------------------------------------------------
(* Calls and their answers.                                                *)

Goto(c, s) == stage' = [stage EXCEPT ![c] = s]

\* A call that is answered is forgotten.
Answer(c, status, val) ==
    /\ Goto(c, "idle")
    /\ call' = [call EXCEPT ![c] = NoCall]
    /\ buf' = [buf EXCEPT ![c] = NoBuf]
    /\ answer' = [answer EXCEPT ![c] = [status |-> status, val |-> val]]

\* A call starts, at the stage it first waits in.
Start(c, op, u, val, first) ==
    /\ stage[c] = "idle"
    /\ call' = [call EXCEPT ![c] = [op |-> op, id |-> u, val |-> val]]
    /\ Goto(c, first)
    /\ answer' = [answer EXCEPT ![c] = NoAnswer]
    /\ UNCHANGED <<table, cache, buf, age>>

GetProfile(c, u) == Start(c, "getProfile", u, Null, "cache_get") /\ UNCHANGED updates

UpdateProfile(c, u) ==
    /\ updates < MaxUpdates   \* bound
    /\ updates' = updates + 1
    /\ Start(c, "updateProfile", u, updates + 2, "write")

\* Without a file, which ParseFilePipe allows, file.originalname throws first.
UpdateWithoutFile(c) ==
    /\ stage[c] = "idle"
    /\ Answer(c, "failed", Null)
    /\ UNCHANGED <<table, cache, updates, age>>

RemoveUser(c, u) == Start(c, "removeUser", u, Null, "write") /\ UNCHANGED updates

-----------------------------------------------------------------------------
(* sqlFindOne with cache: GET, on a miss SELECT, then SET with PX.          *)

MutantCacheGet(c) ==   \* Mutant: every hit renews the entry's lifetime
    LET u == call[c].id IN
    /\ stage[c] = "cache_get"
    /\ IF cache[u].left > 0
       THEN Answer(c, "profile", cache[u].val) /\ cache' = [cache EXCEPT ![u].left = Ttl]
       ELSE Goto(c, "select") /\ UNCHANGED <<answer, call, buf, cache>>
    /\ UNCHANGED <<table, updates, age>>

CacheGet(c) ==
    LET u == call[c].id IN
    /\ stage[c] = "cache_get"
    /\ IF cache[u].left > 0
       THEN Answer(c, "profile", cache[u].val)
       ELSE Goto(c, "select") /\ UNCHANGED <<answer, call, buf>>
    /\ UNCHANGED <<table, cache, updates, age>>

Select(c) ==
    /\ stage[c] = "select"
    /\ buf' = [buf EXCEPT ![c] = [val |-> Visible(call[c].id), lag |-> 0]]
    /\ Goto(c, "store")
    /\ UNCHANGED <<table, cache, call, answer, updates, age>>

\* The lifetime runs from the store, not from the SELECT; null is stored too.
Store(c) ==
    /\ stage[c] = "store"
    /\ cache' = [cache EXCEPT ![call[c].id] =
            [val |-> buf[c].val, left |-> Ttl, lag |-> buf[c].lag]]
    /\ Answer(c, "profile", buf[c].val)
    /\ UNCHANGED <<table, updates, age>>

\* Redis or the database fails under a read: the call fails, also when only SET did.
ReadFails(c) ==
    /\ stage[c] \in {"cache_get", "select", "store"}
    /\ Answer(c, "failed", Null)
    /\ UNCHANGED <<table, cache, updates, age>>

-----------------------------------------------------------------------------
(* sqlUpdate and sqlSoftDelete: mergeTransaction opens a transaction, as no *)
(* caller passes a manager that is in one.                                  *)

Locked(c, u) == lock[u] = c

\* START TRANSACTION, then UPDATE, which waits for the row.
Write(c) ==
    LET u == call[c].id IN
    /\ stage[c] = "write" /\ lock[u] = Free
    /\ lock' = IF Affected(u) = 1 THEN [lock EXCEPT ![u] = c] ELSE lock
    /\ buf' = [buf EXCEPT ![c] = [val |-> Affected(u), lag |-> 0]]
    /\ Goto(c, "commit")
    /\ UNCHANGED <<row, cache, call, answer, updates, age>>

\* UPDATE sets the columns of the body, softDelete only deleted_at.
Written(c) ==
    LET u == call[c].id IN
    IF ~Locked(c, u) THEN row[u]
    ELSE IF call[c].op = "updateProfile" THEN [row[u] EXCEPT !.ver = call[c].val]
    ELSE [row[u] EXCEPT !.live = FALSE]

MutantRelease(c) == UNCHANGED lock   \* Mutant: the transaction is left open

Release(c) == lock' = [u \in User |-> IF Locked(c, u) THEN Free ELSE lock[u]]

\* The row becomes what the transaction wrote; history: its profile is current again.
CommitRow(c) ==
    LET u == call[c].id
        new == IF Written(c).live THEN Written(c).ver ELSE Null
    IN  /\ row' = [row EXCEPT ![u] = Written(c)]
        /\ age' = [age EXCEPT ![u][new] = 0]
        /\ Release(c)

MutantCommit(c) ==   \* Mutant: the caller does not await the transaction
    /\ stage[c] = "commit"
    /\ CommitRow(c) \/ (Release(c) /\ UNCHANGED <<row, age>>)
    /\ Answer(c, "affected", buf[c].val)
    /\ UNCHANGED <<cache, updates>>

Commit(c) ==
    /\ stage[c] = "commit"
    /\ CommitRow(c)
    /\ Answer(c, "affected", buf[c].val)
    /\ UNCHANGED <<cache, updates>>

\* The transaction fails and rolls back, or its COMMIT is done and not heard of.
WriteFails(c) ==
    /\ stage[c] \in {"write", "commit"}
    /\ \/ Release(c) /\ UNCHANGED <<row, age>>
       \/ stage[c] = "commit" /\ CommitRow(c)
    /\ Answer(c, "failed", Null)
    /\ UNCHANGED <<cache, updates>>

-----------------------------------------------------------------------------
(* Time and crashes.                                                       *)

\* Redis drops an entry at the end of its lifetime.
Expire(e) == IF e.left > 1 THEN [e EXCEPT !.left = @ - 1] ELSE NoEntry

Tick ==
    /\ cache' = [u \in User |-> Expire(cache[u])]
    /\ buf' = [c \in Client |->
                  IF stage[c] = "store" THEN [buf[c] EXCEPT !.lag = Older(@)] ELSE buf[c]]
    /\ age' = [u \in User |-> [v \in Profiles |->
                  IF v = Visible(u) THEN age[u][v] ELSE Older(age[u][v])]]
    /\ UNCHANGED <<table, stage, call, answer, updates>>

\* Calls are lost and transactions rolled back; Redis keeps its entries.
Crash ==
    /\ lock' = [u \in User |-> Free]
    /\ stage' = [c \in Client |-> "idle"]
    /\ answer' = [c \in Client |-> NoAnswer]
    /\ call' = [c \in Client |-> NoCall]
    /\ buf' = [c \in Client |-> NoBuf]
    /\ UNCHANGED <<row, cache, updates, age>>

Calls(c) ==
    \/ \E u \in Viewed : GetProfile(c, u)
    \/ \E u \in Viewed : UpdateProfile(c, u)
    \/ UpdateWithoutFile(c)
    \/ \E u \in User : RemoveUser(c, u)

Reads(c)  == CacheGet(c) \/ Select(c) \/ Store(c) \/ ReadFails(c)
Writes(c) == Write(c) \/ Commit(c) \/ WriteFails(c)

Next ==
    \/ \E c \in Client : Calls(c) \/ Reads(c) \/ Writes(c)
    \/ Tick
    \/ Crash

Spec == Init /\ [][Next]_profile

\* The database and Redis answer or fail, a row is granted in the order of asking, time
\* passes; no timeout is set on the wait for a row.
Fairness ==
    /\ \A c \in Client : WF_profile(Reads(c)) /\ SF_profile(Write(c)) /\ WF_profile(Commit(c))
    /\ WF_profile(Tick)

FairSpec == Spec /\ Fairness

-----------------------------------------------------------------------------
(* Properties.                                                             *)

\* What a cache entry holds stopped being the user's profile no longer ago than the
\* entry has been in Redis plus the time its reader took from SELECT to SET, whatever
\* was written, removed or stored meanwhile (getProfile's 20000 ms).
BoundedStaleness ==
    \A u \in User : cache[u].left > 0 =>
        age[u][cache[u].val] <= (Ttl - cache[u].left) + cache[u].lag

\* An affected count tells the truth: 1 only once the row holds what the call wrote, 0
\* only for an unknown id; and a call that wrote nothing leaves the row as it was.
TruthfulCount ==
    [][\A c \in Client : stage[c] \in {"write", "commit"} /\ stage'[c] = "idle" =>
        LET u == call[c].id IN
        answer'[c].status = "affected" =>
            IF answer'[c].val = 0 THEN u \notin Known /\ row'[u] = row[u]
            ELSE IF call[c].op = "updateProfile" THEN row'[u].ver = call[c].val
            ELSE ~row'[u].live]_profile

\* A removed user never comes back, though updateProfile writes removed rows too.
RemovalFinal == [][\A u \in User : row[u].ver # Null /\ ~row[u].live => ~row'[u].live]_profile

\* Every call is answered or lost in a crash: no transaction keeps its row for ever.
Answered == \A c \in Client : (stage[c] # "idle") ~> (stage[c] = "idle")

=============================================================================
