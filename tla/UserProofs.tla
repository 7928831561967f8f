----------------------------- MODULE UserProofs -----------------------------
(***************************************************************************)
(* Proofs about UserProfile, for any clients, users, lifetimes and bounds,  *)
(* and about UserList, for any users and sizes of pages.                    *)
(***************************************************************************)
EXTENDS UserProfile, UserList, FiniteSetTheorems, TLAPS

-----------------------------------------------------------------------------
(* UserProfile.                                                            *)

\* The known ids have a row, for ever, and the others none.
RowOK == \A u \in User : row[u].ver # Null <=> u \in Known

\* What is kept for a call fits where it is.
CallOK == \A c \in Client :
    /\ stage[c] # "idle" => call[c].id \in User
    /\ stage[c] \in {"cache_get", "select", "store"} => call[c].op = "getProfile"
    /\ stage[c] \in {"write", "commit"} =>
           \/ call[c].op = "updateProfile" /\ call[c].val # Null
           \/ call[c].op = "removeUser"

\* A transaction about to commit has locked its row, or found none; nobody else has locks.
LockOK ==
    /\ \A c \in Client : stage[c] = "commit" =>
           IF call[c].id \in Known THEN buf[c].val = 1 /\ lock[call[c].id] = c
                                   ELSE buf[c].val = 0
    /\ \A u \in User : lock[u] # Free =>
           stage[lock[u]] = "commit" /\ call[lock[u]].id = u /\ u \in Known

\* The profile that a user has now is not old.
AgeNow == \A u \in User : age[u][Visible(u)] = 0

\* What a reader is about to store is no older than the time since its SELECT.
BufOK == \A c \in Client :
    stage[c] = "store" => age[call[c].id][buf[c].val] <= buf[c].lag

IInv == TypeOK /\ RowOK /\ CallOK /\ LockOK /\ AgeNow /\ BufOK /\ BoundedStaleness

\* Nothing is cached, called or locked yet.
LEMMA InitInv == Init => IInv
<1> SUFFICES ASSUME Init PROVE IInv
  OBVIOUS
<1> USE UsersAssumption, TtlAssumption, BoundsAssumption
        DEF Null, Profiles, NoEntry, NoCall, NoBuf, NoAnswer, Visible
<1>1. TypeOK
  BY DEF Init, TypeOK, Ops, Stages, Statuses
<1>2. RowOK
  BY DEF Init, RowOK
<1>3. CallOK /\ LockOK /\ BufOK /\ BoundedStaleness
  BY DEF Init, CallOK, LockOK, BufOK, BoundedStaleness
<1>4. AgeNow
  BY DEF Init, AgeNow
<1>5. QED
  BY <1>1, <1>2, <1>3, <1>4 DEF IInv

\* What a transaction commits is a row, its user's for ever.
LEMMA CommitRowStep ==
    ASSUME IInv, NEW c \in Client, stage[c] = "commit", CommitRow(c)
    PROVE  /\ row' \in [User -> [live: BOOLEAN, ver: Profiles]]
           /\ age' \in [User -> [Profiles -> 0..MaxAge]]
           /\ RowOK' /\ AgeNow'
           /\ \A u \in User, v \in Profiles : age'[u][v] <= age[u][v]
           /\ lock' = [u \in User |-> IF lock[u] = c THEN Free ELSE lock[u]]
<1> DEFINE u == call[c].id
           new == IF Written(c).live THEN Written(c).ver ELSE Null
<1> USE BoundsAssumption DEF Null, Profiles
<1>1. /\ u \in User /\ call[c].val \in Profiles
      /\ call[c].op = "updateProfile" => call[c].val # Null
      /\ row[u] \in [live: BOOLEAN, ver: Profiles]
  BY DEF IInv, TypeOK, CallOK
<1>2. /\ Written(c) \in [live: BOOLEAN, ver: Profiles]
      /\ Written(c).ver # Null <=> u \in Known
  <2>1. lock[u] = c => u \in Known
    BY <1>1, FreeAssumption DEF IInv, LockOK
  <2>2. row[u].ver # Null <=> u \in Known
    BY <1>1 DEF IInv, RowOK
  <2>3. QED
    BY <1>1, <2>1, <2>2 DEF Written, Locked
<1>3. /\ row' = [row EXCEPT ![u] = Written(c)]
      /\ age' = [age EXCEPT ![u][new] = 0]
      /\ lock' = [v \in User |-> IF lock[v] = c THEN Free ELSE lock[v]]
  BY DEF CommitRow, Release, Locked
<1>4. new \in Profiles
  BY <1>2
<1>5. /\ row' \in [User -> [live: BOOLEAN, ver: Profiles]]
      /\ age' \in [User -> [Profiles -> 0..MaxAge]]
  <2>1. row' \in [User -> [live: BOOLEAN, ver: Profiles]]
    BY <1>1, <1>2, <1>3 DEF IInv, TypeOK
  <2>2. age' \in [User -> [Profiles -> 0..MaxAge]]
    <3> HIDE DEF Profiles, new, u
    <3>1. [age[u] EXCEPT ![new] = 0] \in [Profiles -> 0..MaxAge]
      <4>1. age[u] \in [Profiles -> 0..MaxAge] /\ 0 \in 0..MaxAge
        BY <1>1 DEF IInv, TypeOK
      <4>2. QED
        BY <1>4, <4>1
    <3>2. age' = [age EXCEPT ![u] = [age[u] EXCEPT ![new] = 0]]
      BY <1>3
    <3>3. QED
      BY <1>1, <3>1, <3>2 DEF IInv, TypeOK
  <2>3. QED
    BY <2>1, <2>2
<1>6. RowOK'
  BY <1>1, <1>2, <1>3 DEF IInv, RowOK, TypeOK
<1>7. AgeNow'
  <2>1. ASSUME NEW w \in User PROVE age'[w][Visible(w)'] = 0
    <3>1. CASE w = u
      <4>1. Visible(w)' = new
        BY <1>1, <1>3, <3>1 DEF Visible, IInv, TypeOK
      <4>2. QED
        BY <1>1, <1>3, <1>4, <3>1, <4>1 DEF IInv, TypeOK
    <3>2. CASE w # u
      BY <1>3, <3>2 DEF Visible, IInv, TypeOK, AgeNow
    <3>3. QED
      BY <3>1, <3>2
  <2>2. QED
    BY <2>1 DEF AgeNow
<1>8. \A w \in User, v \in Profiles : age'[w][v] <= age[w][v]
  <2>1. ASSUME NEW w \in User, NEW v \in Profiles PROVE age'[w][v] <= age[w][v]
    <3> HIDE DEF Profiles, new, u
    <3>1. age[w] \in [Profiles -> 0..MaxAge] /\ age[w][v] \in 0..MaxAge
      BY DEF IInv, TypeOK
    <3>2. age'[w][v] = age[w][v] \/ age'[w][v] = 0
      BY <1>1, <1>3, <1>4, <3>1 DEF IInv, TypeOK
    <3>3. QED
      BY <3>1, <3>2
  <2>2. QED
    BY <2>1
<1>9. QED
  BY <1>3, <1>5, <1>6, <1>7, <1>8

\* A call begins: nothing it waits for has been done.
LEMMA StartStep ==
    ASSUME IInv, NEW c \in Client, NEW op \in Ops, NEW u \in User, NEW val \in Profiles,
           NEW first \in {"cache_get", "write"}, Start(c, op, u, val, first),
           first = "cache_get" => op = "getProfile",
           first = "write" => op = "removeUser" \/ (op = "updateProfile" /\ val # Null),
           updates' \in 0..MaxUpdates
    PROVE  IInv'
<1>t. TypeOK /\ RowOK /\ CallOK /\ LockOK /\ AgeNow /\ BufOK /\ BoundedStaleness
  BY DEF IInv
<1> USE BoundsAssumption DEF Null, Profiles
<1>1. /\ stage[c] = "idle" /\ stage' = [stage EXCEPT ![c] = first]
      /\ call' = [call EXCEPT ![c] = [op |-> op, id |-> u, val |-> val]]
      /\ answer' = [answer EXCEPT ![c] = [status |-> "none", val |-> Null]]
      /\ UNCHANGED <<row, lock, cache, buf, age>>
  BY DEF Start, Goto, NoAnswer, table
<1>2. TypeOK'
  <2>1. stage' \in [Client -> Stages]
    BY <1>t, <1>1 DEF TypeOK, Stages
  <2>2. call' \in [Client -> [op: Ops, id: User \cup {Free}, val: Profiles]]
    BY <1>t, <1>1 DEF TypeOK
  <2>3. answer' \in [Client -> [status: Statuses, val: Profiles]]
    BY <1>t, <1>1 DEF TypeOK, Statuses
  <2>4. QED
    BY <1>t, <1>1, <2>1, <2>2, <2>3 DEF TypeOK
<1>3. /\ stage'[c] = first
      /\ call'[c].op = op /\ call'[c].id = u /\ call'[c].val = val
      /\ \A d \in Client : d # c => stage'[d] = stage[d] /\ call'[d] = call[d]
  BY <1>t, <1>1 DEF TypeOK
<1>4. CallOK'
  BY <1>t, <1>1, <1>3 DEF CallOK
<1>5. LockOK'
  <2>1. \A d \in Client : stage'[d] = "commit" => d # c
    BY <1>3
  <2>2. \A w \in User : lock[w] # Free => lock[w] \in Client /\ lock[w] # c
    BY <1>t, <1>1 DEF TypeOK, LockOK
  <2>3. QED
    BY <1>t, <1>1, <1>3, <2>1, <2>2 DEF LockOK
<1>6. BufOK'
  BY <1>t, <1>1, <1>3 DEF BufOK
<1>7. RowOK' /\ AgeNow' /\ BoundedStaleness'
  BY <1>t, <1>1 DEF RowOK, AgeNow, BoundedStaleness, Visible
<1>8. QED
  BY <1>2, <1>4, <1>5, <1>6, <1>7 DEF IInv

\* A call is answered: it holds nothing any more, and the others are where they were.
LEMMA AnswerStep ==
    ASSUME IInv, NEW c \in Client, NEW status \in Statuses, NEW val \in Profiles,
           Answer(c, status, val)
    PROVE  /\ stage' \in [Client -> Stages]
           /\ call' \in [Client -> [op: Ops, id: User \cup {Free}, val: Profiles]]
           /\ buf' \in [Client -> [val: Profiles, lag: 0..MaxAge]]
           /\ answer' \in [Client -> [status: Statuses, val: Profiles]]
           /\ stage'[c] = "idle" /\ answer'[c] = [status |-> status, val |-> val]
           /\ \A d \in Client : d # c =>
                  stage'[d] = stage[d] /\ call'[d] = call[d] /\ buf'[d] = buf[d]
           /\ CallOK'
<1>t. TypeOK /\ CallOK
  BY DEF IInv
<1> USE BoundsAssumption DEF Null, Profiles
<1>1. /\ stage' = [stage EXCEPT ![c] = "idle"]
      /\ call' = [call EXCEPT ![c] = [op |-> "none", id |-> Free, val |-> Null]]
      /\ buf' = [buf EXCEPT ![c] = [val |-> Null, lag |-> 0]]
      /\ answer' = [answer EXCEPT ![c] = [status |-> status, val |-> val]]
  BY DEF Answer, Goto, NoCall, NoBuf
<1>2. stage' \in [Client -> Stages]
  BY <1>t, <1>1 DEF TypeOK, Stages
<1>3. call' \in [Client -> [op: Ops, id: User \cup {Free}, val: Profiles]]
  BY <1>t, <1>1 DEF TypeOK, Ops
<1>4. buf' \in [Client -> [val: Profiles, lag: 0..MaxAge]]
  BY <1>t, <1>1 DEF TypeOK
<1>5. answer' \in [Client -> [status: Statuses, val: Profiles]]
  BY <1>t, <1>1 DEF TypeOK
<1>6. /\ stage'[c] = "idle" /\ answer'[c] = [status |-> status, val |-> val]
      /\ \A d \in Client : d # c =>
             stage'[d] = stage[d] /\ call'[d] = call[d] /\ buf'[d] = buf[d]
  BY <1>t, <1>1 DEF TypeOK
<1>7. CallOK'
  BY <1>t, <1>6 DEF CallOK
<1>8. QED
  BY <1>2, <1>3, <1>4, <1>5, <1>6, <1>7

\* A call that is answered leaves no lock behind.
LEMMA AnswerLocks ==
    ASSUME IInv, NEW c \in Client, NEW status \in Statuses, NEW val \in Profiles,
           Answer(c, status, val),
           \/ lock' = lock /\ stage[c] # "commit"
           \/ lock' = [u \in User |-> IF lock[u] = c THEN Free ELSE lock[u]]
    PROVE  LockOK' /\ lock' \in [User -> Client \cup {Free}]
<1>t. TypeOK /\ LockOK /\ CallOK
  BY DEF IInv
<1>1. /\ stage'[c] = "idle"
      /\ \A d \in Client : d # c =>
             stage'[d] = stage[d] /\ call'[d] = call[d] /\ buf'[d] = buf[d]
  BY AnswerStep
<1>2. lock' \in [User -> Client \cup {Free}]
  BY <1>t DEF TypeOK
<1>3. \A u \in User : /\ lock'[u] # Free => lock'[u] = lock[u] /\ lock[u] # c
                      /\ lock[u] # c => lock'[u] = lock[u]
  BY <1>t DEF TypeOK, LockOK
<1>4. ASSUME NEW d \in Client, stage'[d] = "commit"
      PROVE IF call'[d].id \in Known THEN buf'[d].val = 1 /\ lock'[call'[d].id] = d
                                     ELSE buf'[d].val = 0
  <2>1. d # c /\ stage[d] = "commit" /\ call'[d] = call[d] /\ buf'[d] = buf[d]
    BY <1>1, <1>4
  <2>2. call[d].id \in User
    BY <1>t, <2>1 DEF CallOK
  <2>3. QED
    BY <1>t, <1>3, <2>1, <2>2 DEF LockOK
<1>5. ASSUME NEW u \in User, lock'[u] # Free
      PROVE stage'[lock'[u]] = "commit" /\ call'[lock'[u]].id = u /\ u \in Known
  <2>1. lock'[u] = lock[u] /\ lock[u] # c /\ lock[u] \in Client
    BY <1>t, <1>3, <1>5 DEF TypeOK
  <2>2. QED
    BY <1>t, <1>1, <1>5, <2>1 DEF LockOK
<1>6. QED
  BY <1>2, <1>4, <1>5 DEF LockOK

\* A call is answered, whatever it did to row, cache and history.
LEMMA AnswerInv ==
    ASSUME IInv, NEW c \in Client, NEW status \in Statuses, NEW val \in Profiles,
           Answer(c, status, val), updates' = updates,
           \/ lock' = lock /\ stage[c] # "commit"
           \/ lock' = [u \in User |-> IF lock[u] = c THEN Free ELSE lock[u]],
           row' \in [User -> [live: BOOLEAN, ver: Profiles]],
           cache' \in [User -> [val: Profiles, left: 0..Ttl, lag: 0..MaxAge]],
           age' \in [User -> [Profiles -> 0..MaxAge]],
           \A u \in User, v \in Profiles : age'[u][v] <= age[u][v],
           RowOK', AgeNow', BoundedStaleness'
    PROVE  IInv'
<1>1. /\ stage' \in [Client -> Stages]
      /\ call' \in [Client -> [op: Ops, id: User \cup {Free}, val: Profiles]]
      /\ buf' \in [Client -> [val: Profiles, lag: 0..MaxAge]]
      /\ answer' \in [Client -> [status: Statuses, val: Profiles]]
      /\ stage'[c] = "idle"
      /\ \A d \in Client : d # c =>
             stage'[d] = stage[d] /\ call'[d] = call[d] /\ buf'[d] = buf[d]
      /\ CallOK'
  BY AnswerStep
<1>2. LockOK' /\ lock' \in [User -> Client \cup {Free}]
  BY AnswerLocks
<1>3. TypeOK'
  BY <1>1, <1>2 DEF IInv, TypeOK
<1>4. BufOK'
  <2>1. ASSUME NEW d \in Client, stage'[d] = "store"
        PROVE age'[call'[d].id][buf'[d].val] <= buf'[d].lag
    <3>1. d # c /\ stage[d] = "store" /\ call'[d] = call[d] /\ buf'[d] = buf[d]
      BY <1>1, <2>1
    <3>2. call[d].id \in User /\ buf[d].val \in Profiles /\ buf[d].lag \in 0..MaxAge
      BY <3>1 DEF IInv, CallOK, TypeOK
    <3>3. age[call[d].id][buf[d].val] <= buf[d].lag
      BY <3>1 DEF IInv, BufOK
    <3>4. /\ age'[call[d].id][buf[d].val] <= age[call[d].id][buf[d].val]
          /\ age[call[d].id] \in [Profiles -> 0..MaxAge]
          /\ age'[call[d].id] \in [Profiles -> 0..MaxAge]
      BY <3>2 DEF IInv, TypeOK
    <3>5. /\ age[call[d].id][buf[d].val] \in 0..MaxAge
          /\ age'[call[d].id][buf[d].val] \in 0..MaxAge
      BY <3>2, <3>4
    <3>6. QED
      BY <3>1, <3>2, <3>3, <3>4, <3>5, BoundsAssumption
  <2>2. QED
    BY <2>1 DEF BufOK
<1>5. QED
  BY <1>1, <1>2, <1>3, <1>4 DEF IInv

\* The same, of a call that changes neither row nor history.
LEMMA PlainAnswer ==
    ASSUME IInv, NEW c \in Client, NEW status \in Statuses, NEW val \in Profiles,
           Answer(c, status, val), stage[c] # "commit",
           UNCHANGED <<row, lock, age, updates>>,
           cache' \in [User -> [val: Profiles, left: 0..Ttl, lag: 0..MaxAge]],
           BoundedStaleness'
    PROVE  IInv'
<1>1. /\ row' \in [User -> [live: BOOLEAN, ver: Profiles]]
      /\ age' \in [User -> [Profiles -> 0..MaxAge]]
      /\ RowOK' /\ AgeNow'
  BY DEF IInv, TypeOK, RowOK, AgeNow, Visible
<1>2. \A u \in User, v \in Profiles : age'[u][v] <= age[u][v]
  <2>1. ASSUME NEW u \in User, NEW v \in Profiles PROVE age'[u][v] <= age[u][v]
    <3>1. age[u] \in [Profiles -> 0..MaxAge]
      BY DEF IInv, TypeOK
    <3>2. age[u][v] \in 0..MaxAge
      BY <3>1
    <3>3. QED
      BY <3>2, BoundsAssumption
  <2>2. QED
    BY <2>1
<1>3. QED
  BY <1>1, <1>2, AnswerInv

\* What the constants of the model stand for.
LEMMA Members == /\ Null \in Profiles
                 /\ {"profile", "affected", "failed"} \subseteq Statuses
                 /\ {"getProfile", "updateProfile", "removeUser"} \subseteq Ops
BY BoundsAssumption DEF Null, Profiles, Statuses, Ops

\* The invariant is inductive: one step per action.
LEMMA NextInv == IInv /\ [Next]_profile => IInv'
<1> SUFFICES ASSUME IInv, [Next]_profile PROVE IInv'
  OBVIOUS
<1>t. TypeOK /\ RowOK /\ CallOK /\ LockOK /\ AgeNow /\ BufOK /\ BoundedStaleness
  BY DEF IInv
<1>m. /\ Null \in Profiles /\ "profile" \in Statuses /\ "affected" \in Statuses
      /\ "failed" \in Statuses
      /\ "getProfile" \in Ops /\ "updateProfile" \in Ops /\ "removeUser" \in Ops
  BY Members
<1>u. /\ \A u \in Viewed : u \in User
      /\ cache \in [User -> [val: Profiles, left: 0..Ttl, lag: 0..MaxAge]]
  BY <1>t, UsersAssumption DEF TypeOK
<1>1. ASSUME NEW c \in Client, Calls(c) PROVE IInv'
  <2>1. ASSUME NEW u \in Viewed, GetProfile(c, u) PROVE IInv'
    <3>1. u \in User /\ updates' \in 0..MaxUpdates
      BY <1>t, <1>u, <2>1 DEF GetProfile, TypeOK
    <3>2. QED
      BY <1>m, <2>1, <3>1, StartStep DEF GetProfile
  <2>2. ASSUME NEW u \in Viewed, UpdateProfile(c, u) PROVE IInv'
    <3>1. /\ u \in User /\ updates' \in 0..MaxUpdates
          /\ updates + 2 \in Profiles /\ updates + 2 # Null
      BY <1>t, <1>u, <2>2, BoundsAssumption DEF UpdateProfile, TypeOK, Profiles, Null
    <3>2. QED
      BY <1>m, <2>2, <3>1, StartStep DEF UpdateProfile
  <2>3. CASE UpdateWithoutFile(c)
    <3>1. /\ Answer(c, "failed", Null) /\ stage[c] # "commit"
          /\ UNCHANGED <<row, lock, cache, updates, age>>
      BY <2>3 DEF UpdateWithoutFile, table
    <3>2. BoundedStaleness'
      BY <1>t, <3>1 DEF BoundedStaleness
    <3>3. QED
      BY <1>m, <1>u, <3>1, <3>2, PlainAnswer
  <2>4. ASSUME NEW u \in User, RemoveUser(c, u) PROVE IInv'
    <3>1. updates' \in 0..MaxUpdates
      BY <1>t, <2>4 DEF RemoveUser, TypeOK
    <3>2. QED
      BY <1>m, <2>4, <3>1, StartStep DEF RemoveUser
  <2>5. QED
    BY <1>1, <2>1, <2>2, <2>3, <2>4 DEF Calls
<1>2. ASSUME NEW c \in Client, CacheGet(c) PROVE IInv'
  <2> DEFINE u == call[c].id
  <2>1. stage[c] = "cache_get" /\ u \in User /\ UNCHANGED <<row, lock, cache, updates, age>>
    BY <1>t, <1>2 DEF CacheGet, table, CallOK
  <2>2. BoundedStaleness'
    BY <1>t, <2>1 DEF BoundedStaleness
  <2>3. CASE Answer(c, "profile", cache[u].val)
    <3>1. cache[u].val \in Profiles
      BY <1>u, <2>1
    <3>2. QED
      BY <1>m, <1>u, <2>1, <2>2, <2>3, <3>1, PlainAnswer
  <2>4. CASE Goto(c, "select") /\ UNCHANGED <<answer, call, buf>>
    <3>1. stage' = [stage EXCEPT ![c] = "select"] /\ UNCHANGED <<answer, call, buf>>
      BY <2>4 DEF Goto
    <3>2. TypeOK'
      BY <1>t, <2>1, <3>1 DEF TypeOK, Stages
    <3>3. stage'[c] = "select" /\ \A d \in Client : d # c => stage'[d] = stage[d]
      BY <1>t, <3>1 DEF TypeOK
    <3>4. CallOK' /\ BufOK'
      BY <1>t, <2>1, <3>1, <3>3 DEF CallOK, BufOK
    <3>5. LockOK'
      <4>1. \A w \in User : lock[w] # Free => lock[w] \in Client /\ lock[w] # c
        BY <1>t, <2>1 DEF TypeOK, LockOK
      <4>2. QED
        BY <1>t, <2>1, <3>1, <3>3, <4>1 DEF LockOK
    <3>6. RowOK' /\ AgeNow'
      BY <1>t, <2>1 DEF RowOK, AgeNow, Visible
    <3>7. QED
      BY <2>2, <3>2, <3>4, <3>5, <3>6 DEF IInv
  <2>5. QED
    BY <1>2, <2>3, <2>4 DEF CacheGet
<1>3. ASSUME NEW c \in Client, Select(c) PROVE IInv'
  <2> DEFINE u == call[c].id
  <2>1. /\ stage[c] = "select" /\ u \in User
        /\ buf' = [buf EXCEPT ![c] = [val |-> Visible(u), lag |-> 0]]
        /\ stage' = [stage EXCEPT ![c] = "store"]
        /\ UNCHANGED <<row, lock, cache, call, answer, updates, age>>
    BY <1>t, <1>3 DEF Select, table, CallOK, Goto
  <2>2. Visible(u) \in Profiles
    BY <1>t, <1>m, <2>1 DEF TypeOK, Visible
  <2>3. TypeOK'
    <3>1. stage' \in [Client -> Stages]
      BY <1>t, <2>1 DEF TypeOK, Stages
    <3>2. buf' \in [Client -> [val: Profiles, lag: 0..MaxAge]]
      BY <1>t, <2>1, <2>2, BoundsAssumption DEF TypeOK
    <3>3. QED
      BY <1>t, <2>1, <3>1, <3>2 DEF TypeOK
  <2>4. /\ stage'[c] = "store" /\ buf'[c] = [val |-> Visible(u), lag |-> 0]
        /\ \A d \in Client : d # c => stage'[d] = stage[d] /\ buf'[d] = buf[d]
    BY <1>t, <2>1 DEF TypeOK
  <2>5. CallOK'
    BY <1>t, <2>1, <2>4 DEF CallOK
  <2>6. BufOK'
    <3>1. age[u][Visible(u)] <= 0
      BY <1>t, <2>1 DEF AgeNow
    <3>2. QED
      BY <1>t, <2>1, <2>4, <3>1 DEF BufOK
  <2>7. LockOK'
    <3>1. \A w \in User : lock[w] # Free => lock[w] \in Client /\ lock[w] # c
      BY <1>t, <2>1 DEF TypeOK, LockOK
    <3>2. QED
      BY <1>t, <2>1, <2>4, <3>1 DEF LockOK
  <2>8. RowOK' /\ AgeNow' /\ BoundedStaleness'
    BY <1>t, <2>1 DEF RowOK, AgeNow, Visible, BoundedStaleness
  <2>9. QED
    BY <2>3, <2>5, <2>6, <2>7, <2>8 DEF IInv
<1>4. ASSUME NEW c \in Client, Store(c) PROVE IInv'
  <2> DEFINE u == call[c].id
             e == [val |-> buf[c].val, left |-> Ttl, lag |-> buf[c].lag]
  <2>1. /\ stage[c] = "store" /\ u \in User
        /\ buf[c].val \in Profiles /\ buf[c].lag \in 0..MaxAge
        /\ cache' = [cache EXCEPT ![u] = e]
        /\ Answer(c, "profile", buf[c].val)
        /\ UNCHANGED <<row, lock, age, updates>>
    BY <1>t, <1>4 DEF Store, table, CallOK, TypeOK
  <2>2. cache' \in [User -> [val: Profiles, left: 0..Ttl, lag: 0..MaxAge]]
    <3>1. e \in [val: Profiles, left: 0..Ttl, lag: 0..MaxAge]
      BY <2>1, TtlAssumption
    <3> HIDE DEF e
    <3>2. QED
      BY <1>u, <2>1, <3>1
  <2>3. BoundedStaleness'
    <3>1. age[u][buf[c].val] <= buf[c].lag
      BY <1>t, <2>1 DEF BufOK
    <3>2. ASSUME NEW w \in User, cache'[w].left > 0
          PROVE age'[w][cache'[w].val] <= (Ttl - cache'[w].left) + cache'[w].lag
      <4>1. CASE w = u
        <5>1. cache'[w] = e
          BY <1>u, <2>1, <4>1
        <5>2. (Ttl - Ttl) + buf[c].lag = buf[c].lag
          BY <2>1, TtlAssumption, BoundsAssumption
        <5>3. QED
          BY <2>1, <3>1, <4>1, <5>1, <5>2
      <4>2. CASE w # u
        <5>1. cache'[w] = cache[w]
          BY <1>u, <2>1, <4>2
        <5>2. QED
          BY <1>t, <2>1, <3>2, <5>1 DEF BoundedStaleness
      <4>3. QED
        BY <4>1, <4>2
    <3>3. QED
      BY <3>2 DEF BoundedStaleness
  <2>4. QED
    BY <1>m, <2>1, <2>2, <2>3, PlainAnswer
<1>5. ASSUME NEW c \in Client, ReadFails(c) PROVE IInv'
  <2>1. /\ stage[c] # "commit" /\ Answer(c, "failed", Null)
        /\ UNCHANGED <<row, lock, cache, age, updates>>
    BY <1>5 DEF ReadFails, table
  <2>2. BoundedStaleness'
    BY <1>t, <2>1 DEF BoundedStaleness
  <2>3. QED
    BY <1>m, <1>u, <2>1, <2>2, PlainAnswer
<1>6. ASSUME NEW c \in Client, Write(c) PROVE IInv'
  <2> DEFINE u == call[c].id
             n == IF u \in Known THEN 1 ELSE 0
  <2>1. /\ stage[c] = "write" /\ u \in User /\ lock[u] = Free
        /\ Affected(u) = n
        /\ lock' = IF u \in Known THEN [lock EXCEPT ![u] = c] ELSE lock
        /\ buf' = [buf EXCEPT ![c] = [val |-> n, lag |-> 0]]
        /\ stage' = [stage EXCEPT ![c] = "commit"]
        /\ UNCHANGED <<row, cache, call, answer, updates, age>>
    <3>1. u \in User
      BY <1>t, <1>6 DEF Write, CallOK
    <3>2. Affected(u) = n
      BY <1>t, <3>1 DEF RowOK, Affected
    <3>3. QED
      BY <1>6, <3>1, <3>2 DEF Write, Goto
  <2>2. n \in Profiles
    BY BoundsAssumption DEF Profiles
  <2>3. /\ stage'[c] = "commit" /\ buf'[c] = [val |-> n, lag |-> 0]
        /\ \A d \in Client : d # c => stage'[d] = stage[d] /\ buf'[d] = buf[d]
    BY <1>t, <2>1 DEF TypeOK
  <2>4. TypeOK'
    <3>1. stage' \in [Client -> Stages]
      BY <1>t, <2>1 DEF TypeOK, Stages
    <3>2. buf' \in [Client -> [val: Profiles, lag: 0..MaxAge]]
      <4> HIDE DEF n
      <4>1. [val |-> n, lag |-> 0] \in [val: Profiles, lag: 0..MaxAge]
        BY <2>2, BoundsAssumption
      <4>2. QED
        BY <1>t, <2>1, <4>1 DEF TypeOK
    <3>3. lock' \in [User -> Client \cup {Free}]
      BY <1>t, <2>1 DEF TypeOK
    <3>4. QED
      BY <1>t, <2>1, <3>1, <3>2, <3>3 DEF TypeOK
  <2>5. CallOK'
    BY <1>t, <2>1, <2>3 DEF CallOK
  <2>6. LockOK'
    <3>1. \A w \in User : lock[w] # Free => lock[w] \in Client /\ lock[w] # c
      BY <1>t, <2>1 DEF TypeOK, LockOK
    <3>2. \A w \in User : w # u => lock'[w] = lock[w]
      BY <1>t, <2>1 DEF TypeOK
    <3>3. u \in Known => lock'[u] = c
      BY <1>t, <2>1 DEF TypeOK
    <3>4. u \notin Known => lock'[u] = Free
      BY <2>1
    <3>5. ASSUME NEW d \in Client, stage'[d] = "commit"
          PROVE IF call'[d].id \in Known THEN buf'[d].val = 1 /\ lock'[call'[d].id] = d
                                         ELSE buf'[d].val = 0
      <4>1. CASE d = c
        BY <2>1, <2>3, <3>3, <4>1
      <4>2. CASE d # c
        <5>1. stage[d] = "commit" /\ buf'[d] = buf[d] /\ call'[d] = call[d]
          BY <2>1, <2>3, <3>5, <4>2
        <5>2. call[d].id \in User
          BY <1>t, <5>1 DEF CallOK
        <5>3. call[d].id \in Known => call[d].id # u
          BY <1>t, <2>1, <5>1, FreeAssumption DEF LockOK
        <5>4. QED
          BY <1>t, <3>2, <5>1, <5>2, <5>3 DEF LockOK
      <4>3. QED
        BY <4>1, <4>2
    <3>6. ASSUME NEW w \in User, lock'[w] # Free
          PROVE stage'[lock'[w]] = "commit" /\ call'[lock'[w]].id = w /\ w \in Known
      <4>1. CASE w = u
        BY <2>1, <2>3, <3>3, <3>4, <3>6, <4>1
      <4>2. CASE w # u
        BY <1>t, <2>1, <2>3, <3>1, <3>2, <3>6, <4>2 DEF LockOK
      <4>3. QED
        BY <4>1, <4>2
    <3>7. QED
      BY <3>5, <3>6 DEF LockOK
  <2>7. BufOK' 
    BY <1>t, <2>1, <2>3 DEF BufOK
  <2>8. RowOK' /\ AgeNow' /\ BoundedStaleness'
    BY <1>t, <2>1 DEF RowOK, AgeNow, Visible, BoundedStaleness
  <2>9. QED
    BY <2>4, <2>5, <2>6, <2>7, <2>8 DEF IInv
<1>7. ASSUME NEW c \in Client, Commit(c) \/ WriteFails(c) PROVE IInv'
  <2>1. /\ stage[c] \in {"write", "commit"} /\ UNCHANGED <<cache, updates>>
        /\ buf[c].val \in Profiles
        /\ Answer(c, "affected", buf[c].val) \/ Answer(c, "failed", Null)
        /\ \/ stage[c] = "commit" /\ CommitRow(c)
           \/ Release(c) /\ UNCHANGED <<row, age>>
    BY <1>t, <1>7 DEF Commit, WriteFails, TypeOK
  <2>2. PICK status \in Statuses, val \in Profiles : Answer(c, status, val)
    BY <1>m, <2>1
  <2>3. /\ lock' = [u \in User |-> IF lock[u] = c THEN Free ELSE lock[u]]
        /\ row' \in [User -> [live: BOOLEAN, ver: Profiles]]
        /\ age' \in [User -> [Profiles -> 0..MaxAge]]
        /\ RowOK' /\ AgeNow'
        /\ \A u \in User, v \in Profiles : age'[u][v] <= age[u][v]
    <3>1. CASE stage[c] = "commit" /\ CommitRow(c)
      BY <3>1, CommitRowStep
    <3>2. CASE Release(c) /\ UNCHANGED <<row, age>>
      <4>1. \A u \in User, v \in Profiles : age'[u][v] <= age[u][v]
        <5>1. ASSUME NEW u \in User, NEW v \in Profiles PROVE age'[u][v] <= age[u][v]
          <6>1. age[u] \in [Profiles -> 0..MaxAge]
            BY <1>t DEF TypeOK
          <6>2. age[u][v] \in 0..MaxAge
            BY <6>1
          <6>3. QED
            BY <3>2, <6>2, BoundsAssumption
        <5>2. QED
          BY <5>1
      <4>2. QED
        BY <1>t, <3>2, <4>1 DEF Release, Locked, TypeOK, RowOK, AgeNow, Visible
    <3>3. QED
      BY <2>1, <3>1, <3>2
  <2>4. BoundedStaleness'
    <3>1. ASSUME NEW u \in User, cache[u].left > 0
          PROVE age'[u][cache[u].val] <= (Ttl - cache[u].left) + cache[u].lag
      <4>1. /\ cache[u].val \in Profiles /\ cache[u].left \in 0..Ttl
            /\ cache[u].lag \in 0..MaxAge
        BY <1>u
      <4>2. age[u] \in [Profiles -> 0..MaxAge] /\ age'[u] \in [Profiles -> 0..MaxAge]
        BY <1>t, <2>3 DEF TypeOK
      <4>3. age[u][cache[u].val] \in 0..MaxAge /\ age'[u][cache[u].val] \in 0..MaxAge
        BY <4>1, <4>2
      <4>4. /\ age[u][cache[u].val] <= (Ttl - cache[u].left) + cache[u].lag
            /\ age'[u][cache[u].val] <= age[u][cache[u].val]
        BY <1>t, <2>3, <3>1, <4>1 DEF BoundedStaleness
      <4>5. QED
        BY <4>1, <4>3, <4>4, TtlAssumption, BoundsAssumption
    <3>2. QED
      BY <2>1, <3>1 DEF BoundedStaleness
  <2>5. QED
    BY <1>u, <2>1, <2>2, <2>3, <2>4, AnswerInv
<1>8. ASSUME Tick PROVE IInv'
  <2>1. /\ cache' = [u \in User |-> Expire(cache[u])]
        /\ buf' = [c \in Client |->
                     IF stage[c] = "store" THEN [buf[c] EXCEPT !.lag = Older(@)] ELSE buf[c]]
        /\ age' = [u \in User |-> [v \in Profiles |->
                     IF v = Visible(u) THEN age[u][v] ELSE Older(age[u][v])]]
        /\ UNCHANGED <<row, lock, stage, call, answer, updates>>
    BY <1>8 DEF Tick, table
  <2>2. \A n \in 0..MaxAge : Older(n) \in 0..MaxAge /\ Older(n) <= n + 1 /\ Older(n) >= n
    BY BoundsAssumption DEF Older
  <2>3. ASSUME NEW u \in User, NEW v \in Profiles
        PROVE  /\ age[u][v] \in 0..MaxAge /\ age'[u][v] \in 0..MaxAge
               /\ age'[u][v] = age[u][v] \/ age'[u][v] = Older(age[u][v])
               /\ v = Visible(u) => age'[u][v] = age[u][v]
    <3>1. age[u] \in [Profiles -> 0..MaxAge]
      BY <1>t DEF TypeOK
    <3>2. age[u][v] \in 0..MaxAge
      BY <3>1
    <3>3. age'[u][v] = IF v = Visible(u) THEN age[u][v] ELSE Older(age[u][v])
      BY <2>1
    <3>4. QED
      BY <2>2, <3>2, <3>3
  <2>4. ASSUME NEW c \in Client
        PROVE  /\ buf[c].val \in Profiles /\ buf[c].lag \in 0..MaxAge
               /\ buf'[c].val = buf[c].val
               /\ buf'[c].lag = IF stage[c] = "store" THEN Older(buf[c].lag) ELSE buf[c].lag
               /\ buf'[c] \in [val: Profiles, lag: 0..MaxAge]
    <3>1. buf[c] \in [val: Profiles, lag: 0..MaxAge]
      BY <1>t DEF TypeOK
    <3>2. buf'[c] = IF stage[c] = "store" THEN [buf[c] EXCEPT !.lag = Older(@)] ELSE buf[c]
      BY <2>1
    <3>3. Older(buf[c].lag) \in 0..MaxAge
      BY <2>2, <3>1
    <3>4. QED
      BY <3>1, <3>2, <3>3
  <2>5. ASSUME NEW u \in User
        PROVE  /\ cache[u] \in [val: Profiles, left: 0..Ttl, lag: 0..MaxAge]
               /\ cache'[u] \in [val: Profiles, left: 0..Ttl, lag: 0..MaxAge]
               /\ cache'[u].left > 0 =>
                      /\ cache[u].left > 0 /\ cache'[u].left = cache[u].left - 1
                      /\ cache'[u].val = cache[u].val /\ cache'[u].lag = cache[u].lag
    <3>1. cache[u] \in [val: Profiles, left: 0..Ttl, lag: 0..MaxAge]
      BY <1>u
    <3>2. cache'[u] = IF cache[u].left > 1 THEN [cache[u] EXCEPT !.left = @ - 1] ELSE NoEntry
      BY <2>1 DEF Expire
    <3>3. NoEntry \in [val: Profiles, left: 0..Ttl, lag: 0..MaxAge] /\ NoEntry.left = 0
      BY <1>m, TtlAssumption, BoundsAssumption DEF NoEntry
    <3>4. CASE cache[u].left > 1
      <4>1. cache[u].left \in 0..Ttl /\ cache[u].left - 1 \in 0..Ttl
        BY <3>1, <3>4, TtlAssumption
      <4>2. QED
        BY <3>1, <3>2, <3>4, <4>1
    <3>5. CASE ~(cache[u].left > 1)
      BY <3>1, <3>2, <3>3, <3>5
    <3>6. QED
      BY <3>4, <3>5
  <2>6. TypeOK'
    <3>1. age' \in [User -> [Profiles -> 0..MaxAge]]
      BY <1>t, <2>1, <2>2 DEF TypeOK
    <3>2. buf' \in [Client -> [val: Profiles, lag: 0..MaxAge]]
      BY <2>1, <2>4
    <3>3. cache' \in [User -> [val: Profiles, left: 0..Ttl, lag: 0..MaxAge]]
      BY <2>1, <2>5
    <3>4. QED
      BY <1>t, <2>1, <3>1, <3>2, <3>3 DEF TypeOK
  <2>7. RowOK' /\ CallOK'
    BY <1>t, <2>1 DEF RowOK, CallOK
  <2>8. LockOK'
    BY <1>t, <2>1, <2>4 DEF LockOK
  <2>9. AgeNow'
    <3>1. ASSUME NEW u \in User PROVE age'[u][Visible(u)'] = 0
      <4>1. Visible(u)' = Visible(u) /\ Visible(u) \in Profiles
        BY <1>t, <1>m, <2>1 DEF Visible, TypeOK
      <4>2. QED
        BY <1>t, <2>3, <4>1 DEF AgeNow
    <3>2. QED
      BY <3>1 DEF AgeNow
  <2>10. BufOK'
    <3>1. ASSUME NEW c \in Client, stage'[c] = "store"
          PROVE age'[call'[c].id][buf'[c].val] <= buf'[c].lag
      <4> DEFINE a == age[call[c].id][buf[c].val]
                 b == age'[call[c].id][buf[c].val]
                 l == buf[c].lag
      <4>1. stage[c] = "store" /\ call'[c] = call[c] /\ call[c].id \in User
        BY <1>t, <2>1, <3>1 DEF CallOK
      <4>2. a \in 0..MaxAge /\ b \in 0..MaxAge /\ (b = a \/ b = Older(a)) /\ l \in 0..MaxAge
        BY <2>3, <2>4, <4>1
      <4>3. a <= l /\ buf'[c].val = buf[c].val /\ buf'[c].lag = Older(l)
        BY <1>t, <2>4, <4>1 DEF BufOK
      <4>4. b <= Older(l)
        <5> HIDE DEF a, b, l
        <5>1. QED
          BY <4>2, <4>3, BoundsAssumption DEF Older
      <4>5. QED
        BY <4>1, <4>3, <4>4
    <3>2. QED
      BY <3>1 DEF BufOK
  <2>11. BoundedStaleness'
    <3>1. ASSUME NEW u \in User, cache'[u].left > 0
          PROVE age'[u][cache'[u].val] <= (Ttl - cache'[u].left) + cache'[u].lag
      <4> DEFINE a == age[u][cache[u].val]
                 b == age'[u][cache[u].val]
      <4>1. /\ cache[u].left > 0 /\ cache'[u].left = cache[u].left - 1
            /\ cache'[u].val = cache[u].val /\ cache'[u].lag = cache[u].lag
            /\ cache[u].val \in Profiles /\ cache[u].left \in 0..Ttl /\ cache[u].lag \in 0..MaxAge
        BY <2>5, <3>1
      <4>2. a \in 0..MaxAge /\ b \in 0..MaxAge /\ b <= a + 1
        <5>1. a \in 0..MaxAge /\ b \in 0..MaxAge /\ (b = a \/ b = Older(a))
          BY <2>3, <4>1
        <5> HIDE DEF a, b
        <5>2. QED
          BY <2>2, <5>1, BoundsAssumption
      <4>3. a <= (Ttl - cache[u].left) + cache[u].lag
        BY <1>t, <4>1 DEF BoundedStaleness
      <4> HIDE DEF a, b
      <4>4. b <= (Ttl - (cache[u].left - 1)) + cache[u].lag
        BY <4>1, <4>2, <4>3, TtlAssumption, BoundsAssumption
      <4>5. QED
        BY <4>1, <4>4 DEF b
    <3>2. QED
      BY <3>1 DEF BoundedStaleness
  <2>12. QED
    BY <2>6, <2>7, <2>8, <2>9, <2>10, <2>11 DEF IInv
<1>9. ASSUME Crash PROVE IInv'
  <2>1. /\ lock' = [u \in User |-> Free]
        /\ stage' = [c \in Client |-> "idle"]
        /\ answer' = [c \in Client |-> NoAnswer]
        /\ call' = [c \in Client |-> NoCall]
        /\ buf' = [c \in Client |-> NoBuf]
        /\ UNCHANGED <<row, cache, updates, age>>
    BY <1>9 DEF Crash
  <2>2. TypeOK'
    BY <1>t, <1>m, <2>1, BoundsAssumption
    DEF TypeOK, NoAnswer, NoCall, NoBuf, Stages, Statuses, Ops
  <2>3. CallOK' /\ LockOK' /\ BufOK'
    BY <2>1 DEF CallOK, LockOK, BufOK
  <2>4. RowOK' /\ AgeNow' /\ BoundedStaleness'
    BY <1>t, <2>1 DEF RowOK, AgeNow, Visible, BoundedStaleness
  <2>5. QED
    BY <2>2, <2>3, <2>4 DEF IInv
<1>10. CASE UNCHANGED profile
  BY <1>t, <1>10 DEF IInv, TypeOK, RowOK, CallOK, LockOK, AgeNow, BufOK, BoundedStaleness,
     Visible, profile, table, request
<1>11. QED
  BY <1>1, <1>2, <1>3, <1>4, <1>5, <1>6, <1>7, <1>8, <1>9, <1>10 DEF Next, Reads, Writes

\* IInv holds in every reachable state.
LEMMA Invariant == Spec => []IInv
BY InitInv, NextInv, PTL DEF Spec

-----------------------------------------------------------------------------
(* The theorems.                                                           *)

\* Every reachable state is well typed, whatever calls, commits and crashes overlap.
THEOREM TypeCorrect == Spec => []TypeOK
<1>1. IInv => TypeOK
  BY DEF IInv
<1>2. QED
  BY Invariant, <1>1, PTL

\* getProfile never answers from an entry that is older than its time in Redis and its
\* reader's way from SELECT to SET, for any lifetime and any overlap of readers and writers.
THEOREM StalenessBounded == Spec => []BoundedStaleness
<1>1. IInv => BoundedStaleness
  BY DEF IInv
<1>2. QED
  BY Invariant, <1>1, PTL

\* A removed user stays removed, though updateProfile matches removed rows.
THEOREM RemovalHolds == Spec => RemovalFinal
<1>1. IInv /\ [Next]_profile =>
          [\A u \in User : row[u].ver # Null /\ ~row[u].live => ~row'[u].live]_profile
  <2> SUFFICES ASSUME IInv, [Next]_profile, NEW u \in User, ~row[u].live PROVE ~row'[u].live
    OBVIOUS
  <2>1. CASE UNCHANGED row
    BY <2>1
  <2>2. ASSUME NEW c \in Client, CommitRow(c) PROVE ~row'[u].live
    <3>1. row' = [row EXCEPT ![call[c].id] = Written(c)]
      BY <2>2 DEF CommitRow
    <3>2. row[u] \in [live: BOOLEAN, ver: Profiles] /\ row \in [User -> [live: BOOLEAN, ver: Profiles]]
      BY DEF IInv, TypeOK
    <3>3. CASE u = call[c].id
      BY <3>1, <3>2, <3>3 DEF Written
    <3>4. CASE u # call[c].id
      BY <3>1, <3>2, <3>4
    <3>5. QED
      BY <3>3, <3>4
  <2>3. QED
    BY <2>1, <2>2 DEF Next, Calls, Reads, Writes, GetProfile, UpdateProfile, RemoveUser,
       UpdateWithoutFile, Start, CacheGet, Select, Store, ReadFails, Write, Commit, WriteFails,
       Tick, Crash, profile, table
<1>2. QED
  BY Invariant, <1>1, PTL DEF Spec, RemovalFinal

\* A caller that is told of an affected row finds what it wrote in it, and one that is told
\* of none called for an unknown id, whichever transactions it waited for.
THEOREM CountTruthful == Spec => TruthfulCount
<1> DEFINE Told(c) == stage[c] \in {"write", "commit"} /\ stage'[c] = "idle" =>
        LET u == call[c].id IN
        answer'[c].status = "affected" =>
            IF answer'[c].val = 0 THEN u \notin Known /\ row'[u] = row[u]
            ELSE IF call[c].op = "updateProfile" THEN row'[u].ver = call[c].val
            ELSE ~row'[u].live
<1>1. IInv /\ [Next]_profile => [\A c \in Client : Told(c)]_profile
  <2> SUFFICES ASSUME IInv, Next, NEW c \in Client,
                      stage[c] \in {"write", "commit"}, stage'[c] = "idle"
               PROVE  Told(c)
    BY DEF profile, request
  <2>t. /\ stage \in [Client -> Stages]
        /\ answer \in [Client -> [status: Statuses, val: Profiles]]
        /\ row \in [User -> [live: BOOLEAN, ver: Profiles]]
        /\ call[c].id \in User
    BY DEF IInv, TypeOK, CallOK
  <2>2. CASE Commit(c)
    <3>1. /\ stage[c] = "commit" /\ CommitRow(c)
          /\ answer'[c] = [status |-> "affected", val |-> buf[c].val]
      BY <2>t, <2>2 DEF Commit, Answer
    <3>2. row'[call[c].id] = Written(c)
      BY <2>t, <3>1 DEF CommitRow
    <3>3. CASE call[c].id \in Known
      BY <3>1, <3>2, <3>3 DEF Written, Locked, IInv, LockOK
    <3>4. CASE call[c].id \notin Known
      <4>1. buf[c].val = 0 /\ lock[call[c].id] = Free
        BY <2>t, <3>1, <3>4 DEF IInv, LockOK
      <4>2. Written(c) = row[call[c].id]
        BY <4>1, FreeAssumption DEF Written, Locked
      <4>3. QED
        BY <3>1, <3>2, <3>4, <4>1, <4>2
    <3>5. QED
      BY <3>3, <3>4
  <2>3. CASE WriteFails(c)
    BY <2>t, <2>3 DEF WriteFails, Answer
  <2>4. CASE Crash
    BY <2>4 DEF Crash, NoAnswer
  <2>5. ASSUME NEW d \in Client, Calls(d) PROVE stage'[c] # "idle"
    <3>1. ASSUME NEW op, NEW u, NEW val, NEW first, Start(d, op, u, val, first)
          PROVE  stage'[c] # "idle"
      BY <2>t, <3>1 DEF Start, Goto
    <3>2. CASE UpdateWithoutFile(d)
      BY <2>t, <3>2 DEF UpdateWithoutFile, Answer, Goto
    <3>3. QED
      BY <2>5, <3>1, <3>2 DEF Calls, GetProfile, UpdateProfile, RemoveUser
  <2>6. ASSUME NEW d \in Client, Reads(d) PROVE stage'[c] # "idle"
    BY <2>t, <2>6 DEF Reads, CacheGet, Select, Store, ReadFails, Answer, Goto
  <2>7. ASSUME NEW d \in Client, Writes(d) PROVE Commit(c) \/ WriteFails(c)
    BY <2>t, <2>7 DEF Writes, Write, Commit, WriteFails, Answer, Goto
  <2>8. ~Tick
    BY DEF Tick
  <2>9. QED
    BY <2>2, <2>3, <2>4, <2>5, <2>6, <2>7, <2>8 DEF Next
<1>2. QED
  BY Invariant, <1>1, PTL DEF Spec, TruthfulCount

-----------------------------------------------------------------------------
(* UserList: places.                                                       *)

\* Place(u), of the set of the users that are there.
PlaceIn(S, u) == Cardinality({v \in S : v < u})

\* A place is a number, and less than the number of users.
LEMMA PlaceBound ==
    ASSUME NEW S \in SUBSET Account, NEW u \in S
    PROVE  /\ PlaceIn(S, u) \in Nat /\ Cardinality(S) \in Nat
           /\ PlaceIn(S, u) < Cardinality(S)
<1> DEFINE T == {v \in S : v < u}
<1>1. IsFiniteSet(S) /\ u \in Nat
  BY AccountAssumption, FS_Subset
<1>2. T \in SUBSET S /\ u \notin T
  BY <1>1
<1>3. IsFiniteSet(T) /\ Cardinality(T) <= Cardinality(S) /\ Cardinality(S) # Cardinality(T)
  BY <1>1, <1>2, FS_Subset
<1>4. Cardinality(S) \in Nat /\ Cardinality(T) \in Nat
  BY <1>1, <1>3, FS_CardinalityType
<1>5. QED
  BY <1>3, <1>4 DEF PlaceIn

\* No two users have one place.
LEMMA PlacesDiffer ==
    ASSUME NEW S \in SUBSET Account, NEW u \in S, NEW w \in S, u < w
    PROVE  PlaceIn(S, u) < PlaceIn(S, w)
<1> DEFINE T(x) == {v \in S : v < x}
<1>1. IsFiniteSet(S) /\ S \subseteq Nat
  BY AccountAssumption, FS_Subset
<1>2. /\ T(u) \in SUBSET T(w) /\ T(w) \in SUBSET S
      /\ u \in T(w) /\ u \notin T(u)
  <2>1. \A v \in S : v \in Nat
    BY <1>1
  <2>2. \A v \in S : v < u => v < w
    BY <2>1
  <2>3. T(u) \in SUBSET T(w) /\ T(w) \in SUBSET S
    BY <2>2
  <2>4. u \in T(w) /\ ~(u < u)
    BY <2>1
  <2>5. QED
    BY <2>3, <2>4
<1>3. IsFiniteSet(T(w))
  BY <1>1, <1>2, FS_Subset
<1>4. /\ IsFiniteSet(T(u)) /\ Cardinality(T(u)) <= Cardinality(T(w))
      /\ Cardinality(T(u)) # Cardinality(T(w))
  BY <1>2, <1>3, FS_Subset
<1>5. Cardinality(T(u)) \in Nat /\ Cardinality(T(w)) \in Nat
  BY <1>3, <1>4, FS_CardinalityType
<1>6. QED
  BY <1>4, <1>5 DEF PlaceIn

\* When a user goes, the others keep their places or move up by one.
LEMMA PlaceStep ==
    ASSUME NEW S \in SUBSET Account, NEW u \in S, NEW w \in S \ {u}
    PROVE  PlaceIn(S \ {u}, w) \in {PlaceIn(S, w), PlaceIn(S, w) - 1}
<1> DEFINE T == {v \in S : v < w}
<1>1. IsFiniteSet(T)
  BY AccountAssumption, FS_Subset
<1>2. {v \in S \ {u} : v < w} = T \ {u}
  OBVIOUS
<1>3. Cardinality(T \ {u}) \in {Cardinality(T), Cardinality(T) - 1}
  BY <1>1, FS_RemoveElement
<1>4. QED
  BY <1>2, <1>3 DEF PlaceIn

-----------------------------------------------------------------------------
(* UserList: sizes.                                                        *)

\* The rows of a page of a whole size.
Whole == pageSize \div Unit

\* A whole number of rows is not rounded.
LEMMA NotRounded ==
    ASSUME NEW n \in Nat PROVE WholeRows(n * Unit) = n
<1>1. PICK p \in Nat : p = n * Unit
  BY UnitAssumption
<1>2. (2 * p + Unit) \div (2 * Unit) = n
  BY <1>1, UnitAssumption
<1>3. QED
  BY <1>1, <1>2 DEF WholeRows

\* LIMIT and OFFSET of whole pages.
LEMMA WholeSizes ==
    ASSUME pageSize \in Unit..(50 * Unit), WholePages, NEW k \in Nat
    PROVE  /\ Whole \in Nat \ {0} /\ pageSize = Whole * Unit
           /\ WholeRows(pageSize) = Whole /\ WholeRows(k * pageSize) = k * Whole
<1>1. Whole \in Nat \ {0} /\ pageSize = Whole * Unit
  BY UnitAssumption DEF Whole, WholePages
<1>2. k * pageSize = (k * Whole) * Unit /\ k * Whole \in Nat
  BY <1>1, UnitAssumption
<1>3. QED
  BY <1>1, <1>2, NotRounded

\* As many pages as totalPages hold all users.
LEMMA AllPages ==
    ASSUME NEW n \in Nat, NEW k \in Nat, pageSize \in Unit..(50 * Unit), WholePages,
           TotalPages(n) <= k
    PROVE  n <= k * Whole
<1>1. PICK q \in Nat \ {0} : q = pageSize
  BY UnitAssumption
<1>2. PICK a \in Nat : a = n * Unit
  BY UnitAssumption
<1>3. (a + q - 1) \div q <= k
  BY <1>1, <1>2 DEF TotalPages
<1>4. a <= k * q
  BY <1>1, <1>2, <1>3
<1>5. n * Unit <= (k * Whole) * Unit /\ k * Whole \in Nat
  BY <1>1, <1>2, <1>4, WholeSizes, UnitAssumption
<1>6. QED
  BY <1>5, UnitAssumption
-----------------------------------------------------------------------------
(* UserList: the walk.                                                     *)

\* Who is there now was there when the walk began, as nobody is added.
ListTypes ==
    /\ live \in SUBSET Account /\ start \in SUBSET Account /\ live \subseteq start
    /\ awaits \in {"idle", "page", "count", "done"}
    /\ page \in Nat \ {0} /\ pageSize \in Unit..(50 * Unit)
    /\ awaits = "idle" => page = 1
    /\ list \in SUBSET Account
    /\ seen \in [Account -> Nat]

\* The pages that were read in this walk.
PagesRead == IF awaits \in {"idle", "page"} THEN page - 1 ELSE page

\* The place up to which the walk has read.
Edge == PagesRead * Whole

\* Who was read in this walk, also in the page that awaits its count.
Listed == {u \in Account : seen[u] > 0 \/ (awaits = "count" /\ u \in list)}

\* Who is there, was not read, and will not be any more.
Missed == {u \in live \ Listed : Place(u) < Edge}

\* Users only move up: who was read is before the edge.
ReadBefore == \A u \in Listed \cap live : Place(u) < Edge

\* Nobody was listed twice, nor will be by the page that awaits its count.
ReadOnce == \A u \in Account : /\ seen[u] <= 1
                               /\ awaits = "count" /\ u \in list => seen[u] = 0

\* Each removal moves at most one user over the edge.
MissedFew == Cardinality(Missed) <= Cardinality(start \ live)

\* A walk ends behind the last user.
EndsBehind == awaits = "done" => Cardinality(live) <= Edge

WalkOK == ReadBefore /\ ReadOnce /\ MissedFew /\ EndsBehind

\* Nothing is promised of a walk in pages that are no whole number of rows.
WalkInv == ListTypes /\ (WholePages => WalkOK)

\* Place is the place among those who are there.
LEMMA PlaceNow == \A u : Place(u) = PlaceIn(live, u)
<1> QED
  BY DEF Place, PlaceIn

\* Who is there has a place, before and after a step.
LEMMA PlacesExist ==
    ASSUME live \in SUBSET Account
    PROVE  \A u \in live : Place(u) \in Nat /\ Place(u) < Cardinality(live)
<1> QED
  BY PlaceBound, PlaceNow

\* The missed and the removed can be counted.
LEMMA Countable ==
    ASSUME ListTypes
    PROVE  /\ IsFiniteSet(Missed) /\ Cardinality(Missed) \in Nat
           /\ IsFiniteSet(start \ live) /\ Cardinality(start \ live) \in Nat
           /\ IsFiniteSet(live) /\ Cardinality(live) \in Nat
<1>1. Missed \in SUBSET Account /\ start \ live \in SUBSET Account /\ live \in SUBSET Account
  BY DEF ListTypes, Missed
<1>2. QED
  BY <1>1, AccountAssumption, FS_Subset, FS_CardinalityType

\* At first nobody was read.
LEMMA WalkInit == ListInit => WalkInv
<1> SUFFICES ASSUME ListInit PROVE WalkInv
  OBVIOUS
<1>1. ListTypes
  BY UnitAssumption DEF ListInit, ListTypes, FirstPage
<1>2. Listed = {} /\ ReadBefore /\ ReadOnce /\ EndsBehind
  BY DEF ListInit, Listed, ReadBefore, ReadOnce, EndsBehind
<1>3. Edge = 0
  BY <1>1, UnitAssumption DEF ListInit, Edge, PagesRead, FirstPage, Whole, ListTypes
<1>4. Missed = {}
  BY <1>1, <1>3, PlacesExist DEF Missed, ListTypes
<1>5. Cardinality(Missed) = 0 /\ Cardinality(start \ live) \in Nat
  BY <1>1, <1>4, Countable, FS_EmptySet
<1>6. QED
  BY <1>1, <1>2, <1>5 DEF WalkInv, WalkOK, MissedFew

\* Every step keeps the types, and the users of a walk are those it began with.
LEMMA ListTypesStep == ListTypes /\ [ListNext]_vars => ListTypes'
<1> SUFFICES ASSUME ListTypes, [ListNext]_vars PROVE ListTypes'
  OBVIOUS
<1> USE DEF ListTypes
<1>1. ASSUME NEW size \in PageSizes, Walk(size) PROVE ListTypes'
  BY <1>1, SizeAssumption DEF Walk, FirstPage
<1>2. CASE PageQuery
  BY <1>2 DEF PageQuery, PageOf
<1>3. CASE CountQuery
  <2>1. seen' \in [Account -> Nat]
    BY <1>3 DEF CountQuery
  <2>2. QED
    BY <1>3, <2>1 DEF CountQuery
<1>4. ASSUME NEW u \in Account, Remove(u) PROVE ListTypes'
  BY <1>4 DEF Remove
<1>5. CASE UNCHANGED vars
  BY <1>5 DEF vars
<1>6. QED
  BY <1>1, <1>2, <1>3, <1>4, <1>5 DEF ListNext

\* A new walk has read nothing.
LEMMA WalkStep ==
    ASSUME ListTypes, ListTypes', NEW size \in PageSizes, Walk(size) PROVE WalkOK'
<1>1. Listed' = {} /\ ReadBefore' /\ ReadOnce' /\ EndsBehind'
  BY DEF Walk, Listed, ReadBefore, ReadOnce, EndsBehind
<1>2. Edge' = 0
  <2>1. Whole' \in Int
    BY UnitAssumption DEF Whole, ListTypes
  <2>2. PagesRead' = 0
    BY DEF Walk, PagesRead, FirstPage
  <2>3. \A k \in Int : 0 * k = 0
    OBVIOUS
  <2>4. Edge' = 0 * Whole'
    BY <2>2 DEF Edge
  <2>5. QED
    BY <2>1, <2>3, <2>4
<1>3. \A u \in live' : Place(u)' \in Nat
  <2>1. live' \in SUBSET Account /\ \A u : Place(u)' = PlaceIn(live', u)
    BY DEF ListTypes, Place, PlaceIn
  <2>2. QED
    BY <2>1, PlaceBound
<1>4. Missed' = {}
  BY <1>2, <1>3 DEF Missed, ListTypes
<1>5. Cardinality(Missed') = 0
  BY <1>4, FS_EmptySet
<1>6. Cardinality((start \ live)') \in Nat
  <2>1. (start \ live)' \in SUBSET Account
    BY DEF ListTypes
  <2>2. QED
    BY <2>1, AccountAssumption, FS_Subset, FS_CardinalityType
<1>7. QED
  BY <1>1, <1>5, <1>6 DEF WalkOK, MissedFew

\* A page begins at the edge and moves it behind its last place.
LEMMA PageStep ==
    ASSUME ListTypes, WholePages, WalkOK, PageQuery PROVE WalkOK'
<1>1. /\ Whole \in Nat \ {0} /\ Edge \in Nat
      /\ WholeRows(Skip) = Edge /\ WholeRows(pageSize) = Whole
  <2>1. page - 1 \in Nat
    BY DEF ListTypes
  <2>2. QED
    BY <2>1, WholeSizes DEF ListTypes, PageQuery, Skip, Edge, PagesRead
<1>2. Edge' = Edge + Whole
  BY <1>1 DEF PageQuery, Edge, PagesRead, Whole, ListTypes
<1>3. PageOf = {u \in live : Place(u) >= Edge /\ Place(u) < Edge + Whole}
  BY <1>1 DEF PageOf
<1>4. \A u \in live : Place(u) \in Nat /\ Place(u)' = Place(u)
  BY PlacesExist DEF ListTypes, PageQuery, Place
<1>5. Listed = {u \in Account : seen[u] > 0} /\ Listed' = Listed \cup PageOf
  BY DEF Listed, PageQuery, PageOf, ListTypes
<1>6. ReadBefore'
  BY <1>1, <1>2, <1>3, <1>4, <1>5 DEF ReadBefore, WalkOK, PageQuery
<1>7. ReadOnce'
  <2>1. ASSUME NEW u \in PageOf PROVE seen[u] = 0
    <3>1. u \in live /\ u \in Account /\ Place(u) >= Edge
      BY <1>3 DEF ListTypes
    <3>2. u \notin Listed
      BY <3>1, <1>1, <1>4 DEF WalkOK, ReadBefore
    <3>3. QED
      BY <3>1, <3>2, <1>5 DEF ListTypes
  <2>2. QED
    BY <2>1 DEF PageQuery, ReadOnce, WalkOK
<1>8. Missed' \subseteq Missed
  BY <1>1, <1>2, <1>3, <1>4, <1>5 DEF Missed, PageQuery
<1>9. MissedFew'
  <2>1. Cardinality(Missed') <= Cardinality(Missed) /\ Cardinality(Missed') \in Nat
    BY <1>8, Countable, FS_Subset, FS_CardinalityType
  <2>2. Cardinality(start \ live) \in Nat /\ Cardinality(Missed) \in Nat
    BY Countable
  <2>3. QED
    BY <2>1, <2>2 DEF MissedFew, WalkOK, PageQuery
<1>10. QED
  BY <1>6, <1>7, <1>9 DEF WalkOK, EndsBehind, PageQuery

\* The answer leaves the edge where it is; the last one says that nobody is behind it.
LEMMA CountStep ==
    ASSUME ListTypes, WholePages, WalkOK, CountQuery PROVE WalkOK'
<1>1. awaits = "count" /\ awaits' \in {"page", "done"} /\ live' = live /\ start' = start
      /\ pageSize' = pageSize /\ page \in Nat \ {0}
  BY DEF CountQuery, ListTypes
<1>2. Edge' = Edge
  <2>1. PagesRead' = PagesRead
    BY DEF CountQuery, PagesRead, ListTypes
  <2>2. QED
    BY <1>1, <2>1 DEF Edge, Whole
<1>3. Listed' = Listed
  <2>1. \A u \in Account : seen'[u] > 0 <=> seen[u] > 0 \/ u \in list
    BY DEF CountQuery, ListTypes
  <2>2. QED
    BY <1>1, <2>1 DEF Listed
<1>4. \A u : Place(u)' = Place(u)
  BY <1>1 DEF Place
<1>5. ReadBefore' /\ Missed' = Missed
  BY <1>1, <1>2, <1>3, <1>4 DEF ReadBefore, Missed, WalkOK
<1>6. ReadOnce'
  BY DEF CountQuery, ReadOnce, WalkOK, ListTypes
<1>7. MissedFew'
  BY <1>1, <1>5 DEF MissedFew, WalkOK
<1>8. EndsBehind'
  <2> SUFFICES ASSUME awaits' = "done" PROVE Cardinality(live) <= Edge
    BY <1>1, <1>2 DEF EndsBehind
  <2>1. TotalPages(Cardinality(live)) <= page
    <3>1. ~(page < TotalPages(Cardinality(live)))
      BY DEF CountQuery
    <3>2. TotalPages(Cardinality(live)) \in Int
      BY Countable, UnitAssumption DEF TotalPages, ListTypes
    <3>3. QED
      BY <1>1, <3>1, <3>2
  <2>2. Cardinality(live) <= page * Whole
    BY <2>1, <1>1, Countable, AllPages DEF ListTypes
  <2>3. QED
    BY <2>2, <1>1 DEF Edge, PagesRead
<1>9. QED
  BY <1>5, <1>6, <1>7, <1>8 DEF WalkOK

\* A removal moves the others up by one place at most, and one of them over the edge.
LEMMA RemoveStep ==
    ASSUME ListTypes, WholePages, WalkOK, NEW u \in Account, Remove(u) PROVE WalkOK'
<1>1. /\ u \in live /\ live' = live \ {u} /\ start' = start /\ page' = page
      /\ pageSize' = pageSize /\ awaits' = awaits /\ list' = list /\ seen' = seen
      /\ live \in SUBSET Account /\ u \in start
  BY DEF Remove, ListTypes
<1>2. Edge' = Edge /\ Listed' = Listed /\ Edge \in Nat
  <2>1. Whole \in Nat /\ PagesRead \in Nat
    BY WholeSizes DEF ListTypes, PagesRead
  <2>2. QED
    BY <1>1, <2>1 DEF Edge, PagesRead, Whole, Listed
<1>3. \A w \in live' : /\ Place(w) \in Nat
                       /\ Place(w)' = Place(w) \/ Place(w)' = Place(w) - 1
  <2>1. \A w : Place(w)' = PlaceIn(live \ {u}, w)
    BY <1>1 DEF Place, PlaceIn
  <2>2. QED
    BY <1>1, <2>1, PlaceStep, PlaceNow, PlacesExist
<1>4. ReadBefore'
  BY <1>1, <1>2, <1>3 DEF ReadBefore, WalkOK
<1>5. ReadOnce'
  BY <1>1 DEF ReadOnce, WalkOK
<1>6. MissedFew'
  <2>1. PICK x : Missed' \subseteq Missed \cup {x}
    <3>1. \A w \in Missed' : w \in live /\ (w \in Missed \/ Place(w) = Edge)
      BY <1>1, <1>2, <1>3 DEF Missed
    <3>2. \A v, w \in live : Place(v) = Edge /\ Place(w) = Edge => v = w
      <4>1. \A v, w \in live : v < w => Place(v) < Place(w)
        BY <1>1, PlacesDiffer, PlaceNow
      <4>2. \A v \in live : v \in Nat
        BY <1>1, AccountAssumption
      <4>3. QED
        BY <1>2, <4>1, <4>2
    <3>3. CASE \E v \in live : Place(v) = Edge
      BY <3>1, <3>2, <3>3
    <3>4. CASE ~\E v \in live : Place(v) = Edge
      BY <3>1, <3>4
    <3>5. QED
      BY <3>3, <3>4
  <2>2. /\ IsFiniteSet(Missed \cup {x}) /\ Cardinality(Missed \cup {x}) \in Nat
        /\ Cardinality(Missed \cup {x}) <= Cardinality(Missed) + 1
    <3>1. IsFiniteSet(Missed) /\ Cardinality(Missed) \in Nat
      BY Countable
    <3>2. /\ IsFiniteSet(Missed \cup {x})
          /\ Cardinality(Missed \cup {x}) =
                IF x \in Missed THEN Cardinality(Missed) ELSE Cardinality(Missed) + 1
      BY <3>1, FS_AddElement
    <3>3. QED
      BY <3>1, <3>2
  <2>3. Cardinality(Missed') \in Nat /\ Cardinality(Missed') <= Cardinality(Missed \cup {x})
    BY <2>1, <2>2, FS_Subset, FS_CardinalityType
  <2>4. Cardinality((start \ live)') = Cardinality(start \ live) + 1
    <3>1. (start \ live)' = (start \ live) \cup {u} /\ u \notin start \ live
      BY <1>1
    <3>2. QED
      BY <3>1, Countable, FS_AddElement
  <2>5. QED
    BY <2>2, <2>3, <2>4, Countable DEF MissedFew, WalkOK
<1>7. EndsBehind'
  <2>1. Cardinality(live') = Cardinality(live) - 1
    BY <1>1, Countable, FS_RemoveElement
  <2>2. QED
    BY <1>1, <1>2, <2>1, Countable DEF EndsBehind, WalkOK
<1>8. QED
  BY <1>4, <1>5, <1>6, <1>7 DEF WalkOK

\* Every reachable state of a walk is as it should be.
LEMMA WalkInvariant == ListSpec => []WalkInv
<1>1. WalkInv /\ [ListNext]_vars => WalkInv'
  <2> SUFFICES ASSUME WalkInv, [ListNext]_vars PROVE WalkInv'
    OBVIOUS
  <2>1. ListTypes /\ ListTypes' /\ (WholePages => WalkOK)
    BY ListTypesStep DEF WalkInv
  <2>2. ASSUME NEW size \in PageSizes, Walk(size) PROVE WalkOK'
    BY <2>1, <2>2, WalkStep
  <2>3. ASSUME PageQuery, WholePages PROVE WalkOK'
    BY <2>1, <2>3, PageStep
  <2>4. ASSUME CountQuery, WholePages PROVE WalkOK'
    BY <2>1, <2>4, CountStep
  <2>5. ASSUME NEW u \in Account, Remove(u), WholePages PROVE WalkOK'
    BY <2>1, <2>5, RemoveStep
  <2>6. ASSUME UNCHANGED vars, WholePages PROVE WalkOK'
    BY <2>1, <2>6 DEF vars, WalkOK, ReadBefore, ReadOnce, MissedFew, EndsBehind, Missed,
       Listed, Edge, PagesRead, Whole, Place
  <2>7. pageSize' = pageSize \/ \E size \in PageSizes : Walk(size)
    BY DEF ListNext, vars, PageQuery, CountQuery, Remove
  <2>8. WholePages' => WalkOK'
    BY <2>2, <2>3, <2>4, <2>5, <2>6, <2>7 DEF ListNext, WholePages
  <2>9. QED
    BY <2>1, <2>8 DEF WalkInv
<1>2. QED
  BY WalkInit, <1>1, PTL DEF ListSpec

\* A walk over whole pages lists nobody twice and misses no more of the remaining users
\* than were removed during it, for any users, sizes and removals (getUserList).
THEOREM WalkFaithful == ListSpec => []PagesFaithful
<1>1. WalkInv => PagesFaithful
  <2> SUFFICES ASSUME WalkInv, WholePages
               PROVE  /\ \A u \in Account : seen[u] <= 1
                      /\ awaits = "done" => Cardinality(Omitted) <= Cardinality(start \ live)
    BY DEF PagesFaithful, NoneTwice, OmittedAtMostRemoved
  <2>1. ListTypes /\ WalkOK
    BY DEF WalkInv
  <2>2. \A u \in Account : seen[u] <= 1
    BY <2>1 DEF WalkOK, ReadOnce
  <2>3. ASSUME awaits = "done" PROVE Cardinality(Omitted) <= Cardinality(start \ live)
    <3>1. Edge \in Int /\ Cardinality(live) <= Edge
      <4>1. Whole \in Nat /\ PagesRead \in Nat
        BY <2>1, WholeSizes DEF ListTypes, PagesRead
      <4>2. QED
        BY <2>1, <2>3, <4>1 DEF WalkOK, EndsBehind, Edge
    <3>2. Omitted \subseteq Missed
      <4>1. \A u \in live : Place(u) < Edge
        BY <2>1, <3>1, PlacesExist, Countable DEF ListTypes
      <4>2. QED
        BY <2>1, <2>3, <4>1 DEF Omitted, Missed, Listed, ListTypes
    <3>3. Cardinality(Omitted) <= Cardinality(Missed) /\ Cardinality(Omitted) \in Nat
      BY <2>1, <3>2, Countable, FS_Subset, FS_CardinalityType
    <3>4. QED
      BY <2>1, <3>3, Countable DEF WalkOK, MissedFew
  <2>4. QED
    BY <2>2, <2>3
<1>2. QED
  BY WalkInvariant, <1>1, PTL
=============================================================================
