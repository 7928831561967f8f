-------------------------- MODULE SessionLifecycle --------------------------
(***************************************************************************)
(* What login, logout and the guard promise about session ids, with no     *)
(* Redis, no records and no stages: an id is opened once, by a login;      *)
(* it closes once, by a logout, a later login or expiry; and a request may *)
(* start working under an id only while it is open.  A request already at  *)
(* work may finish after the id has closed.                                *)
(***************************************************************************)
CONSTANTS Ids,       \* session ids
          Requests,  \* requests that work under them
          NoId

VARIABLES status,    \* "unissued", "open" or "closed", for each id
          using      \* the id each request works under, or NoId

vars == <<status, using>>

Init ==
    /\ status = [i \in Ids |-> "unissued"]
    /\ using = [r \in Requests |-> NoId]

Open(i) ==
    /\ status[i] = "unissued"
    /\ status' = [status EXCEPT ![i] = "open"]
    /\ UNCHANGED using

\* Several ids may close at one instant: expiry, or a login that replaces them.
Close(S) ==
    /\ \A i \in S : status[i] = "open"
    /\ status' = [i \in Ids |-> IF i \in S THEN "closed" ELSE status[i]]
    /\ UNCHANGED using

\* A logout may close its id without hearing of it, and end there.
CloseAndLeave(r, i) ==
    /\ status[i] = "open" /\ using[r] = i
    /\ status' = [status EXCEPT ![i] = "closed"]
    /\ using' = [using EXCEPT ![r] = NoId]

Use(r, i) ==
    /\ status[i] = "open"
    /\ using[r] = NoId
    /\ using' = [using EXCEPT ![r] = i]
    /\ UNCHANGED status

\* Requests end, one by one or all together when the server dies.
Leave(S) ==
    /\ using' = [r \in Requests |-> IF r \in S THEN NoId ELSE using[r]]
    /\ UNCHANGED status

Next ==
    \/ \E i \in Ids : Open(i)
    \/ \E S \in SUBSET Ids : Close(S)
    \/ \E r \in Requests, i \in Ids : Use(r, i) \/ CloseAndLeave(r, i)
    \/ \E S \in SUBSET Requests : Leave(S)

Spec == Init /\ [][Next]_vars
=============================================================================
