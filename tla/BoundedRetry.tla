---------------------------- MODULE BoundedRetry ----------------------------
(***************************************************************************)
(* What the AMQP consumer promises about a queue's messages, with no        *)
(* credits, links, deliveries or counters: a message is tried at most      *)
(* MaxTries times; it is finished only when some try of it succeeded, and   *)
(* dead-lettered only when it cannot be read or all its tries are used up. *)
(* A try may still run, or begin, after the queue has got its message back *)
(* or has been told the message is finished: messages are handled at least *)
(* once, never exactly once.                                               *)
(***************************************************************************)
EXTENDS Naturals

CONSTANTS Messages, Unreadable, MaxTries

VARIABLES place,    \* "ready", "taken", "done" or "dead", for each message
          tries,    \* how often each message was handed to the handler
          handled   \* the messages some try of which succeeded

vars == <<place, tries, handled>>

Init ==
    /\ place = [m \in Messages |-> "ready"]
    /\ tries = [m \in Messages |-> 0]
    /\ handled = {}

Take(m) ==
    /\ place[m] = "ready"
    /\ place' = [place EXCEPT ![m] = "taken"]
    /\ UNCHANGED <<tries, handled>>

\* The queue takes messages back: one by one, or all of a lost link together.
GiveBack(S) ==
    /\ \A m \in S : place[m] = "taken"
    /\ place' = [m \in Messages |-> IF m \in S THEN "ready" ELSE place[m]]
    /\ UNCHANGED <<tries, handled>>

Try(m) ==
    /\ m \notin Unreadable /\ tries[m] < MaxTries
    /\ tries' = [tries EXCEPT ![m] = @ + 1]
    /\ UNCHANGED <<place, handled>>

Succeed(m) ==
    /\ tries[m] > 0
    /\ handled' = handled \cup {m}
    /\ UNCHANGED <<place, tries>>

Finish(m) ==
    /\ place[m] = "taken" /\ m \in handled
    /\ place' = [place EXCEPT ![m] = "done"]
    /\ UNCHANGED <<tries, handled>>

Bury(m) ==
    /\ place[m] = "taken"
    /\ m \in Unreadable \/ tries[m] = MaxTries
    /\ place' = [place EXCEPT ![m] = "dead"]
    /\ UNCHANGED <<tries, handled>>

Next ==
    \/ \E m \in Messages : Take(m) \/ Try(m) \/ Succeed(m) \/ Finish(m) \/ Bury(m)
    \/ \E S \in SUBSET Messages : GiveBack(S)

Spec == Init /\ [][Next]_vars
=============================================================================
