---------------------------- MODULE MCAmqpRouting ----------------------------
(* AmqpRouting for TLC: how many classes of the exchange listen at a time.    *)
EXTENDS AmqpRouting, FiniteSets

CONSTANT MaxListeners   \* bound: classes with a ROUTING that have called listen

\* A class with a ROUTING need not call listen, so the bound takes nothing from the
\* fairness; any two of them still do, with every class for the senders.
FewListeners == Cardinality({c \in Routed : stage[c] # "exchange"}) <= MaxListeners
BoundedFairSpec == Init /\ [][Next /\ FewListeners']_vars /\ Fairness
=============================================================================
