---------------------------- MODULE MCAmqpConsumer ----------------------------
(* AmqpConsumer for TLC: the messages, which of them may be permuted.       *)
EXTENDS AmqpConsumer, TLC

\* Messages are alike, but for those that cannot be parsed.
Symmetry == Permutations(Messages \ Unreadable)

\* Liveness admits no symmetry set.  With messages that are numbers, only the behaviours in
\* which their first deliveries come in order: every other is one of these, renumbered.
FirstInOrder ==
    \A m, n \in Messages : m < n /\ delivered[n] > 0 => delivered[m] > 0
OrderedFairSpec == Init /\ [][Next /\ FirstInOrder']_vars /\ Fairness
=============================================================================
