---------------------------- MODULE MCAuthSession ----------------------------
(* AuthSession for TLC: the clients' calls, and what may be permuted.       *)
EXTENDS AuthSession, TLC

\* Requests carry no meaning beyond their identity.
Symmetry == Permutations(Requests)

\* One login and possibly a second, which revokes the session of the first.
TwoLoginsInit == Init /\ Cardinality({r \in Requests : kind[r] = "login"}) \in {1, 2}
TwoLoginsSpec == TwoLoginsInit /\ [][Next]_vars

\* Liveness admits no symmetry set.  With requests that are numbers, only the initial states
\* that name the kinds of call in order: every other is one of these, renumbered.
Order == <<"login", "logout", "requestOtp", "checkOtp", "checkSelfie", "addPermission",
           "addSessionLocalFlow">>
Rank(k) == CHOOSE i \in DOMAIN Order : Order[i] = k
OrderedInit ==
    /\ TwoLoginsInit
    /\ \A r, s \in Requests : r < s => Rank(kind[r]) <= Rank(kind[s])
OrderedFairSpec == OrderedInit /\ [][Next]_vars /\ Fairness
=============================================================================
