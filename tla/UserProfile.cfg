\* Two connections to the service on one user's profile, and an id that is unknown.
SPECIFICATION FairSpec
CONSTANTS
    Client = {c1, c2}
    User = {u1, u2}
    Known = {u1}
    Viewed = {u1}
    Ttl = 2
    MaxUpdates = 1
    MaxAge = 3
CHECK_DEADLOCK FALSE
INVARIANTS
    BoundedStaleness
PROPERTIES
    TruthfulCount
    Answered
