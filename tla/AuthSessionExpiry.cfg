\* Expiry and a crash or failed command among four overlapping requests of every kind, one
\* or two of them logins; no symmetry set, but ordered initial states.
SPECIFICATION OrderedFairSpec
CONSTANTS
    Requests = {1, 2, 3, 4}
    Users = {u1}
    Kinds = {"login", "logout", "requestOtp", "checkOtp", "checkSelfie",
             "addPermission", "addSessionLocalFlow"}
    NoSession = NoSession
    NoRequest = NoRequest
    Lifetime = 1
    MaxTime = 0
    Drain = TRUE
    MaxFaults = 1
    Sequential = FALSE
CHECK_DEADLOCK FALSE
INVARIANTS
    NoAdmissionAfterRevocation
    LaterLoginRevokesEarlier
    SelfieNeedsVerifiedOtp
PROPERTIES
    ExpiryPinned
    ImplementsLifecycle
    RevokedSessionGoneInTheEnd
