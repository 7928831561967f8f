\* Clients that wait for each answer, two contracts; expiry, a second login and a crash.
SPECIFICATION TwoLoginsSpec
CONSTANTS
    Requests = {r1, r2, r3, r4, r5}
    Users = {u1}
    Kinds = {"login", "requestOtp", "checkOtp", "addPermission"}
    NoSession = NoSession
    NoRequest = NoRequest
    Lifetime = 2
    MaxTime = 0
    Drain = TRUE
    MaxFaults = 1
    Sequential = TRUE
SYMMETRY Symmetry
CHECK_DEADLOCK FALSE
INVARIANTS
    OtpVerifiedForCurrentContract
    GrantsRetained
    HungOnlyForCause
PROPERTIES
    ExpiryPinned
