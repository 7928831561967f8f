\* Eager acceptance and credits, with a message nobody can parse and a Redis that fails.
SPECIFICATION Spec
CONSTANTS
    Messages = {m1, m2, m3}
    Unreadable = {m3}
    NoId = NoId
    Identified = FALSE
    Eager = TRUE
    ConcurrentLimit = 2
    MaxRedeliverCount = 1
    RedisMayFail = TRUE
    MaxDeliveries = 2
    MaxReceivers = 2
SYMMETRY Symmetry
CHECK_DEADLOCK FALSE
INVARIANTS
    NoCreditLeak
    EagerOncePerLink
