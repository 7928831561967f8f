\* Retries without eager acceptance, with message ids, and what becomes of the messages,
\* over one loss of the process, the connection or the receiver.  No symmetry set, but
\* ordered first deliveries.
SPECIFICATION OrderedFairSpec
CONSTANTS
    Messages = {1, 2}
    Unreadable = {}
    NoId = NoId
    Identified = TRUE
    Eager = FALSE
    ConcurrentLimit = 1
    MaxRedeliverCount = 1
    RedisMayFail = FALSE
    MaxDeliveries = 5
    MaxReceivers = 2
CHECK_DEADLOCK FALSE
INVARIANTS
    NoDoubleHandling
PROPERTIES
    ImplementsBoundedRetry
    EventuallySettled
