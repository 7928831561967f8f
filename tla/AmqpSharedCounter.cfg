\* The messages sendMessage sends, which have no message_id.
SPECIFICATION Spec
CONSTANTS
    Messages = {m1, m2}
    Unreadable = {}
    NoId = NoId
    Identified = FALSE
    Eager = FALSE
    ConcurrentLimit = 2
    MaxRedeliverCount = 1
    RedisMayFail = FALSE
    MaxDeliveries = 4
    MaxReceivers = 1
CHECK_DEADLOCK FALSE
INVARIANTS
    DeadLetteredOnlyAfterAttempts
