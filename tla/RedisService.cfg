SPECIFICATION FairSpec
CONSTANTS
    Service = {cache, amqp}
    AmqpCache = amqp
    Key = {k}
    Ttl = 1
    Called = {"set", "setEX", "setNX", "del", "read", "incr", "hIncrBy", "hSetWithExpire", "increaseDeliveryCount"}
    MaxCommands = 3
    MaxLosses = 1
CHECK_DEADLOCK FALSE
INVARIANTS
    OneGrant
    AckedCounted
    LastWriteWins
PROPERTIES
    CounterExpires
