\* Both connections of the AMQP service over three connections and two losses.
SPECIFICATION FairSpec
CONSTANTS
    MaxConnections = 3
    Sends = {s1, s2}
    Durable = {s1}
    MaxLinkLosses = 2
    MaxDeletions = 1
CHECK_DEADLOCK FALSE
INVARIANTS
    ManagementInOrder
    ExitsOnlyWithoutChannel
PROPERTIES
    Reconnects
    ReceiverReturns
    SendSettles
