\* Two partitions and a fanout of one exchange, a temporary queue; every order of
\* listening, sending and losing.
SPECIFICATION BoundedFairSpec
CONSTANTS
    Topic = {t1, t2}
    Fanout = {f}
    Direct = {d}
    Durable = {t1, f}
    Message = {m1}
    MaxLosses = 1
    MaxListeners = 2
CHECK_DEADLOCK FALSE
INVARIANTS
    NoStray
    RefusedOnlyRoutedTemporary
PROPERTIES
    ListenerReached
    ReceivedInTheEnd
