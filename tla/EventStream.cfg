SPECIFICATION Spec
CONSTANTS
    c1 = c1
    Consumers = {c1}
    t1 = t1
    t2 = t2
    Tenants = {t1, t2}
    Retention = 2
    Buffer = 1
    MaxSequence = 4
    MaxDisconnects = 1
    MaxResets = 1
CHECK_DEADLOCK FALSE
INVARIANTS
    TypeOK
    ChannelClosedOnce
    NoLeakedSubscription
    SentInOrder
    NoSilentGap
PROPERTIES
    ConsumersCatchUp
