SPECIFICATION Spec
CONSTANTS
    Requests = {r1, r2}
    Keys = {k1}
    Fingerprints = {"f1", "f2"}
    WebhookURL = TRUE
CHECK_DEADLOCK FALSE
INVARIANTS
    CacheFollowsTable
    NoPartialOrder
PROPERTIES
    ImplementsOnceOnly
    ReleasesOnlyOwnLock
    EveryRequestAnswered
