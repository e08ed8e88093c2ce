SPECIFICATION Spec
CONSTANTS
    c1 = c1
    c2 = c2
    c3 = c3
    Callers = {c1, c2, c3}
    s1 = s1
    Scopes = {s1}
    Fingerprints = {"f1", "f2"}
    NoEntry = NoEntry
    TTL = 2
    PurgeInterval = 1
    MaxTime = 4
INVARIANTS
    LeaderOwnsScope
    OneSuccessPerTTL
PROPERTIES
    EveryCallReturns
