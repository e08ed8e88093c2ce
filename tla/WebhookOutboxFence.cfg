SPECIFICATION Spec
CONSTANTS
    w1 = w1
    w2 = w2
    Workers = {w1, w2}
    d1 = d1
    Deliveries = {d1}
    MaxAttempts = 2
    BatchSize = 2
    Lease = 3
    RequestTimeout = 1
    MarkDelay = 4
    BackoffCap = 2
    MaxFaults = 0
    MaxReplays = 1
INVARIANTS
    DeadLetterIsExhausted
