SPECIFICATION Spec
CONSTANTS
    Workers = {w1, w2}
    Deliveries = {d1}
    MaxAttempts = 3
    BatchSize = 1
    Lease = 3
    RequestTimeout = 1
    MarkDelay = 4
    BackoffCap = 2
    MaxFaults = 2
    MaxReplays = 1
INVARIANTS
    TypeOK
    OneLiveAttempt
    RetryBudget
    DeliveredWasAccepted
PROPERTIES
    EveryDeliverySettles
    TerminalStatesHold
