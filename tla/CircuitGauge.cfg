SPECIFICATION GaugeSpec
CONSTANTS
    Callers = {c1, c2}
    FailureThreshold = 2
    OpenTimeout = 2
    MaxFaults = 4
    MaxResets = 1
INVARIANTS
    TypeOK
    TicketsExpireWithTransitions
    ProbeFlagHasOneOwner
PROPERTIES
    OpensOnlyOnThreshold
    CoolsDownBeforeAdmitting
    GaugeSettles
