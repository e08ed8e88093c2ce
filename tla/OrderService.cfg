SPECIFICATION Spec
CONSTANTS
    Requests = {r1, r2}
    Keys = {k1, k2}
    k1 = k1
    k2 = k2
    f1 = f1
    f2 = f2
    Inputs <- SomeInputs
    None = None
    Attempts = 2
    FailureThreshold = 1
    OpenTimeout = 1
    MaxModeChanges = 1
    MaxResets = 1
INVARIANTS TypeOK RegistryMatchesStore SuccessNamesStoredOrder CountersAddUp ProbeReports
PROPERTIES ImplementsClaimed ResetCompletes
CHECK_DEADLOCK FALSE
