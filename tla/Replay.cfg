SPECIFICATION ReplaySpec
CONSTANTS
    Earlier = {e1, e2}
    Concurrent = {c1, c2, c3}
    Outages = {o1, o2, o3}
    Recovery = rec
    First = ws1
    Second = ws2
    Requests = {e1, e2, c1, c2, c3, o1, o2, o3, rec, ws1, ws2}
    Keys = {e1, e2, c1, c2, c3, o1, o2, o3, rec, ws1, ws2}
    Inputs <- ReplayInputs
    None = None
    Attempts = 2
    FailureThreshold = 2
    OpenTimeout = 2
    SleepTicks = 3
    MaxModeChanges = 3
    MaxResets = 1
PROPERTIES EveryScenarioPasses
CHECK_DEADLOCK FALSE
