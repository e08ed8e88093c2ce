SPECIFICATION Spec
CONSTANTS
    Requests = {r1, r2}
    Keys = {k1}
    Fingerprints = {"f1"}
    WebhookURL = FALSE
CHECK_DEADLOCK FALSE
INVARIANTS
    SomeoneCreated
