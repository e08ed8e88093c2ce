SPECIFICATION Spec
CONSTANTS
    e1 = e1
    e2 = e2
    obj1 = obj1
    obj2 = obj2
    show = show
    Events = {e1, e2}
    Clients = {c1}
    Slots <- SomeSlots
    Inputs <- SomeInputs
    Inboxes <- SomeInboxes
    MaxFaults = 2
INVARIANTS AcceptedMeansStored
PROPERTIES EventsAccepted
CHECK_DEADLOCK FALSE
