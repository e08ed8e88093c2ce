SPECIFICATION Spec
CONSTANTS
    Requests = {r1, r2, r3}
    Tenants = {t1, t2}
    Addresses = {a1}
    Burst <- LayerBurst
    Rate <- LayerRate
    Token = 2
    NoBucket = NoBucket
    MaxTime = 2
SYMMETRY RequestSymmetry
INVARIANTS TypeOK AdmissionsWithinRate RefusedRequestsCostNothing
CHECK_DEADLOCK FALSE
