SPECIFICATION Spec
CONSTANTS
    r1 = r1
    r2 = r2
    r3 = r3
    shop = shop
    None = None
    NoKey = NoKey
    Requests <- ThreeRequests
    ApiKeys <- Keys
    DefaultLimit = 2
    Window = 2
    TTL = 3
    MaxLag = 1
    MaxTime = 4
    MaxFaults = 2
SYMMETRY Symmetry
INVARIANTS
    RateInv
    AdmittedWithinLimit
    RejectionIsEarned
CHECK_DEADLOCK FALSE
