SPECIFICATION FairSpec
CONSTANTS
    r1 = r1
    r2 = r2
    r3 = r3
    r4 = r4
    Requests <- FourRequests
    Invalid <- OneInvalid
    MaxFaults = 3
    Nobody = Nobody
INVARIANTS
    IdempotencyInv
    AnswersAgree
    HandlingIsExclusive
PROPERTIES
    KeptUntilExpiry
    PlaceholderEnds
CHECK_DEADLOCK FALSE
