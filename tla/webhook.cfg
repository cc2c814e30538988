SPECIFICATION FairSpec
CONSTANTS
    d1 = d1
    d2 = d2
    w1 = w1
    w2 = w2
    Deliveries <- OneDelivery
    Workers <- TwoWorkers
    BatchSize = 1
    MaxAttempts = 3
    MaxFaults = 2
    NoJob = NoJob
INVARIANTS
    WebhookInv
    GivenUpAfterTrying
    RepeatsAreExplained
PROPERTIES
    EventuallyDone
    ReopenedByOverlap
CHECK_DEADLOCK FALSE
