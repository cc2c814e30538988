SPECIFICATION Spec
CONSTANTS
    d1 = d1
    d2 = d2
    w1 = w1
    w2 = w2
    Deliveries <- OneDelivery
    Workers <- TwoWorkers
    BatchSize = 1
    MaxAttempts = 3
    MaxFaults = 0
    NoJob = NoJob
INVARIANTS
    NoDoubleDelivery
CHECK_DEADLOCK FALSE
