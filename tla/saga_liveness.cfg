SPECIFICATION FairSpec
CONSTANTS
    t1 = t1
    t2 = t2
    w1 = w1
    w2 = w2
    Txs <- OneTx
    Workers <- TwoWorkers
    Configured <- OneTx
    BatchSize = 1
    MaxDeliver = 2
    MaxFaults = 1
    NoMsg = NoMsg
PROPERTIES
    EventuallySettled
    CaptureReachesDatabase
    ApprovedGetsResult
CHECK_DEADLOCK FALSE
