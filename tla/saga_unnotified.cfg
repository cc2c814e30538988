SPECIFICATION Spec
CONSTANTS
    t1 = t1
    t2 = t2
    w1 = w1
    w2 = w2
    Txs <- OneTx
    Workers <- OneWorker
    Configured <- OneTx
    BatchSize = 1
    MaxDeliver = 2
    MaxFaults = 0
    NoMsg = NoMsg
INVARIANTS
    SettledIsNotified
CHECK_DEADLOCK FALSE
