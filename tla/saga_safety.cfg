SPECIFICATION Spec
CONSTANTS
    t1 = t1
    t2 = t2
    w1 = w1
    w2 = w2
    Txs <- OneTx
    Workers <- TwoWorkers
    Configured <- OneTx
    BatchSize = 1
    MaxDeliver = 2
    MaxFaults = 2
    NoMsg = NoMsg
SYMMETRY WorkerSymmetry
INVARIANTS
    SagaInv
    NoLostPayment
    CreatedOnce
    ChargeNeedsApproval
    EveryDoubleChargeHasAFault
    StatusBacked
    LostNotificationsHaveFaults
PROPERTIES
    NeverReopened
    ImplementsLifecycle
CHECK_DEADLOCK FALSE
