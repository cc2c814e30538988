SPECIFICATION FairSpec
CONSTANTS
    p1 = p1
    p2 = p2
    r1 = r1
    r2 = r2
    None = None
    Nil = Nil
    Payments <- TwoPayments
    Event <- Events
    RuleFiles <- AllFiles
    Replicas <- TwoReplicas
    MaxDeliver = 2
    MaxFaults = 2
INVARIANTS
    RiskInv
    LoadedRulesEvaluate
    EndlessCountersHaveFaults
    CountIsTraffic
PROPERTIES
    EveryPaymentDecided
CHECK_DEADLOCK FALSE
