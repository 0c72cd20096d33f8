SPECIFICATION FairBridgeSpec
CONSTANTS
    t1 = t1
    t2 = t2
    w1 = w1
    br = br
    NoOwner = NoOwner
    Task <- OneTask
    Wide <- FirstTask
    Traced <- FirstTask
    Owner <- BothOwners
    Worker <- OneWorker
    Bridge = br
    LeaseSeconds = 2
    RetryDelay = 1
    MaxAttempt = 4
    Window = 1
    Interval = 1
    MaxCrashes = 0
    MaxFailures = 0
    MaxRetries = 0
    DispatchLimit = 1
    MaxConsumeAttempts = 2
    MaxFaults = 1
    MaxPoison = 1
    MaxDead = 1
CHECK_DEADLOCK FALSE
PROPERTY
    BridgedTaskEnds
INVARIANTS
    BridgeTypeOK
    ConsumedIsCommitted
    ClosedHasReleased
    CreditHasProof
    CostCountedOnce
