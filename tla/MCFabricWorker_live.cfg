SPECIFICATION FairWorkerSpec
CONSTANTS
    w1 = w1
    w2 = w2
    t1 = t1
    d1 = d1
    d2 = d2
    NoWorker = NoWorker
    NoTask = NoTask
    Worker <- TwoWorkers
    Task <- OneTask
    Capable <- AllCapable
    Payload <- OnePayload
    RetryDelay <- NoDelay
    MaxAttempts = 2
    MaxConsumeAttempts = 1
    LeaseSeconds = 1
    Retention = 1
    MaxTime = 2
    MaxInstance = 1
    MaxBatches = 1
    Lag = 0
    MaxLate = 1
    LateKinds = {"commit"}
CHECK_DEADLOCK FALSE
PROPERTIES
    SpoolDrains
