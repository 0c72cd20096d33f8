SPECIFICATION PgSpec
CONSTANTS
    w1 = w1
    t1 = t1
    d1 = d1
    api = api
    tool = tool
    NoWorker = NoWorker
    Worker <- OneWorker
    Task <- OneTask
    Capable <- AllCapable
    Payload <- OnePayload
    RetryDelay <- NoDelay
    MaxAttempts = 2
    MaxConsumeAttempts = 1
    LeaseSeconds = 1
    Retention = 1
    MaxTime = 2
    MaxInstance = 2
    MaxBatches = 1
    Session <- ApiAndTool
    Reader <- OneApi
    MaxKept = 0
    MaxWait = 1
CHECK_DEADLOCK FALSE
INVARIANTS
    LeaseOfKnownIncarnation
PROPERTIES
    LiveLeaseNotStolen
    ImplementsInbox
