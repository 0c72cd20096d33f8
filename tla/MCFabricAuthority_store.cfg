SPECIFICATION Spec
CONSTANTS
    w1 = w1
    w2 = w2
    t1 = t1
    t2 = t2
    d1 = d1
    NoWorker = NoWorker
    Worker <- MCWorker
    Task <- TwoTasks
    Capable <- AllCapable
    Payload <- OnePayload
    RetryDelay <- NoDelay
    MaxAttempts = 2
    MaxConsumeAttempts = 1
    LeaseSeconds = 2
    Retention = 1
    MaxTime = 2
    MaxInstance = 2
    MaxBatches = 1
SYMMETRY Symmetry
INVARIANTS
    TypeOK
    
    
    CompactedIsDrained
    LeaseOfKnownIncarnation
    OneLivePerWorker
PROPERTIES
    UnreadIsKept
    TerminalIsFinal
    ImplementsInbox
    LiveLeaseNotStolen
    DeadlineNeverRegresses
