SPECIFICATION Spec
CONSTANTS
    t1 = t1
    t2 = t2
    w1 = w1
    w2 = w2
    NoOwner = NoOwner
    Task <- TwoTasks
    Wide <- WideOnes
    Traced <- TracedOnes
    Owner <- TwoWorkers
    Worker <- TwoWorkers
    LeaseSeconds = 2
    RetryDelay = 1
    MaxAttempt = 2
    Window = 2
    Interval = 1
    MaxCrashes = 1
    MaxFailures = 1
    MaxRetries = 1
CHECK_DEADLOCK FALSE
SYMMETRY WorkerSymmetry
INVARIANTS
    OneExecution
    InTimeIsOwned
PROPERTY
    EndedForGood
