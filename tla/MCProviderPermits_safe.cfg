SPECIFICATION MCSpec
CONSTANTS
    w1 = w1
    w2 = w2
    r1 = r1
    c1 = c1
    c2 = c2
    c3 = c3
    Worker <- TwoWorkers
    Region <- OneRegion
    Call <- ThreeCalls
    RegionOf <- SameRegion
    WorkerOf <- Split
    Cooldown <- TwoCooldowns
    Ttl = 2
    Interval = 0
    MaxInflight = 2
    NeedRegion = TRUE
    MayProbe = TRUE
    Reprobe = 2
    EgressBudget = 2
    Retention = 1
    MaxTime = 4
    MaxRequests = 1
    MaxLate = 1
INVARIANTS
    TypeOK
    HeldUntilExpiry
    EgressCountedOnce
    ProbeAlone
    PermitsWithinBudget
PROPERTY
    CooldownRespected
