SPECIFICATION FairSpec
CONSTANTS
    l1 = l1
    l2 = l2
    p1 = p1
    p2 = p2
    Lease <- OneLease
    Producer <- OneProducer
    MaxCrashes = 1
    MaxReaderCrashes = 1
CHECK_DEADLOCK FALSE
INVARIANTS
    FinalRunSettled
PROPERTIES
    ExposureMovesForward
    
