SPECIFICATION Spec
CONSTANTS
    r1 = r1
    k1 = k1
    k2 = k2
    l1 = l1
    l2 = l2
    x1 = x1
    x2 = x2
    x3 = x3
    p1 = p1
    p2 = p2
    Reservoir <- OneReservoir
    Lease <- TwoLeases
    Reservation <- ThreeReservations
    Producer <- TwoProducers
    End = 2
    Key <- TwoKeys
    KeysAt <- Apart
    Capacity = 2
    GrantTtl = 2
    RenewTtl = 2
    Slots = 1
    MaxFaults = 1
CHECK_DEADLOCK FALSE
SYMMETRY ProducerSymmetry
INVARIANTS
    BacklogBounded
    NothingForgotten
    OneHolder
PROPERTY
    CursorMovesForward
