SPECIFICATION Spec
CONSTANTS
    p1 = p1
    p2 = p2
    Producers = {p1, p2}
    MaxPushes = 5
    InitialCapacity = 2
    MaxCapacities = {4, 8}
    Nothing = Nothing
SYMMETRY Symmetry
INVARIANTS
    QueueSound
    SpinAttended
PROPERTIES
    FifoHolds
