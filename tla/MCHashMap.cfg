SPECIFICATION Spec
CONSTANTS
    k1 = k1
    k2 = k2
    r = r
    w1 = w1
    w2 = w2
    Procs = {r, w1, w2}
    Keys = {k1, k2}
    Ops <- MCOps
    MaxCalls <- MCMaxCalls
    Held = {{k1}, {k1, k2}}
    Slots = 1
    MinTableLen = 1
    ShrinkFraction = 2
    Hashes <- MCHashes
    None = None
SYMMETRY Symmetry
INVARIANTS
    ComputeAtomic
    TableSound
    NobodyOversleeps
    RangeComplete
PROPERTIES
    MapHolds
CHECK_DEADLOCK FALSE
