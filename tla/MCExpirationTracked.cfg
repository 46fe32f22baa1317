SPECIFICATION Spec
CONSTANTS
    k = k
    c1 = c1
    c2 = c2
    Keys = {k}
    Clients = {c1, c2}
    Ops <- MCOps
    Buckets <- MCBuckets
    Shift <- MCShift
    Word = 64
    TTLs = {1, 3}
    Start = 1
    MaxTime = 4
    MaxNodes = 2
    MaxCalls = 2
    None = None
INVARIANTS
    AllEntriesTracked
CHECK_DEADLOCK FALSE
