SPECIFICATION Spec
CONSTANTS
    c1 = c1
    c2 = c2
    d1 = d1
    d2 = d2
    d3 = d3
    Clients = {c1, c2}
    Drainers = {d1, d2, d3}
    NoDrainer = NoDrainer
    Ops = {"write", "read", "cleanUp", "getMaximum", "order", "invalidateAll"}
    MaxOps = 2
    Retries = 1
    WriteCap = 2
    CallerRuns = TRUE
    HasDefaultExecutor = FALSE
SYMMETRY Symmetry
INVARIANTS
    MutexHandOver
    ProcessingAttended
    TasksConserved
