SPECIFICATION FairSpec
CONSTANTS
    c1 = c1
    c2 = c2
    d1 = d1
    d2 = d2
    d3 = d3
    Clients = {c1, c2}
    Drainers = {d1, d2, d3}
    NoDrainer = NoDrainer
    Ops = {"write", "read", "cleanUp", "getMaximum"}
    MaxOps = 1
    Retries = 1
    WriteCap = 1
    CallerRuns = FALSE
    HasDefaultExecutor = TRUE
INVARIANTS
    TypeOK
    MutexHandOver
    PendingAnnounced
    QuiescentDrained
PROPERTIES
    EveryTaskRuns
