SPECIFICATION FairSpec
CONSTANTS
    c1 = c1
    c2 = c2
    k1 = k1
    Clients = {c1, c2}
    Keys = {k1}
    Nodes = {1, 2, 3}
    NoNode = NoNode
    Word = 64
    Weights = {0, 2}
    Maximums = {1}
    ReadCap = 0
    Sequential = FALSE
PROPERTIES
    EntryLifecycleHolds
    MaintenanceEnds
