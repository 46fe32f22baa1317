SPECIFICATION Spec
CONSTANTS
    c1 = c1
    c2 = c2
    k1 = k1
    k2 = k2
    Clients = {c1, c2}
    Keys = {k1, k2}
    Nodes = {1, 2, 3}
    NoNode = NoNode
    Word = 64
    Weights = {1}
    Maximums = {1, 3}
    ReadCap = 1
    Sequential = FALSE
SYMMETRY Symmetry
INVARIANTS
    NodesSound
    WeightAccounted
    DeletionsReported
