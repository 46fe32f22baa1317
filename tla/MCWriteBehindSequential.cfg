SPECIFICATION Spec
CONSTANTS
    c1 = c1
    k1 = k1
    k2 = k2
    Clients = {c1}
    Keys = {k1, k2}
    Nodes = {1, 2, 3}
    NoNode = NoNode
    Word = 64
    Weights = {0, 1, 2, 6}
    Maximums = {3, 16}
    ReadCap = 1
    Sequential = TRUE
SYMMETRY Symmetry
INVARIANTS
    BooksExact
    BoundedWhenSettled
