SPECIFICATION Spec
CONSTANTS
    r1 = r1
    r2 = r2
    r3 = r3
    Readers = {r1, r2, r3}
    MaxAdds <- MCMaxAdds
    MaxDrains = 2
    RingSize = 2
    MaxLen = 2
    Attempts = 3
    FirstIndexes = {1}
    None = None
SYMMETRY Symmetry
INVARIANTS
    RingsSound
    DrainIsComplete
PROPERTIES
    ImplementsBag
CHECK_DEADLOCK FALSE
