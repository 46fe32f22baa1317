SPECIFICATION Spec
CONSTANTS
    a1 = a1
    a2 = a2
    a3 = a3
    k1 = k1
    k2 = k2
    Agents = {a1, a2, a3}
    Keys = {k1, k2}
    Scenarios <- MCScenarios
    Nobody = Nobody
SYMMETRY Symmetry
INVARIANTS
    NoStaleChange
    NoStaleJoin
    CallsSound
    LoadsAreCached
