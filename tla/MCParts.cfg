SPECIFICATION PartsSpec
CONSTANTS
    a1 = a1
    a2 = a2
    m1 = m1
    m2 = m2
    m3 = m3
    None = None
    Members = {m1, m2, m3}
    Agents = {a1, a2}
    Capacity = 2
    Scores = {1, 2}
    Cap = 3
    MaxChanges = 4
    Callers = {a1, a2, m1}
    Plans <- MCPlans
    First = m2
    Period = 2
    Backoff = 1
    MaxToday = 2
INVARIANTS
    CleanUpServes
    SavedFaithfully
    BoardFaithful
    SlicesSound
    CountsSound
    StatsSound
    ReloadsSound
CHECK_DEADLOCK FALSE
