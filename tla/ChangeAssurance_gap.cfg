SPECIFICATION MCSpec
CHECK_DEADLOCK FALSE
CONSTANTS
    p1 = p1
    p2 = p2
    k1 = k1
    k2 = k2
    f = f
    base = base
    cand = cand
    Property = {p1, p2}
    Config = {base, cand}
    Base = base
    Component = {k1, k2}
    Foreign = {f}
    Value = {1, 2}
    Depends <- MCDepends
    Captured <- MCCaptured
    EvidenceTTL = 2
    DecisionTTL = 1
    EnvelopeTTL = {1, 2}
    MaxLog = 10
    MaxClock = 2
INVARIANTS
    GapReachesEveryClaim
