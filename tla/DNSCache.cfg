SPECIFICATION Spec
CONSTANTS
    Host = {h1, h2, h3}
    Caller = {c1, c2}
    TTL = {0, 1, 2}
    Longest = 2
    Capacity = 2
    MaxTime = 2
SYMMETRY Interchangeable
INVARIANTS TypeOK OrderIsIndex LifetimeBounded ServedFresh
