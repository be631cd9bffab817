SPECIFICATION Spec
CONSTANTS
    Upstream = {u1, u2}
    Handler = {w1, w2}
    Main = main
    Batch = 2
    None = none
    Torn = torn
SYMMETRY Interchangeable
INVARIANTS TypeOK DiskIsMemory AlignedUnlessMissed
PROPERTIES IsDurable
