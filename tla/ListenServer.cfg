SPECIFICATION Spec
CONSTANTS
    proxy = proxy
    web = web
    p1 = p1
    p2 = p2
    Service = {proxy, web}
    Addr = {p1, p2, p3}
    Boot <- BootAddr
    Swapper = {w1, w2}
    MaxListener = 4
    ErrCap = 1
    SelfClosing = {web}
SYMMETRY Interchangeable
\* Once main has exited nothing runs any more.
CHECK_DEADLOCK FALSE
INVARIANTS TypeOK NoOrphanListener ServiceUninterrupted
PROPERTIES SwapsAreMoves
