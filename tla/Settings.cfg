SPECIFICATION FairSpec
CONSTANTS
    Health <- TwoHealths
    TTL = {0, 1}
    Tunnel = {t1}
    Caller = {c1, c2}
    Slot = {g1, g2}
    NoSlot = NoSlot
    web = web
    p1 = p1
    p2 = p2
    Services <- OneService
    Addr = {p1, p2}
    Setting <- ThreeSettings
    MaxSave = 2
INVARIANTS TypeOK LoopBehindIsTold OneLatencyTicker InForceUnlessAstray
PROPERTIES LoopFollows
