SPECIFICATION FairSpec
CONSTANTS
    u1 = u1
    u2 = u2
    Upstream = {u1}
    Listing <- OneListing
    Malformed = {}
    Key = {k1, k2}
    Keying <- SameKeys
    Request = {r1}
    AutoSlot = {a1}
    Threshold = {1, 2}
    LatencyMax = {0}
    Latency = {1}
    MaxGen = 1
    MaxFails = 2
PROPERTIES RebuildEnds RequestAnswered OutageRepaired
