SPECIFICATION Spec
CONSTANTS
    u1 = u1
    u2 = u2
    Upstream = {u1}
    Listing <- OneListing
    Malformed = {}
    Key = {k1}
    Keying <- SameKeys
    Request = {r1}
    AutoSlot = {a1, a2}
    Threshold = {2}
    LatencyMax = {0}
    Latency = {1}
    MaxGen = 2
    MaxFails = 2
SYMMETRY Interchangeable
INVARIANTS RebuildExclusive RunningAreEnabled
PROPERTIES SleepersStayAsleep FollowsLifecycle
