SPECIFICATION Spec
CONSTANTS
    u1 = u1
    u2 = u2
    Upstream = {u1, u2}
    Listing <- TwoListings
    Malformed = {u2}
    Key = {k1}
    Keying <- SameKeys
    Request = {r1}
    AutoSlot = {a1}
    Threshold = {1, 2}
    LatencyMax = {1}
    Latency = {1, 2}
    MaxGen = 1
    MaxFails = 2
SYMMETRY Interchangeable
INVARIANT RunningAreEnabled
