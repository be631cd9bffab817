SPECIFICATION Spec
CONSTANTS
    u1 = u1
    u2 = u2
    Upstream = {u1, u2}
    Account = {a1}
    Client = {c1, c2}
    Bound <- MCBound
    Rank <- MCRank
    Latency = {1}
INVARIANTS TypeOK BoundServesFirst NoUpstreamMissed ConnsBalanced StickyOnlyPreferred
SYMMETRY Interchangeable
