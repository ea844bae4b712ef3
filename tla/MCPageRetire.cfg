\* Three guards, two merges and a drain.
SPECIFICATION Spec
CONSTANTS
    o1 = o1
    o2 = o2
    o3 = o3
    p1 = p1
    p2 = p2
    Op <- ThreeOps
    Page <- TwoPages
    MaxEpoch = 4
INVARIANTS
    GuardedPagesKept
    NothingWaitsForNobody
