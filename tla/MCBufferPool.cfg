\* Three clients on a pool of two frames, three pages, a crash, two frees.
SPECIFICATION Spec
CONSTANTS
    c1 = c1
    c2 = c2
    c3 = c3
    Client <- ThreeClients
    PoolSize = 2
    MaxUsage = 2
    MaxPages = 3
    MaxVersion = 2
    MaxFrees = 2
    MaxCrashes = 1
INVARIANTS
    PoolConsistent
    PinnedPagesStay
    NoLostUpdate
    UsedPagesAreNotFree
    VictimExists
    AllocatorStateLoads
SYMMETRY Threads
CHECK_DEADLOCK FALSE
