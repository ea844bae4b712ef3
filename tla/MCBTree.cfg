SPECIFICATION Spec
CONSTANTS
    Key = {1, 5, 7, 8, 13, 20}
    Rid = {1}
    NodeCapacity = 14
    LeafEntryBytes = 3
    InternalEntryBytes = 3
    InitialTree <- MCInitialTree
    MaxOps = 2
INVARIANTS
    Shape
    DescentReachesLeaf
    CyclesOnlyInRelatch
PROPERTIES
    ImplementsIndex
CHECK_DEADLOCK FALSE
