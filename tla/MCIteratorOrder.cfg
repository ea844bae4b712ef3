SPECIFICATION Spec
CONSTANTS
    Key = {1, 2, 3, 4, 5}
    Rid = {1}
    NodeCapacity = 14
    LeafEntryBytes = 3
    InternalEntryBytes = 3
    InitialTree <- MCOneLeaf
    MaxOps = 1
INVARIANTS IteratorOrder
CHECK_DEADLOCK FALSE
