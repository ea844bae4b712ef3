SPECIFICATION Spec
CONSTANTS
    ColumnValue = {1, 2}
    Pair <- MCPair
    MinValue = 0
    NodeCapacity = 14
    LeafEntryBytes = 3
    InternalEntryBytes = 7
    InitialTree <- MCInitialTree
    MaxRetired = 2
    MaxStrays = 1
INVARIANTS
    Shape
    ScansMatch
PROPERTIES
    ImplementsIndex
CHECK_DEADLOCK FALSE
