\* Two indexes, pages for two records, two steps that throw, one abort.
SPECIFICATION Spec
CONSTANTS
    PageBytes = 7
    SlotBytes = 1
    Index = {1, 2}
    UniqueIndex = {1}
    Tuple <- MCTuple
    KeyOf <- MCKeyOf
    Null = Null
    SizeOf <- MCSizeOf
    BucketBytes = 2
    MaxPages = 2
    MaxStatements = 4
    MaxFailures = 2
    MaxAborts = 1
INVARIANTS
    PagesSound
    FreeSpaceNotOverstated
    NoDanglingEntries
    IndexesAgree

    
CHECK_DEADLOCK FALSE
