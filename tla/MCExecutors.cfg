\* Inputs of up to three rows over three keys and NULL; five rows to sort.
SPECIFICATION Spec
CONSTANTS
    Key = {1, 2, 3}
    MaxRows = 3
    MaxSortRows = 5
    RunCapacity = 2
    MergeFanIn = 2
    Budget = 1
    MaxBatches = 4
    LimitCount = 2
    HashKey <- MCHashKey
    Serialize <- MCSerialize
INVARIANTS
    JoinsAgree
    OrderingCorrect
    SetOperationsCorrect
    AggregatesAgree
