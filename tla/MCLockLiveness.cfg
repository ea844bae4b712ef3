\* Progress of two transactions on two tables.
SPECIFICATION FairSpec
CONSTANTS
    Txn <- MCTxn2
    Relation <- TwoRelations
    Record = {}
    Index = {}
    RelationOf <- RecordsOfA
    Key = {}
    KeyRange = {}
    TableModes = {"S", "X"}
    EscalationThreshold = 0
    CommitsAfterFailure = FALSE
PROPERTIES
    DeadlocksAreBroken
CHECK_DEADLOCK FALSE
