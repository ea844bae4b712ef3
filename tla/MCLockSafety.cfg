\* All three kinds of locks together: a table, a record of it with escalation at
\* one record, and overlapping key ranges of an index.
SPECIFICATION Spec
CONSTANTS
    Txn <- MCTxn2
    Relation <- OneRelation
    Record <- OneRecord
    Index <- OneIndex
    RelationOf <- RecordsOfA
    Key <- MCKeys
    KeyRange <- OverlappingRanges
    TableModes = {"IX", "S"}
    EscalationThreshold = 1
    CommitsAfterFailure = TRUE
INVARIANTS
    HeldLocksCompatible
    NoOvertaking
    WaitersAreAbortable
    NothingLeftBehind
    KeyLocksCompatible
CHECK_DEADLOCK FALSE
