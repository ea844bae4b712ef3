\* A commit races a checkpoint.
SPECIFICATION Spec
CONSTANTS
    Page <- OnePage
    Txn <- OneTxn
    MaxBegins = 1
    MaxWrites = 1
    MaxCrashes = 1
    MaxCheckpoints = 1
    Concurrent = TRUE
    CrashKinds = {"power"}
INVARIANTS
    WinnersNotUndone
CHECK_DEADLOCK FALSE
