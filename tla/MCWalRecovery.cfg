\* One operation at a time over one page: three restarts, so that ids and LSNs are
\* used again, a checkpoint between operations, crashes anywhere.
SPECIFICATION FairSpec
CONSTANTS
    Page <- OnePage
    Txn <- TwoTxns
    MaxBegins = 2
    MaxWrites = 2
    MaxCrashes = 3
    MaxCheckpoints = 1
    Concurrent = FALSE
    CrashKinds = {"power"}
INVARIANTS
    CommittedStateRestored
    HistoryRepeated
    DiskImagesAreLogged
    AcknowledgedIsDurable
PROPERTIES
    RecoveryCompletes
CHECK_DEADLOCK FALSE
