\* Every I/O call may fail; one crash.
CONSTANTS
    Values = {v1}
    Zero = Zero
    Torn = Torn
    NoData = NoData
    MaxPages = 2
    MaxTx = 2
    MaxLog = 5
    MaxCrashes = 1
    IndexPageLimit = 1
    Faults = {"append", "sync", "page"}
SPECIFICATION FairSpec
INVARIANTS
    LockDiscipline
    RedoStaysInBounds
PROPERTIES
    CommitEnds
    RecoveryEnds
CHECK_DEADLOCK FALSE
