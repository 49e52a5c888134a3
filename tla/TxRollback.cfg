\* A failing "sync" call.
CONSTANTS
    Values = {v1}
    Zero = Zero
    Torn = Torn
    NoData = NoData
    MaxPages = 2
    MaxTx = 2
    MaxLog = 5
    MaxCrashes = 1
    IndexPageLimit = 0
    Faults = {"sync"}
SPECIFICATION Spec
INVARIANT RollbackDiscards
CHECK_DEADLOCK FALSE
