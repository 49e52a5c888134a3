\* Crashes at every point, no failing I/O call.
CONSTANTS
    Values = {v1, v2}
    Zero = Zero
    Torn = Torn
    NoData = NoData
    MaxPages = 2
    MaxTx = 2
    MaxLog = 7
    MaxCrashes = 2
    IndexPageLimit = 1
    Faults = {}
SPECIFICATION Spec
SYMMETRY ImageSymmetry
INVARIANTS
    TypeOK
    WriteAhead
    CrashSafe
    RedoStaysInBounds
PROPERTIES
    NoSteal
    RepeatableReads
    ImplementsStore
CHECK_DEADLOCK FALSE
