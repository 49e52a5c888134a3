SPECIFICATION EitherSpec
CONSTANTS
    MaxKey = 4
    h1 = h1
    h2 = h2
    HeapPages = {h1, h2}
    PagesOf <- PagesOfKey
    PageSize = 36
    KeySize = 4
    MaxPages = 10
    MaxSplits = 3
    NoPage = NoPage
    NoValue = NoValue
    NoClimb = NoClimb
INVARIANT ScansFindAll
CHECK_DEADLOCK FALSE
