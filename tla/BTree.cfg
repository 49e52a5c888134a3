SPECIFICATION EitherSpec
CONSTANTS
    MaxKey = 8
    h1 = h1
    h2 = h2
    HeapPages = {h1, h2}
    PagesOf <- PagesOfKey
    PageSize = 36
    KeySize = 4
    MaxPages = 15
    MaxSplits = 3
    NoPage = NoPage
    NoValue = NoValue
    NoClimb = NoClimb
INVARIANTS TypeOK IndexIsMap ScansAreComplete TreeIsSound SearchNeverLies
PROPERTY EitherEnds
CHECK_DEADLOCK FALSE
