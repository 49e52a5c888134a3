\* A table with an id column beside a reader; the log may refuse records.
CONSTANTS
    long = long
    wide = wide
    other = other
    Records = {long, wide, other}
    Size <- SizeOf
    IdOf <- IdOfRecord
    HasId = TRUE
    PageSize = 64
    MaxPages = 4
    NoPage = NoPage
    NoImage = NoImage
    AppendFails = TRUE
SPECIFICATION Spec
VIEW Told
INVARIANTS
    TypeOK
    ChainIsSound
    IdsAreUnique
    ReaderMissesNothing
PROPERTIES
    RowsStay
    ImplementsRows
CHECK_DEADLOCK FALSE
