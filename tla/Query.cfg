\* One text of every form, or three that change one table, in a
\* transaction or not, and with restarts.  A process that parses for ever or
\* has panicked can be restarted, so there is no deadlock.
CONSTANTS
    IntBits = 4
    Unit = 2
    Real <- MCReal
    Wkt <- MCWkt
    VectorOf <- MCVectorOf
    TextOf <- MCTextOf
    RowsPerPage = 2
    TextOrder <- MCTextOrder
    LoneTexts <- MCLoneTexts
    Texts <- MCTexts
    MaxTexts = 3
    Setup <- MCSetup
SPECIFICATION Spec
INVARIANTS
    OptimizerAddsNothing
    IndexKnowsEveryKey
PROPERTIES
    ReadsWhatIsWritten
    AnswersAreTyped
