\* Numbers of two types in a condition.
CONSTANTS
    IntBits = 4
    Unit = 2
    Real <- MCReal
    Wkt <- MCWkt
    VectorOf <- MCVectorOf
    TextOf <- MCTextOf
    RowsPerPage = 2
    TextOrder <- MCTextOrder
    LoneTexts <- MCLoneTexts
    Texts <- MCTexts
    MaxTexts = 3
    Setup <- MCSetup
SPECIFICATION Spec
PROPERTY
    ComparisonsAreNumeric
