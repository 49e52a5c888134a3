\* Two sessions and three names, with draws, rollbacks and a crash at any
\* point.  Page 0 has room for two tables or for one and its counter,
\* serialize's buffer for one more of them.  The sessions stop when they have
\* begun their statements.
CONSTANTS
    Sessions = {s1, s2}
    Names = {t, u, v}
    GivenIds = {1}
    PageRoom = 2
    BufferRoom = 3
    MaxStatements = 4
    MaxCrashes = 1
SPECIFICATION Spec
SYMMETRY Symmetry
INVARIANT CatalogIsTransactional
INVARIANT CountersRunAhead
INVARIANT IdsAreUnique
CHECK_DEADLOCK FALSE
