\* One sync against every sequence of pages.
SPECIFICATION Spec
CONSTANTS
    s1 = s1
    s2 = s2
    None = None
    Syncs = {s1}
    Ranges <- SomeRanges
    Rows <- MixedRows
    Duration = 2
    PageSize = 2
    MaxInFlight = 1
INVARIANTS
    GapsExact
    RowsAccounted
    BoundIsFair
    StoredOnce
CHECK_DEADLOCK TRUE
