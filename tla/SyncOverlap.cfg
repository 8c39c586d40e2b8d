\* Two syncs at once that share candles, while the exchange corrects one of them;
\* both may fail at any statement.
SPECIFICATION FairSpec
CONSTANTS
    s1 = s1
    s2 = s2
    None = None
    Syncs = {s1, s2}
    Ranges <- SharedRanges
    Rows <- ChangedRows
    Duration = 2
    PageSize = 2
    MaxInFlight = 2
INVARIANTS
    StoredOnce
    NothingUncounted
    NoWaitCycle
PROPERTIES
    EverySyncEnds
CHECK_DEADLOCK TRUE
