\* Three writes of one compass, three ticks of the clock around an expiry of
\* one, three operations queued at most, and one crash with its restart.
SPECIFICATION FairSpec

CONSTANTS
    ExpiryDuration = 1
    MaxTime = 4
    MaxWrites = 3
    MaxQueue = 3
    MaxCrashes = 1

INVARIANTS
    CompassIsBacked
    RowsAreVersioned

PROPERTIES
    TableCatchesUp
