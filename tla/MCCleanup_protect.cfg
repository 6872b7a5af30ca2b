\* A record is evicted on the day after it was last read.
SPECIFICATION Spec
CONSTANTS
    e1 = e1
    e2 = e2
    None = None
    Entries <- MCEntries
    Kind <- MCKind
    Bytes <- MCBytes
    Within <- MCWithin
    Threshold = 8
    Target = 6
    Unit = 2
    Protection = 1
    MinScore = 9500
    Interval <- MCInterval
    MaxSaves = 2
    MaxRestarts = 0
    MaxTime = 2
PROPERTY ReadIsKept
\* The clock stops at its bound.
CHECK_DEADLOCK FALSE
