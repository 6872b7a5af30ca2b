\* The tail of a file: bytes 2..4, requests from 0 on, the five attempts of the code.
CONSTANTS
    r1 = r1
    r2 = r2
    Readers = {r1}
    First = 2
    Last = 4
    Tail = TRUE
    MaxAttempts = 5
SPECIFICATION FairSpec
PROPERTIES ImplementsRangeStream StreamsEnd
\* All readers gone and the download over: the writer is done.
CHECK_DEADLOCK FALSE
