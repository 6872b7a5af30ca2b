\* The opening of a file: two readers, three bytes, two attempts.
CONSTANTS
    r1 = r1
    r2 = r2
    Readers = {r1, r2}
    First = 0
    Last = 2
    Tail = FALSE
    MaxAttempts = 2
SPECIFICATION Spec
SYMMETRY ReaderSymmetry
INVARIANTS TypeOK EndedIsWhole HeadersMatchData WithinRequest
PROPERTIES SettledForGood
\* All readers gone and the download over: the writer is done.
CHECK_DEADLOCK FALSE
