\* Two calls of write_to_disk in two directories, or in the same one, with
\* ranges that cover each other; one stream from disk and one restart.
SPECIFICATION FairSpec
CONSTANTS
    Dirs = {d1, d2}
    Jobs = {j1, j2}
    Streams = {q1}
    None = None
    Ranges <- MCRanges
    MaxCrashes = 1
INVARIANTS TypeOK AsWritten NoNested Accounting DiskAccounted FailureExplained
PROPERTIES JobsEnd
CHECK_DEADLOCK FALSE
