\* The task update_score after a second write into a directory.
SPECIFICATION Spec
CONSTANTS
    Dirs = {d1}
    Jobs = {j1, j2}
    Streams = {q1}
    None = None
    Ranges <- MCNested
    MaxCrashes = 0
INVARIANT ScoreFresh
CHECK_DEADLOCK FALSE
