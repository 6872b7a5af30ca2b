\* Two requests, for the head or the tail or of a prefetch, and one
\* registration that runs out.
SPECIFICATION FairSpec
CONSTANTS
    Requests = {r1, r2}
    Writers = {w1, w2, w3}
    None = None
    DiskCache = TRUE
    MaxExpiries = 1
INVARIANTS TypeOK MarkerOwned DownloadOnce SavesSettled
PROPERTIES MissEnds
CHECK_DEADLOCK FALSE
