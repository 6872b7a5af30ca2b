\* A request that finds a writer nobody will start.
SPECIFICATION FairSpec
CONSTANTS
    Requests = {r1, r2}
    Writers = {w1, w2}
    None = None
    DiskCache = TRUE
    MaxExpiries = 0
PROPERTY ReadersServed
CHECK_DEADLOCK FALSE
