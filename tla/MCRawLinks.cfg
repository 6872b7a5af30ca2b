\* Three managers of one path; the link outlives the task's registration.
SPECIFICATION FairSpec
CONSTANTS
    Managers = {m1, m2, m3}
    Tasks = {t1, t2, t3}
    None = None
    MaxAttempts = 2
    TaskTtl = 1
    CacheTtl = 2
    MaxTime = 4
INVARIANTS TypeOK OneFetch FailureDropped LinkFresh LostExplained
PROPERTIES WaitersAnswered
\* All managers answered and the clock at its bound.
CHECK_DEADLOCK FALSE
