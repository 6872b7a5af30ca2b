\* Every request of three files, with every combination of writers and files
\* on disk.
SPECIFICATION Spec
CONSTANTS
    Files <- MCFiles
    OtherHeads <- MCOtherHeads
    Tail = 3
    None = None
INVARIANTS TypeOK InOrder WithinAnnounced ShortExplained HitHasContent
\* Every request comes to its end.
CHECK_DEADLOCK FALSE
