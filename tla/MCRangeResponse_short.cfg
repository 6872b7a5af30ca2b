\* A bounded request that ends at the first byte after the head.
SPECIFICATION Spec
CONSTANTS
    Files <- MCFiles
    OtherHeads <- MCOtherHeads
    Tail = 3
    None = None
INVARIANT FullyCachedServed
\* Every request comes to its end.
CHECK_DEADLOCK FALSE
