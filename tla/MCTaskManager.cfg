\* All the keys of two files, lifetimes of one and two rounds of the loop.
CONSTANTS
    w = w
    o = o
    f1 = f1
    f2 = f2
    head = head
    tail = tail
    x = x
    none = none
    Types = {w, o}
    Files = {f1, f2}
    Subs = {head, tail}
    Instances = {x}
    None = none
    Ttls = {1}
    DefaultTtl = 2
    Interval = 1
    MaxTime = 3
SPECIFICATION Spec
SYMMETRY KeySymmetry
INVARIANTS TypeOK NoEmptyMaps NoOverstay
PROPERTIES ImplementsRegistry
