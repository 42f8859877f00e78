CONSTANTS
    a = a
    b = b
    p1 = p1
    p2 = p2
    Items = {a, b}
    Procs = {p1, p2}
    Setups <- FoldLeaseBulk
    MaxWrites = 2
    MaxFence = 2
    MaxEnds = 1
SPECIFICATION Spec
CHECK_DEADLOCK FALSE
INVARIANTS
    ReadFresh
PROPERTIES
    ImplementsStore
    NoBlindOverwrite
