CONSTANTS
    a = a
    b = b
    r1 = r1
    r2 = r2
    r3 = r3
    Nobody = Nobody
    Runs = {r1, r2}
    Nodes = {a, b}
    Scopes <- BothNodes
    TTL = 1
    Grace = 0
    Margin = 1
    Backends = {"atomic", "locking"}
    MaxTime = 5
    MaxFence = 3
    MaxUnlocks = 1
    MaxWrites = 2
SPECIFICATION Spec
CHECK_DEADLOCK FALSE
SYMMETRY Symmetry
INVARIANTS
    GuardMeansHeld
    MergesKept
PROPERTIES
    TimelyPutsAreOwn
