SPECIFICATION Spec
CONSTANTS
    FreeConcat = 4
    OutputRate = 2
    FirstBound = 4
    StarChunk = 4
    MaxIntBits = 6
    Programs <- MCPrograms
INVARIANTS
    Deterministic
    WithinFuel
    WithAsNested
CHECK_DEADLOCK FALSE
