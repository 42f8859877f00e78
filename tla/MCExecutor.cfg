SPECIFICATION Spec
CONSTANTS
    a = a
    b = b
    x = x
    y = y
    Undeclared = Undeclared
    Nodes = {a, b}
    Names = {x, y}
    Projects <- TwoNodes
    MaxRuns = 3
    MaxFaults = 2
INVARIANTS
    ResumeSafe
    Converged
    RollbackRestores
SYMMETRY NamesAlike
CHECK_DEADLOCK FALSE
