CONSTANTS
    a = a
    r1 = r1
    r2 = r2
    Items = {a}
    Runs = {r1, r2}
    Gap = 10
    Setups <- CheckedAndContended
    MaxPuts = 2
SPECIFICATION Spec
SYMMETRY RunSymmetry
CHECK_DEADLOCK FALSE
INVARIANTS
    HealthyMeansWhole
    NoFalseAlarm
PROPERTIES
    NewestHolderCommits
    NothingTakenBack
