CONSTANTS
    Operators = {o1, o2}
    Nodes = {"a", "b"}
    Commands <- MCCommands
    Remotes = {"postgres", "journal"}
    Stored <- MCStored
    MaxCommands = 3
    MaxFaults = 1
SPECIFICATION Spec
SYMMETRY Symmetry
PROPERTIES
    SnapshotsWhole
    ReplacedAsShown
    RmBackedUp
    MigratedWhole
CHECK_DEADLOCK FALSE
