CONSTANTS
    Runs = {"r1", "r2"}
    StackOrder <- MCStackOrder
    Bare = {"site"}
    Environments = {"dev", "prod"}
    Want <- MCWant
    Exports <- MCExports
    Reads <- MCReads
    Forbidden <- MCForbidden
    Commands <- MCCommands
    Stores <- MCStores
    Backends = {"journal", "postgres", "sqlite"}
    TransactMax = 3
    CasAttempts = 2
    MaxLapses = 1
    MaxLost = 1
    Absent = Absent
    Nobody = Nobody
SPECIFICATION Spec
PROPERTIES
    UnselectedOutputsStand
CHECK_DEADLOCK FALSE
