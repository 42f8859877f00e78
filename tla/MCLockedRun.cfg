SPECIFICATION Spec
CONSTANTS
    a = a
    b = b
    k = k
    l = l
    Nodes <- MCNodes
    Keys <- MCKeys
    Setups <- MCSetups
    TTL = 3
    Interval = 1
    Grace = 1
    Margin = 0
    MaxNow = 3
    MaxFaults = 1
INVARIANTS NoSupersededWrite ReleasedQuiet
PROPERTIES NothingAfterRefusal Finishes
