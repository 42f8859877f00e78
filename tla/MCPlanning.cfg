SPECIFICATION Spec
CONSTANTS
    Nodes <- MCNodes
    Fields <- MCFields
    Immutable <- MCImmutable
    NameField <- MCNameField
    Configs <- MCConfigs
    First <- MCFirst
    Option <- MCOption
    MaxRuns = 3
    MaxEdits = 2
    MaxCrashes = 1
INVARIANTS CleanPlanIsTrue 
PROPERTIES  DestroyedForCause 
CHECK_DEADLOCK FALSE
