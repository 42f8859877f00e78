CONSTANTS
    Kinds <- MCKinds
    CreateFirst <- MCCreateFirst
    Configs <- MCConfigs
    First <- Base
    Tags <- MCTags
    Keys <- MCKeys
    MaxFaults = 2
    MaxEdits = 2
SPECIFICATION FairSpec
INVARIANTS
    RowIsLive
    Tracked
PROPERTIES
    NoGap
    Settles
CHECK_DEADLOCK FALSE
