CONSTANTS
    Parts <- MCParts
    Clusters <- Neighbours
    RoleGroups <- OneGroup
    Specs <- OnOff
    Kinds <- MCKinds
    Absent = Absent
    MaxActs = 3
    MaxFaults = 1
SPECIFICATION FairSpec
INVARIANTS
    TypeOK
    SettledMeansOwn
PROPERTIES
    StaysOffOthers
    NothingLeftBehind
CHECK_DEADLOCK FALSE
