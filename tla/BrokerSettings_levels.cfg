CONSTANTS
    RoleGroups = {"default", "other"}
    Specs <- LevelSpecs
    MaxEdits = 1
    MaxFaults = 1
SPECIFICATION Spec
INVARIANTS
    TypeOK
    SettledAuthorizes
    
    MountsResolve
CHECK_DEADLOCK FALSE
