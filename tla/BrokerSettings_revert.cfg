CONSTANTS
    RoleGroups = {"default"}
    Specs <- OpaSpecs
    MaxEdits = 2
    MaxFaults = 0
SPECIFICATION Spec
INVARIANTS
    SettledAuthorizes
CHECK_DEADLOCK FALSE
