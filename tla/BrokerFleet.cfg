CONSTANTS
    RoleGroups <- MCRoleGroups
    Templates <- MCTemplates
    Broken <- MCBroken
    MaxReplicas = 2
    ClusterSpecs <- FleetSpecs
    Absent = Absent
    MaxEdits = 1
    MaxTrouble = 2
SPECIFICATION FairSpec
INVARIANTS
    TypeOK
    LossBounded
PROPERTIES
    RolloutFinishes
    DrainsFinish
CHECK_DEADLOCK FALSE
