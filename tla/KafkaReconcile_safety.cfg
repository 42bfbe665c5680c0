CONSTANTS
    default = default
    secondary = secondary
    RoleGroups = {default, secondary}
    Addresses = {"a"}
    SecretClasses <- MCSecretClasses
    Claims <- MCClaims
    ClusterSpecs <- AllSpecs
    Deletable <- NoObjects
    Absent = Absent
    MaxEdits = 1
    MaxFaults = 1
SPECIFICATION Spec
INVARIANTS
    TypeOK
    PodsHaveIdentity
    PublishedHostsExist
    ReportsWhatIsApplied
    QuiescentMeansDone
PROPERTIES
    DeletesOnlyOrphans
    StatefulSetComesLast
CHECK_DEADLOCK FALSE
