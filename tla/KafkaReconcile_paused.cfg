CONSTANTS
    default = default
    secondary = secondary
    RoleGroups = {default}
    Addresses = {"a"}
    SecretClasses <- MCSecretClasses
    Claims <- MCClaims
    ClusterSpecs <- LiveSpecs
    Deletable <- LiveObjects
    Absent = Absent
    MaxEdits = 1
    MaxFaults = 1
SPECIFICATION FairSpec
PROPERTIES
    PauseIsAlwaysReported
CHECK_DEADLOCK FALSE
