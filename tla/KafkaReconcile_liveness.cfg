CONSTANTS
    default = default
    secondary = secondary
    RoleGroups = {default}
    Addresses = {"a", "b"}
    SecretClasses <- MCSecretClasses
    Claims <- MCClaims
    ClusterSpecs <- LiveSpecs
    Deletable <- LiveObjects
    Absent = Absent
    MaxEdits = 1
    MaxFaults = 1
SPECIFICATION FairSpec
INVARIANTS
    QuiescentMeansDone
PROPERTIES
    
    ImplementsDeployment
    Convergence
    PausedStatusFollows
CHECK_DEADLOCK FALSE
