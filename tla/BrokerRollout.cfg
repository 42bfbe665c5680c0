CONSTANTS
    SecretClasses <- MCSecretClasses
    Configurations <- AllConfigurations
    Replicas = 2
    MaxEdits = 2
    MaxCrashes = 1
SPECIFICATION FairSpec
INVARIANTS
    TypeOK
    ClientsGetThrough
    
    ProbedMeansRegistered
PROPERTIES
    WaitsForQuorum
    RolloutCompletes
CHECK_DEADLOCK FALSE
