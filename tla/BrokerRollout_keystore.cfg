CONSTANTS
    SecretClasses <- MCSecretClasses
    Configurations <- AllConfigurations
    Replicas = 2
    MaxEdits = 0
    MaxCrashes = 0
SPECIFICATION Spec
INVARIANTS
    AcceptedMeansBootable
CHECK_DEADLOCK FALSE
