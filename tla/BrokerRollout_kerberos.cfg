CONSTANTS
    SecretClasses <- MCSecretClasses
    Configurations <- KerberosConfigurations
    Replicas = 2
    MaxEdits = 1
    MaxCrashes = 0
SPECIFICATION Spec
INVARIANTS
    ReadyMeansRegistered
CHECK_DEADLOCK FALSE
