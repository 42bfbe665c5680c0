CONSTANTS
    VectorAgent = TRUE
    MaxCrashes = 2
SPECIFICATION FairSpec
INVARIANTS
    TypeOK
    NoShutdownFileBesideBroker
    CutOffOnlyByKill
    KilledOnlyIfBrokerOverruns
PROPERTIES
    LogsFlowAgain
CHECK_DEADLOCK FALSE
