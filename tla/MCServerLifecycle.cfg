CONSTANTS
    Configs <- MCConfigs
    DefaultConcurrency = 1
    DefaultTLDs = 1
SPECIFICATION FairSpec
INVARIANTS PhaseTruthful QuietAtSnapshot
PROPERTIES ShutdownEnds
CHECK_DEADLOCK FALSE
