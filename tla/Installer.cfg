CONSTANTS
    MaxRuns = 2
    MaxCert = 2
    MaxFaults = 1
SPECIFICATION FairSpec
INVARIANTS
    TypeOK
    MixtureHasSnapshot
PROPERTIES
    RestoredMeansPrevious
    LineageIsDeployed
CHECK_DEADLOCK FALSE
