CONSTANTS
    Rows = {1, 2, 3, 4}
    Canonical <- MCCanonical
    SweepReports <- MCSweepReports
    DrainReports <- MCDrainReports
    Envs <- MCEnvs
    MaxRounds = 2
    MaxFaults = 1
SPECIFICATION Spec
CHECK_DEADLOCK FALSE
INVARIANTS
    MaintenanceInv
    FailedTickWasDrained
PROPERTIES
    RoundReachesEveryTenant
    EndIsNoticed
