CONSTANTS
    r1 = r1
    r2 = r2
    l1 = l1
    v1 = v1
    Runners = {r1, r2}
    LeaseMs = 1
    NextRunDelayMs = 1
    BacklogDelayMs = 1
    RetryDelayMs = 1
    MaxTime = 3
    MaxAttempts = 0
    MaxFaults = 0
    Grants = {1}
    Readers = {}
    Recoveries = {v1}
    Limit = 1
    MinWindow = 2
    MaxTokens = 2
SYMMETRY RunnerSymmetry
SPECIFICATION Spec
INVARIANTS
    SweepSlotIsFree
    LeaseSafety
PROPERTIES
    KeepsLease
    PauseOutlastsSweeps
